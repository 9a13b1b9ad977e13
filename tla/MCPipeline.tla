------------------------------ MODULE MCPipeline ------------------------------
(***************************************************************************)
(* A small pipeline: three shipped email rules, one denied action, one     *)
(* without a rule and one the LLMs make up; replies that are good, cyclic, *)
(* malformed and absent.                                                   *)
(***************************************************************************)
EXTENDS Pipeline, WorkspaceRules

MCActions == {"search_emails", "send_email", "delete_email", "wipe_mailbox", "made_up"}
MCPool == MCActions \ {"made_up"}

\* wipe_mailbox exercises StaticDecision.DENY, which no shipped rule uses.
MCRules ==
  [a \in MCPool |-> IF a = "wipe_mailbox" THEN [default |-> "deny", data_format |-> [to |-> "email"]]
                    ELSE RulesFor("email")[a]]

MCArgNames == {"recipients", "to", "recipient", "cc", "bcc", "body"}
MCAtoms == {"ann@corp", "bob@corp", "nobody"}
MCFormatValidators == [email |-> {"ann@corp", "bob@corp"}]

\* The argument map with the fields of a record present, the others absent.
Args(fields) == [n \in MCArgNames |-> IF n \in DOMAIN fields THEN fields[n] ELSE Absent]
To(value) == Args([recipients |-> value])
Request(action, args) == [action |-> action, args |-> args]

MCCalls ==
  {Request("search_emails", NoArgs), Request("delete_email", NoArgs), Request("made_up", NoArgs),
   Request("wipe_mailbox", NoArgs), Request("wipe_mailbox", Args([to |-> Scalar("nobody")]))}
  \cup {Request("send_email", args) : args \in
          {To(List({"ann@corp"})), To(List({"nobody"})), To(NoValue),
           Args([to |-> Scalar("ann@corp")])}}

MCScopeReplies ==
  {NoReply, {"send_email", Unhashable},
   {"search_emails", "send_email", "made_up"}, MCActions}

\* Replies about send_email and search_emails; wipe_mailbox goes after sending.
Plan(send_after, search_after, profiles) ==
  [tool |-> [a \in MCActions |-> CASE a = "send_email" -> send_after
                                   [] a = "search_emails" -> search_after
                                   [] a = "wipe_mailbox" -> {"send_email"}
                                   [] OTHER -> {}],
   data |-> [a \in MCActions |-> IF a = "send_email" THEN profiles ELSE {}]]

MCPlanReplies ==
  {NoReply,
   Plan({"search_emails", "send_email", "made_up"}, {"delete_email"}, {To(List({"ann@corp"}))}),
   Plan({"search_emails"}, {"send_email"}, {}),
   Plan({}, {Unhashable}, {To(Scalar("bob@corp"))}),
   Plan({"delete_email"}, {}, {Args([recipients |-> Scalar("ann@corp"), cc |-> NoValue]),
                               Args([recipients |-> List({"nobody"}), body |-> Scalar("nobody")])})}
===============================================================================
