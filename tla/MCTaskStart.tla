----------------------------- MODULE MCTaskStart -----------------------------
(***************************************************************************)
(* A pipeline of two shipped actions and one the LLMs make up, initialized *)
(* call by call.                                                           *)
(***************************************************************************)
EXTENDS TaskStart, WorkspaceRules

MCPool == {"search_emails", "send_email"}
MCActions == MCPool \cup {"made_up"}
MCRules == [a \in MCPool |-> RulesFor("email")[a]]
MCArgNames == {"recipients", "to", "recipient", "cc", "bcc", "body"}
MCFormatValidators == [email |-> {"ann@corp"}]

MCCalls == {[action |-> "send_email", args |-> NoArgs]}

MCTasks == {"read mail", "send mail"}

\* Both sub-tasks, one twice with a blank, and an answer of blanks only.
MCDecomposerReplies ==
  {NoReply, <<"read mail", "send mail">>, <<"send mail", "blank", "send mail">>, <<"blank">>}

MCScopeReplies == {NoReply, {"send_email", Unhashable}, {"search_emails", "made_up"}, {"send_email"}}

MCPlanReplies ==
  {NoReply,
   [tool |-> [a \in MCActions |-> IF a = "send_email" THEN {"search_emails"} ELSE {}],
    data |-> [a \in MCActions |-> {}]]}
==============================================================================
