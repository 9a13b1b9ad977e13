----------------------------- MODULE MCAgentLoop -----------------------------
(***************************************************************************)
(* A small agent under the shipped workspace rules: it reads, it sends,    *)
(* and it deletes, which the static policy sends to verification.          *)
(***************************************************************************)
EXTENDS AgentLoop, WorkspaceRules

MCRules == RulesFor("workspace")
MCActions == DOMAIN MCRules

MCArgNames == {"recipients", "to", "recipient"}
              \cup UNION {DOMAIN MCRules[a].data_format : a \in MCActions}
MCAtoms == {"ann@corp"}
MCFormatValidators == [email |-> {"ann@corp"}]

Args(fields) == [n \in MCArgNames |-> IF n \in DOMAIN fields THEN fields[n] ELSE Absent]
Request(action, args) == [action |-> action, args |-> args]

ToAnn  == Args([recipients |-> List({"ann@corp"})])
Search == Request("search_emails", NoArgs)
Send   == Request("send_email", ToAnn)
NoOne  == Request("send_email", NoArgs)
Delete == Request("delete_email", NoArgs)

MCCalls == {Search, Send, NoOne, Delete}
CallsInOrder == {Search, Send, NoOne}
TwoCalls == {Search, Send}
TwoRefusals == {Search, Send, Delete}

Mail == {"search_emails", "send_email", "delete_email"}
MCScopeReplies == {Mail, Mail \ {"delete_email"}}
MailEnabled == {Mail}

Plan(send_after, search_after, profiles) ==
  [tool |-> [a \in MCActions |-> CASE a = "send_email" -> send_after
                                   [] a = "search_emails" -> search_after
                                   [] OTHER -> {}],
   data |-> [a \in MCActions |-> IF a = "send_email" THEN profiles ELSE {}]]

\* Reading before sending to Ann; a circle.
ReadFirst == Plan({"search_emails"}, {}, {ToAnn})
Circle    == Plan({"search_emails"}, {"send_email"}, {})
MCPlanReplies == {ReadFirst, Circle}
==============================================================================
