---------------------------- MODULE WorkspaceRules ----------------------------
(***************************************************************************)
(* The shipped static rules (policy/static_policy.py): 24 actions of the   *)
(* AgentDojo workspace suite, the nine email ones also as an environment   *)
(* of their own.  No shipped rule denies.                                  *)
(***************************************************************************)
EXTENDS Functions

Allow(data_format) == [default |-> "allow", data_format |-> data_format]
Verify             == [default |-> "verify", data_format |-> <<>>]

EmailRules ==
  [a \in {"get_unread_emails", "get_sent_emails", "get_received_emails", "get_draft_emails",
          "search_emails", "search_contacts_by_name", "search_contacts_by_email",
          "send_email", "delete_email"} |->
     CASE a = "send_email" -> Allow([recipients |-> "email", cc |-> "email", bcc |-> "email"])
       [] a = "delete_email" -> Verify
       [] OTHER -> Allow(<<>>)]

CalendarRules ==
  [a \in {"get_current_day", "search_calendar_events", "get_day_calendar_events",
          "create_calendar_event", "reschedule_calendar_event",
          "add_calendar_event_participants", "cancel_calendar_event"} |->
     CASE a = "create_calendar_event" ->
            Allow([participants |-> "email", start_time |-> "datetime", end_time |-> "datetime"])
       [] a = "reschedule_calendar_event" ->
            Allow([new_start_time |-> "datetime", new_end_time |-> "datetime"])
       [] a = "add_calendar_event_participants" -> Allow([participants |-> "email"])
       [] a = "cancel_calendar_event" -> Verify
       [] OTHER -> Allow(<<>>)]

DriveRules ==
  [a \in {"list_files", "get_file_by_id", "search_files_by_filename", "search_files",
          "create_file", "append_to_file", "share_file", "delete_file"} |->
     CASE a = "share_file" -> Allow([email |-> "email"])
       [] a = "delete_file" -> Verify
       [] OTHER -> Allow(<<>>)]

AllRules ==
  [a \in DOMAIN EmailRules \cup DOMAIN CalendarRules \cup DOMAIN DriveRules |->
     IF a \in DOMAIN EmailRules THEN EmailRules[a]
     ELSE IF a \in DOMAIN CalendarRules THEN CalendarRules[a]
     ELSE DriveRules[a]]

\* _RULES_BY_ENV_TYPE: any other environment (banking, slack, travel) has none.
RulesFor(env_type) ==
  IF env_type = "email" THEN EmailRules
  ELSE IF env_type = "workspace" THEN AllRules ELSE <<>>

\* _ARG_ALIASES.
ShippedAliases == [recipients |-> <<"recipients", "to", "recipient">>]
===============================================================================
