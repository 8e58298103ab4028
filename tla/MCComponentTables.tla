-------------------------- MODULE MCComponentTables --------------------------
(* A small instance of ComponentTables for TLC. *)
EXTENDS ComponentTables

mcOffset == [z \in Zone |-> CASE z = "UTC" -> 0 [] z = "Paris" -> 1 [] OTHER -> -2]

Series == [uid |-> "u", n |-> 1]
Exception == [uid |-> "u", n |-> 2]
mcKey == {Series, Exception}

At(z, w) == [spec |-> z, wall |-> w]

\* What the others are made from.
Bare ==
  [kind |-> "Event", allDay |-> FALSE, start |-> At("Paris", 9), end |-> At("Lost", 10),
   recurrenceId |-> NoTime, summary |-> "bare", comments |-> <<>>, properties |-> <<>>,
   organizer |-> "", attendees |-> <<>>, alarms |-> <<>>, rules |-> <<>>,
   rdates |-> <<>>, attachments |-> <<>>]

\* Two days of a meeting that recurs, its times read on a floating clock.
Meeting ==
  [Bare EXCEPT
     !.allDay = TRUE, !.start = At("Paris", 24), !.end = Local(48), !.summary = "meeting",
     !.comments = << <<"bring", "cake">>, <<"late">> >>,
     !.properties = << [name |-> "X-A", value |-> "1"] >>,
     !.organizer = "me",
     !.attendees = << [email |-> "", role |-> "OPT"], [email |-> "me", role |-> "CHAIR"],
                      [email |-> "you", role |-> "OPT"] >>,
     !.alarms = << [action |-> "Email", text |-> "t", recipients |-> << <<"you">>, <<"him">> >>,
                    repeat |-> 0, snooze |-> 0, trigger |-> "end", offset |-> -1,
                    time |-> NoTime, enabled |-> TRUE],
                   [action |-> "Display", text |-> "d", recipients |-> <<>>,
                    repeat |-> 2, snooze |-> 5, trigger |-> "time", offset |-> 0,
                    time |-> Local(20), enabled |-> FALSE] >>,
     !.rules = << [type |-> "EXRULE", by |-> "MO", until |-> Local(72), count |-> 0],
                  [type |-> "RRULE", by |-> "", until |-> NoTime, count |-> -1] >>,
     !.rdates = << [type |-> "XDateTime", at |-> Local(72)],
                   [type |-> "RDateTime", at |-> At("Paris", 75)],
                   [type |-> "RDate", at |-> Local(96)] >>,
     !.attachments = << [form |-> "binary", value |-> "w"], [form |-> "binary", value |-> "x"] >>]

Call ==
  [Bare EXCEPT
     !.kind = "Todo", !.start = NoTime, !.end = At("Lost", 34), !.summary = "call",
     !.rules = << [type |-> "RRULE", by |-> "", until |-> NoTime, count |-> 3] >>,
     !.attachments = << [form |-> "none", value |-> ""], [form |-> "binary", value |-> "y"] >>]

Skipped ==
  [Bare EXCEPT !.allDay = TRUE, !.start = Local(72), !.end = Local(72), !.recurrenceId = Local(72),
               !.attendees = << [email |-> "you", role |-> "OPT"] >>]

mcContents == (Series :> {Meeting, Call}) @@ (Exception :> {Skipped})
=============================================================================
