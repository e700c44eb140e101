--------------------------- MODULE Notifications ---------------------------
(***************************************************************************)
(* Who hears about an SLA event, on which channel, and what is recorded of *)
(* it (notifications/notification.service.ts), while people change their   *)
(* preferences, the settings and the escalation target, and handlers stop  *)
(* and are replayed.                                                       *)
(***************************************************************************)
EXTENDS Naturals, Sequences, FiniteSets

CONSTANTS People, Events,
          Kind,       \* Kind[e]: the type of the event
          Owner,      \* Owner[e]: the owner its payload names, or "none"
          Holder,     \* Holder[r]: a person with role r in the team, or "none"
          Reachable,  \* people with an email address
          Admins,     \* concurrent calls of updateSettings
          Changes,    \* bound: changes of settings, preferences and target
          Troubles    \* bound: handlers that stop

VARIABLES setting,    \* the row of notification_settings
          preference, \* rows of notification_preferences
          target,     \* the team's row of team_escalation_targets
          admin,      \* calls of updateSettings, with the settings each has read
          handler,    \* the handling of each event
          note,       \* rows of notifications
          escalated,  \* events whose item has escalated_at
          sent,       \* history: channels on which a person was told, in order
          torn,       \* history: deliveries whose handler stopped before the row
          given,      \* history: the settings last asked for
          overlap,    \* history: two calls of updateSettings overlapped
          changes, troubles

vars == <<setting, preference, target, admin, handler, note, escalated, sent, torn, given, overlap, changes, troubles>>
conf == <<setting, preference, target, admin, given, overlap, changes>>
work == <<handler, note, escalated, sent, torn, troubles>>

Channels == {"email", "slack"}
Fallback == "email"
Settings == [threshold : {150, 200}, down : SUBSET Channels]
Preference == [channel : Channels, address : BOOLEAN]
Rest == [stage |-> "rest"]
NoPreference == [channel |-> Fallback, address |-> FALSE]
NoNote == [status |-> "none"]
Pairs == Events \X People

Init == /\ setting = [threshold |-> 150, down |-> {}]
        /\ preference = [p \in People |-> NoPreference]
        /\ target = "none" /\ admin = [a \in Admins |-> Rest]
        /\ handler = [e \in Events |-> Rest]
        /\ note = [x \in Pairs |-> NoNote] /\ escalated = {}
        /\ sent = [x \in Pairs |-> << >>] /\ torn = {}
        /\ given = setting /\ overlap = FALSE
        /\ changes = 0 /\ troubles = 0

-----------------------------------------------------------------------------
(* Configuration.  updateSettings reads the row and writes it whole.       *)
Change == changes < Changes /\ changes' = changes + 1
BeginUpdate(a) == /\ admin[a] = Rest /\ Change
                  /\ admin' = [admin EXCEPT ![a] = [stage |-> "write", read |-> setting]]
                  /\ overlap' = (overlap \/ \E b \in Admins : admin[b] # Rest)
                  /\ UNCHANGED <<setting, preference, target, given, work>>
MergedMutant(read, ask) == [f \in DOMAIN setting |-> IF f \in DOMAIN ask THEN ask[f]
                                                     ELSE IF f = "threshold" THEN 150 ELSE read[f]]
Merged(read, ask) == [f \in DOMAIN setting |-> IF f \in DOMAIN ask THEN ask[f] ELSE read[f]]
UpdateSettings(a, ask) == /\ admin[a] # Rest
                          /\ setting' = Merged(admin[a].read, ask)
                          /\ given' = [f \in DOMAIN given |-> IF f \in DOMAIN ask THEN ask[f] ELSE given[f]]
                          /\ admin' = [admin EXCEPT ![a] = Rest]
                          /\ UNCHANGED <<preference, target, overlap, changes, work>>
SetPreference(p, chosen) == /\ Change /\ preference' = [preference EXCEPT ![p] = chosen]
                            /\ UNCHANGED <<setting, target, admin, given, overlap, work>>
SetTeamEscalationTarget(p) == /\ Change /\ target' = p
                              /\ UNCHANGED <<setting, preference, admin, given, overlap, work>>

-----------------------------------------------------------------------------
(* Recipients, once each, in order.                                        *)
Once(seq) == SelectSeq(IF Len(seq) = 2 /\ seq[1] = seq[2] THEN <<seq[1]>> ELSE seq, LAMBDA p : p \in People)
EscalationTarget == CASE target # "none" -> target
                      [] target = "none" /\ Holder["on_call"] # "none" -> Holder["on_call"]
                      [] OTHER -> Holder["team_lead"]
RecipientsMutant(e) == IF Kind[e] = "SLABreached" THEN Once(<<Owner[e], Holder["team_lead"]>>) ELSE Once(<<EscalationTarget>>)
Recipients(e) == CASE Kind[e] = "SLAWarning" -> Once(<<Owner[e]>>)
                   [] Kind[e] = "SLABreached" -> Once(<<Owner[e], Holder["team_lead"]>>)
                   [] OTHER -> Once(<<EscalationTarget, Owner[e]>>)

Now(e) == handler[e].todo[1]
At(e, stage) == handler[e].stage = stage
Go(e, stage) == handler' = [handler EXCEPT ![e].stage = stage]

Begin(e) == /\ handler[e] \in {Rest, [stage |-> "replay"]}
            /\ handler' = [handler EXCEPT ![e] = [stage |-> "resolve", down |-> setting.down, todo |-> << >>,
                                                  want |-> NoPreference, tried |-> << >>, told |-> "nobody"]]
            /\ UNCHANGED <<conf, note, escalated, sent, torn, troubles>>
Resolve(e) == /\ At(e, "resolve")
              /\ handler' = [handler EXCEPT ![e].stage = "person", ![e].todo = Recipients(e)]
              /\ UNCHANGED <<conf, note, escalated, sent, torn, troubles>>

(* A person who has a row for the event is passed over.                    *)
KnownMutant(e) == note[<<e, Now(e)>>].status = "sent"
Known(e) == note[<<e, Now(e)>>] # NoNote
Turn(e) == [handler[e] EXCEPT !.stage = "person", !.todo = Tail(@), !.tried = << >>, !.told = "nobody"]
Skip(e) == /\ At(e, "person") /\ handler[e].todo # << >> /\ Known(e)
           /\ handler' = [handler EXCEPT ![e] = Turn(e)]
           /\ UNCHANGED <<conf, note, escalated, sent, torn, troubles>>
Prefer(e) == /\ At(e, "person") /\ handler[e].todo # << >> /\ ~Known(e)
             /\ handler' = [handler EXCEPT ![e].stage = "deliver", ![e].want = preference[Now(e)]]
             /\ UNCHANGED <<conf, note, escalated, sent, torn, troubles>>

(* The preferred channel, then email; a channel fails when it is           *)
(* unavailable or the person has no address on it.                         *)
Order(e) == IF handler[e].want.channel = Fallback THEN <<Fallback>> ELSE <<handler[e].want.channel, Fallback>>
Address(e, c) == IF c = Fallback THEN Now(e) \in Reachable \/ (handler[e].want.channel = Fallback /\ handler[e].want.address)
                 ELSE handler[e].want.address
Reaches(e, c) == c \notin handler[e].down /\ Address(e, c)
Deliver(e) ==
  LET n == Len(handler[e].tried) + 1
      c == Order(e)[n]
      reached == Reaches(e, c)
  IN
  /\ At(e, "deliver")
  /\ handler' = [handler EXCEPT ![e].tried = Append(@, c), ![e].told = IF reached THEN c ELSE @,
                                ![e].stage = IF reached \/ n = Len(Order(e)) THEN "record" ELSE @]
  /\ sent' = IF reached THEN [sent EXCEPT ![<<e, Now(e)>>] = Append(@, c)] ELSE sent
  /\ UNCHANGED <<conf, note, escalated, torn, troubles>>

StatusMutant(told, want) == IF told = "nobody" THEN "failed" ELSE "sent"
Status(told, want) == CASE told = "nobody" -> "failed" [] told = want -> "sent" [] OTHER -> "fallback_sent"
Record(e) == LET x == <<e, Now(e)>> IN
             /\ At(e, "record")
             /\ note' = IF note[x] # NoNote THEN note
                        ELSE [note EXCEPT ![x] = [status |-> Status(handler[e].told, handler[e].want.channel),
                                                  want |-> handler[e].want.channel, tried |-> handler[e].tried]]
             /\ handler' = [handler EXCEPT ![e] = Turn(e)]
             /\ UNCHANGED <<conf, escalated, sent, torn, troubles>>
Finish(e) == /\ At(e, "person") /\ handler[e].todo = << >>
             /\ escalated' = IF Kind[e] = "SLAEscalated" THEN escalated \cup {e} ELSE escalated
             /\ Go(e, "done")
             /\ UNCHANGED <<conf, note, sent, torn, troubles>>

(* A query fails, or the process stops; an operator replays the event.     *)
Interrupt(e) == /\ troubles < Troubles /\ handler[e].stage \in {"resolve", "person", "deliver", "record"}
                /\ troubles' = troubles + 1
                /\ torn' = IF At(e, "record") /\ handler[e].told # "nobody" THEN torn \cup {<<e, Now(e)>>} ELSE torn
                /\ handler' = [handler EXCEPT ![e] = [stage |-> "replay"]]
                /\ UNCHANGED <<conf, note, escalated, sent>>

Next == \/ \E a \in Admins : \/ BeginUpdate(a)
                             \/ UpdateSettings(a, [threshold |-> 200]) \/ UpdateSettings(a, [down |-> {"slack"}])
        \/ \E p \in People : (\E c \in Preference : SetPreference(p, c)) \/ SetTeamEscalationTarget(p)
        \/ \E e \in Events : \/ Begin(e) \/ Resolve(e) \/ Skip(e) \/ Prefer(e) \/ Deliver(e)
                             \/ Record(e) \/ Finish(e) \/ Interrupt(e)

-----------------------------------------------------------------------------
TypeOK == /\ setting \in Settings /\ preference \in [People -> Preference] /\ target \in People \cup {"none"}
          /\ escalated \subseteq Events /\ torn \subseteq Pairs
          /\ \A x \in Pairs : note[x].status \in {"none", "sent", "fallback_sent", "failed"}

(* A person is told of an event once, replays included, but for a handler  *)
(* that stopped between the delivery and its row.                          *)
ToldOnce == \A x \in Pairs \ torn : Len(sent[x]) <= 1

(* The row of a notification says what happened on the channels, and every *)
(* event that is done has one for its owner; an escalation that is done is *)
(* marked on its item.                                                     *)
RowIsHonest ==
  /\ \A x \in Pairs \ torn : note[x] # NoNote =>
       CASE note[x].status = "failed" -> sent[x] = << >>
         [] note[x].status = "sent" -> sent[x] = <<note[x].want>>
         [] OTHER -> sent[x] = <<Fallback>> /\ note[x].want # Fallback
  /\ \A e \in Events : At(e, "done") =>
       /\ Owner[e] \in People => note[<<e, Owner[e]>>] # NoNote
       /\ Kind[e] = "SLAEscalated" => e \in escalated

(* A setting stays as it was last asked for, unless two calls overlapped.  *)
SettingsAreKept == ~overlap => setting = given
=============================================================================
