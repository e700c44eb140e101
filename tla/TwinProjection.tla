--------------------------- MODULE TwinProjection ---------------------------
(***************************************************************************)
(* The projection of canonical twins to work items                         *)
(* (connectors/twin-projection.service.ts): one work item for a twin,      *)
(* written from the twin's events in whatever order they are handled, or   *)
(* from its row after a change of configuration, and one link between the  *)
(* items of two correlated twins.                                          *)
(***************************************************************************)
EXTENDS Naturals, Sequences, FiniteSets

CONSTANTS Twins,      \* two twins of records a person may correlate
          Versions,   \* Versions[t]: the changes the source makes to t; a bound
          Status,     \* Status[v]: the native status of a record's version v
          Configs,    \* configurations of the connector
          Crews       \* the handlers that may run at the same time, the times the source gives
                      \* its versions, and a bound on the changes of configuration and stops

VARIABLES crew,     \* the crew of this behaviour
          twin,     \* rows of integration_canonical_twins
          config,   \* the connector's projection configuration
          item,     \* projected rows of work_items
          paired,   \* a counterpart row of integration_correlation_links
          links,    \* the rows of work_item_links between the two items
          queue,    \* events committed and not yet handled
          stuck,    \* events whose handling ended without a record of success
          again,    \* twins a re-projection has yet to reach
          run,      \* what each handler is doing
          moves,    \* history: the versions behind an item's changes of state
          overlaps, \* history: twins two handlers worked on at the same time
          cut,      \* history: a re-projection ended early
          troubled  \* changes of configuration and stops so far

vars == <<crew, twin, config, item, paired, links, queue, stuck, again, run, moves, overlaps, cut, troubled>>

Workers == crew.workers
Time(v) == crew.times[v]
Shared(v) == \E u \in DOMAIN crew.times : u # v /\ Time(u) = Time(v)
Rest == [stage |-> "rest"]
NoItem == [at |-> 0]
NoEvent == [kind |-> "none"]
Content(job) == [version |-> job.at, config |-> job.config]

(* validateConfig, resolveType and resolveTeam.                            *)
Enabled(c) == c # "off"
TypeOf(c) == IF c = "typeless" THEN "none" ELSE "story"
TeamOf(c) == IF c = "teamless" THEN "none" ELSE "team"
Projected(c) == Enabled(c) /\ TypeOf(c) # "none" /\ TeamOf(c) # "none"
Mark(c) == CASE Projected(c) -> "projected" [] ~Enabled(c) -> "disabled" [] OTHER -> "held"

Init == /\ crew \in Crews
        /\ twin = [t \in Twins |-> [at |-> 0, mark |-> "pending"]]
        /\ config \in Configs
        /\ item = [t \in Twins |-> NoItem]
        /\ paired = FALSE /\ links = 0
        /\ queue = {} /\ stuck = {} /\ again = {}
        /\ run = [w \in Workers |-> Rest]
        /\ moves = [t \in Twins |-> << >>]
        /\ overlaps = {} /\ cut = FALSE
        /\ troubled = 0

(* A synchronization stores a version of the record and commits its event. *)
Store(t) == /\ twin[t].at < Versions[t]
            /\ twin' = [twin EXCEPT ![t].at = @ + 1]
            /\ queue' = queue \cup {[kind |-> "twin", twin |-> t, at |-> twin[t].at + 1]}
            /\ UNCHANGED <<crew, config, item, paired, links, stuck, again, run, moves, overlaps, cut, troubled>>

(* A person correlates the two records.                                    *)
Correlate(t) == /\ ~paired /\ \A u \in Twins : twin[u].at > 0
                /\ paired' = TRUE
                /\ queue' = queue \cup {[kind |-> "pair", twin |-> t, at |-> 0]}
                /\ UNCHANGED <<crew, twin, config, item, links, stuck, again, run, moves, overlaps, cut, troubled>>

(* configureProjection, then projectConnector in the same call.            *)
Reprojecting == \E w \in Workers : run[w].stage # "rest" /\ run[w].event = NoEvent
Configure(c) == /\ troubled < crew.troubles /\ c # config /\ again = {} /\ ~Reprojecting
                /\ troubled' = troubled + 1
                /\ config' = c
                /\ again' = {t \in Twins : twin[t].at > 0}
                /\ UNCHANGED <<crew, twin, item, paired, links, queue, stuck, run, moves, overlaps, cut>>

-----------------------------------------------------------------------------
(* A handler takes an event, or the next twin of a re-projection, and      *)
(* reads the twin with its connector's configuration.                      *)
BusyWith(t) == \E w \in Workers : run[w].stage # "rest" /\ run[w].twin = t
Start(w, e, t, at, stage) ==
  /\ run[w] = Rest
  /\ run' = [run EXCEPT ![w] = [stage |-> stage, event |-> e, twin |-> t, at |-> at, config |-> config, seen |-> NoItem]]
  /\ overlaps' = IF BusyWith(t) THEN overlaps \cup {t} ELSE overlaps
Handle(w, e) == /\ e \in queue
                /\ Start(w, e, e.twin, e.at, IF e.kind = "pair" THEN "pairs" ELSE "read")
                /\ queue' = queue \ {e}
                /\ UNCHANGED <<crew, twin, config, item, paired, links, stuck, again, moves, cut, troubled>>
Reproject(w, t) == /\ t \in again /\ ~Reprojecting
                   /\ Start(w, NoEvent, t, twin[t].at, "read")
                   /\ again' = again \ {t}
                   /\ UNCHANGED <<crew, twin, config, item, paired, links, queue, stuck, moves, cut, troubled>>

At(w, stage) == run[w].stage = stage
Turn(w, stage) == run' = [run EXCEPT ![w].stage = stage]
Finish(w) == run' = [run EXCEPT ![w] = Rest]

Refuse(w) == /\ At(w, "read") /\ ~Projected(run[w].config)
             /\ twin' = [twin EXCEPT ![run[w].twin].mark = Mark(run[w].config)]
             /\ Finish(w)
             /\ UNCHANGED <<crew, config, item, paired, links, queue, stuck, again, moves, overlaps, cut, troubled>>
Look(w) == LET seen == item[run[w].twin] IN
           /\ At(w, "read") /\ Projected(run[w].config)
           /\ run' = [run EXCEPT ![w].seen = seen, ![w].stage = IF seen = NoItem THEN "create" ELSE "apply"]
           /\ UNCHANGED <<crew, twin, config, item, paired, links, queue, stuck, again, moves, overlaps, cut, troubled>>

(* ON CONFLICT DO NOTHING: the loser of a race starts again.               *)
Create(w) == LET t == run[w].twin IN
             /\ At(w, "create")
             /\ IF item[t] = NoItem
                THEN /\ item' = [item EXCEPT ![t] = [at |-> Time(run[w].at), status |-> Status[run[w].at], content |-> Content(run[w])]]
                     /\ twin' = [twin EXCEPT ![t].mark = "projected"]
                     /\ Turn(w, "pairs")
                ELSE /\ run' = [run EXCEPT ![w].stage = "read", ![w].config = config,
                                           ![w].at = IF run[w].event = NoEvent THEN twin[t].at ELSE @]
                     /\ UNCHANGED <<crew, item, twin>>
             /\ UNCHANGED <<crew, config, paired, links, queue, stuck, again, moves, overlaps, cut, troubled>>

(* A version of an older time than the one applied is only marked; one of  *)
(* the same time is applied, whichever came first.                         *)
NewerMutant(job) == TRUE
Newer(job) == Time(job.at) >= job.seen.at
Pass(w) == /\ At(w, "apply") /\ ~Newer(run[w])
           /\ twin' = [twin EXCEPT ![run[w].twin].mark = "projected"]
           /\ Finish(w)
           /\ UNCHANGED <<crew, config, item, paired, links, queue, stuck, again, moves, overlaps, cut, troubled>>

(* The fields are written over whatever the row now is; its time never     *)
(* goes back.                                                              *)
Apply(w) == LET t == run[w].twin IN
            /\ At(w, "apply") /\ Newer(run[w])
            /\ item' = [item EXCEPT ![t].content = Content(run[w]),
                                    ![t].at = IF @ < Time(run[w].at) THEN Time(run[w].at) ELSE @]
            /\ twin' = [twin EXCEPT ![t].mark = "projected"]
            /\ Turn(w, IF Status[run[w].at] # run[w].seen.status THEN "state" ELSE "pairs")
            /\ UNCHANGED <<crew, config, paired, links, queue, stuck, again, moves, overlaps, cut, troubled>>

(* applySourceStateChange reads the row again and commits only from the    *)
(* state it read; otherwise it throws, and the handler is retried.         *)
ReadState(w) == LET now == item[run[w].twin].status IN
                /\ At(w, "state")
                /\ run' = [run EXCEPT ![w].seen.status = now,
                                      ![w].stage = IF now = Status[run[w].at] THEN "pairs" ELSE "commit"]
                /\ UNCHANGED <<crew, twin, config, item, paired, links, queue, stuck, again, moves, overlaps, cut, troubled>>
CommitState(w) == LET t == run[w].twin IN
                  /\ At(w, "commit") /\ item[t].status = run[w].seen.status
                  /\ item' = [item EXCEPT ![t].status = Status[run[w].at]]
                  /\ moves' = [moves EXCEPT ![t] = Append(@, run[w].at)]
                  /\ Turn(w, "pairs")
                  /\ UNCHANGED <<crew, twin, config, paired, links, queue, stuck, again, overlaps, cut, troubled>>
Conflict(w) == /\ At(w, "commit") /\ item[run[w].twin].status # run[w].seen.status
               /\ IF run[w].event = NoEvent
                  THEN Finish(w) /\ again' = {} /\ cut' = TRUE
                  ELSE /\ run' = [run EXCEPT ![w].stage = "read", ![w].config = config]
                       /\ UNCHANGED <<crew, again, cut>>
               /\ UNCHANGED <<crew, twin, config, item, paired, links, queue, stuck, moves, overlaps, troubled>>

(* linkCounterparts: the pair and its link are read, the link is inserted  *)
(* in a transaction of its own.                                            *)
Linkable == paired /\ \A t \in Twins : item[t] # NoItem
UnlinkedMutant == TRUE
Unlinked == links = 0
Linking == \E w \in Workers : At(w, "link")
FindPairs(w) == LET link == Linkable /\ Unlinked IN
                /\ At(w, "pairs")
                /\ IF link THEN Turn(w, "link") ELSE Finish(w)
                /\ overlaps' = IF link /\ Linking THEN overlaps \cup {"link"} ELSE overlaps
                /\ UNCHANGED <<crew, twin, config, item, paired, links, queue, stuck, again, moves, cut, troubled>>
Link(w) == /\ At(w, "link")
           /\ links' = links + 1
           /\ Finish(w)
           /\ UNCHANGED <<crew, twin, config, item, paired, queue, stuck, again, moves, overlaps, cut, troubled>>

-----------------------------------------------------------------------------
(* The process stops: the events it handled keep a claim, and are handled  *)
(* again only when an operator replays them; a re-projection is over.      *)
Stop == /\ troubled < crew.troubles /\ \E w \in Workers : run[w] # Rest
        /\ troubled' = troubled + 1
        /\ stuck' = stuck \cup {run[w].event : w \in {v \in Workers : run[v] # Rest /\ run[v].event # NoEvent}}
        /\ run' = [w \in Workers |-> Rest]
        /\ cut' = (cut \/ Reprojecting \/ again # {})
        /\ again' = {}
        /\ UNCHANGED <<crew, twin, config, item, paired, links, queue, moves, overlaps>>
Replay(e) == /\ e \in stuck
             /\ queue' = queue \cup {e} /\ stuck' = stuck \ {e}
             /\ UNCHANGED <<crew, twin, config, item, paired, links, again, run, moves, overlaps, cut, troubled>>

Next == \/ \E t \in Twins : Store(t) \/ Correlate(t) \/ (\E w \in Workers : Reproject(w, t))
        \/ \E c \in Configs : Configure(c)
        \/ \E w \in Workers : \/ \E e \in queue : Handle(w, e)
                              \/ Refuse(w) \/ Look(w) \/ Create(w) \/ Pass(w) \/ Apply(w)
                              \/ ReadState(w) \/ CommitState(w) \/ Conflict(w) \/ FindPairs(w) \/ Link(w)
        \/ Stop
        \/ \E e \in stuck : Replay(e)

-----------------------------------------------------------------------------
TypeOK == /\ \A t \in Twins : twin[t].at \in 0 .. Versions[t] /\ twin[t].mark \in {"pending", "projected", "held", "disabled"}
          /\ config \in Configs /\ again \subseteq Twins /\ links \in Nat
          /\ \A t \in Twins : item[t] = NoItem \/ (/\ item[t].at \in {Time(v) : v \in 1 .. twin[t].at}
                                                /\ item[t].content.config \in Configs)

Quiet == queue = {} /\ stuck = {} /\ again = {} /\ ~cut /\ \A w \in Workers : run[w] = Rest

(* Handled in any order, through stops, replays and changes of             *)
(* configuration, a twin's item shows its newest version under the         *)
(* configuration in force, unless two handlers worked on it at once or an  *)
(* older version has the same time: then it is one of that time, and a     *)
(* replay of the older may well have moved it back (against the comment at *)
(* twin-projection.service.ts:240).                                        *)
ProjectionIsCurrent ==
  Quiet => \A t \in Twins \ overlaps :
             twin[t].at > 0 =>
               /\ twin[t].mark = Mark(config)
               /\ Projected(config) =>
                    /\ item[t] # NoItem /\ item[t].content.config = config
                    /\ Time(item[t].content.version) = Time(twin[t].at)
                    /\ ~Shared(twin[t].at) => item[t].content.version = twin[t].at
                    /\ item[t].status = Status[item[t].content.version]

(* The items of correlated twins are linked, and once unless two handlers  *)
(* found the link missing at the same time.                                *)
CounterpartsAreLinked == /\ Quiet /\ Linkable /\ Projected(config) => links >= 1
                         /\ "link" \notin overlaps => links <= 1

(* The history of an item's state follows the source's time, and a version *)
(* whose time is its own moves it once.                                    *)
HistoryIsInOrder ==
  \A t \in Twins \ overlaps : \A i, j \in 1 .. Len(moves[t]) :
    i < j => \/ Time(moves[t][i]) < Time(moves[t][j])
             \/ Time(moves[t][i]) = Time(moves[t][j]) /\ Shared(moves[t][i])
=============================================================================
