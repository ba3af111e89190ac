----------------------------- MODULE NeedQueue -----------------------------
(***************************************************************************)
(* The need queue: need:enqueue, need:lease and need:fulfill               *)
(* (src/daemon/src/syscalls/need/) on the table of needs in EMS and the    *)
(* Notify of NeedKernel (src/daemon/src/kernel/needs.rs), the pool of      *)
(* NeedServices that lease autonomous needs and run rooms for them         *)
(* (src/daemon/src/runtime/need/mod.rs), and want:promote                  *)
(* (src/daemon/src/syscalls/want/promote.rs), which makes a need of a want.*)
(* Heads and minds may put rows into the table with ems:insert too         *)
(* (src/daemon/src/syscalls/ems/mod.rs), past what need:enqueue checks and *)
(* without its notification.                                               *)
(*                                                                         *)
(* EMS is one SQLite connection behind a mutex: what a syscall does while  *)
(* it has the mutex is one step, does not fail, and survives a crash of    *)
(* the daemon.  A call that is cancelled or over its deadline is dropped   *)
(* where it waits, which may be after what it asked of EMS was done.       *)
(* need:enqueue and need:fulfill are in the Need lane, so an insert and    *)
(* its notify_one are two steps no other of them comes between; need:lease *)
(* and want:promote are in no lane (module Lanes).                         *)
(*                                                                         *)
(* Needs are numbered in the order of their inserts, which is that of      *)
(* created_at as far as its milliseconds tell.  What the planner says, and *)
(* whether the room succeeds, changes nothing here: the need is fulfilled. *)
(***************************************************************************)
EXTENDS Naturals, Sequences, FiniteSets

CONSTANTS
  MaxNeeds,              (* bound: needs ever enqueued                      *)
  rank,                  (* per need: the rank of its priority, 0 = "urgent" *)
  Quiet,                 (* bound: the needs that may come without a notify *)
  Wants,                 (* wants in the pool                               *)
  NoWant,                (* the need was not a want before                  *)
  Promoters,             (* want:promote calls that may overlap             *)
  Services,              (* the pool of NeedServices                        *)
  max_concurrent_rooms,  (* permits of each service's semaphore             *)
  MaxCrashes             (* bound: restarts of the daemon                   *)

ASSUME NeedsAssumption ==
  /\ MaxNeeds \in Nat /\ max_concurrent_rooms \in Nat \ {0} /\ MaxCrashes \in Nat
  /\ rank \in [1 .. MaxNeeds -> Nat]
  /\ NoWant \notin Wants
  /\ IsFiniteSet(Promoters)

Needs == 1 .. MaxNeeds

None == 0

VARIABLES
  status,    (* EMS, per need: "unborn", "pending", "running", "fulfilled"  *)
  replyTo,   (* EMS: the needs with a reply_to, which no NeedService leases *)
  blank,     (* EMS: the needs with no text                                 *)
  origin,    (* EMS, per need: the want it was, or NoWant                   *)
  want,      (* EMS, per want: "pending" or "promoted"                      *)
  made,      (* needs inserted so far                                       *)
  inserted,  (* the need need:enqueue inserted and did not notify of yet    *)
  permit,    (* the Notify stores a permit                                  *)
  waiters,   (* services whose Notified future waits, FIFO                  *)
  svc,       (* per service: where its loop is                              *)
  has,       (* per service: the need it leased, waiting for a permit       *)
  permits,   (* per service: permits left in its semaphore                  *)
  stage,     (* per need: where the task that works on it is                *)
  owner,     (* per need: the service that spawned that task, or None       *)
  promoter,  (* per want:promote call: where it is                          *)
  chosen,    (* per want:promote call: its want, or NoWant                  *)
  crashes,   (* restarts so far                                             *)
  orphans,   (* history: needs that were running at a crash                 *)
  untold     (* history: needs no service was notified of since they came   *)

emsVars == <<status, replyTo, blank, origin, want, made>>
queueVars == <<inserted, permit, waiters>>
serviceVars == <<svc, has, permits, stage, owner>>
promoteVars == <<promoter, chosen>>
historyVars == <<crashes, orphans, untold>>

vars == <<emsVars, queueVars, serviceVars, promoteVars, historyVars>>

\* What a daemon that has just started has in memory.
Fresh ==
  [inserted |-> None, permit |-> FALSE, waiters |-> <<>>,
   svc      |-> [s \in Services |-> "lease"],
   has      |-> [s \in Services |-> None],
   permits  |-> [s \in Services |-> max_concurrent_rooms],
   stage    |-> [n \in Needs |-> "none"],
   owner    |-> [n \in Needs |-> None],
   promoter |-> [p \in Promoters |-> "idle"],
   chosen   |-> [p \in Promoters |-> NoWant]]

Init ==
  /\ status = [n \in Needs |-> "unborn"]
  /\ replyTo = {}
  /\ blank = {}
  /\ origin = [n \in Needs |-> NoWant]
  /\ want = [w \in Wants |-> "pending"]
  /\ made = 0
  /\ inserted = Fresh.inserted
  /\ permit = Fresh.permit
  /\ waiters = Fresh.waiters
  /\ svc = Fresh.svc
  /\ has = Fresh.has
  /\ permits = Fresh.permits
  /\ stage = Fresh.stage
  /\ owner = Fresh.owner
  /\ promoter = Fresh.promoter
  /\ chosen = Fresh.chosen
  /\ crashes = 0
  /\ orphans = {}
  /\ untold = {}

-----------------------------------------------------------------------------
(* need:enqueue, in the Need lane.                                         *)

LaneFree == inserted = None

\* The next need is in the table.
Row(w) ==
  LET n == made + 1
  IN /\ made < MaxNeeds
     /\ made' = n
     /\ status' = [status EXCEPT ![n] = "pending"]
     /\ origin' = [origin EXCEPT ![n] = w]

\* The need is there, and nobody has been told.
Insert(w) ==
  /\ LaneFree
  /\ Row(w)
  /\ inserted' = made + 1
  /\ UNCHANGED <<blank, want, permit, waiters, serviceVars, historyVars>>

\* By a client or an agent; with reply_to or without.  A need without text is
\* refused.
Enqueue ==
  /\ Insert(NoWant)
  /\ replyTo' \in {replyTo, replyTo \cup {made + 1}}
  /\ UNCHANGED promoteVars

\* ems:insert into the table of needs, with a text or without.
EmsInsert ==
  /\ made + 1 \in Quiet
  /\ Row(NoWant)
  /\ blank' \in {blank, blank \cup {made + 1}}
  /\ untold' = untold \cup {made + 1}
  /\ UNCHANGED <<replyTo, want, queueVars, serviceVars, promoteVars, crashes, orphans>>

\* Mutant (NoWakeupLost): notify_waiters, which stores no permit.
NotifyWaiters ==
  /\ ~LaneFree
  /\ inserted' = None
  /\ svc' = [s \in Services |-> IF svc[s] = "listening" THEN "lease" ELSE svc[s]]
  /\ waiters' = <<>>
  /\ untold' = {}
  /\ UNCHANGED <<emsVars, permit, has, permits, stage, owner, promoteVars, crashes, orphans>>

\* notify_one: the first that waits checks again, or the next to wait will.
NotifyOne ==
  /\ ~LaneFree
  /\ inserted' = None
  /\ \/ /\ waiters # <<>>
        /\ svc' = [svc EXCEPT ![Head(waiters)] = "lease"]
        /\ waiters' = Tail(waiters)
        /\ UNCHANGED permit
     \/ /\ waiters = <<>>
        /\ permit' = TRUE
        /\ UNCHANGED <<svc, waiters>>
  /\ untold' = {}
  /\ UNCHANGED <<emsVars, has, permits, stage, owner, promoteVars, crashes, orphans>>

\* The call is dropped when EMS has the need and before notify_one.  The call
\* want:promote makes has a token of its own and no deadline.
EnqueueDropped ==
  /\ ~LaneFree
  /\ inserted \in Quiet /\ origin[inserted] = NoWant
  /\ inserted' = None
  /\ untold' = untold \cup {inserted}
  /\ UNCHANGED <<emsVars, permit, waiters, serviceVars, promoteVars, crashes, orphans>>

-----------------------------------------------------------------------------
(* A NeedService and its need:lease.                                       *)

\* What the lease's filter lets through.
Leasable == {n \in Needs : status[n] = "pending" /\ n \notin replyTo}

\* ORDER BY priority, created_at.
Precedes(n, m) == rank[n] < rank[m] \/ (rank[n] = rank[m] /\ n < m)

First(n) == n \in Leasable /\ \A m \in Leasable \ {n} : Precedes(n, m)

\* The need is taken: the service has it, or goes on to the next if it has no
\* text, and the need stays as it is.
Take(s, n) ==
  /\ status' = [status EXCEPT ![n] = "running"]
  /\ \/ n \in blank /\ UNCHANGED <<has, svc>>
     \/ /\ n \notin blank
        /\ has' = [has EXCEPT ![s] = n]
        /\ svc' = [svc EXCEPT ![s] = "holding"]

\* There is none, and the service is to wait.
TakeNone(s) ==
  /\ Leasable = {}
  /\ svc' = [svc EXCEPT ![s] = "checked"]
  /\ UNCHANGED <<status, has>>

\* Mutant (ImplementsWorkQueue): claim_one without its ORDER BY.
LeaseAny(s) ==
  /\ svc[s] = "lease"
  /\ TakeNone(s) \/ \E n \in Leasable : Take(s, n)
  /\ UNCHANGED <<replyTo, blank, origin, want, made, queueVars, permits, stage, owner,
                 promoteVars, historyVars>>

\* claim_one.
Lease(s) ==
  /\ svc[s] = "lease"
  /\ TakeNone(s) \/ \E n \in Needs : First(n) /\ Take(s, n)
  /\ UNCHANGED <<replyTo, blank, origin, want, made, queueVars, permits, stage, owner,
                 promoteVars, historyVars>>

\* Mutant (NeedsAreFulfilled): goes to wait without looking for a permit.
ListenOnly(s) ==
  /\ svc[s] = "checked"
  /\ svc' = [svc EXCEPT ![s] = "listening"]
  /\ waiters' = Append(waiters, s)
  /\ UNCHANGED <<emsVars, inserted, permit, has, permits, stage, owner, promoteVars,
                 historyVars>>

\* The Notified future is polled only now, after the look at the table.
Listen(s) ==
  /\ svc[s] = "checked"
  /\ \/ /\ permit
        /\ permit' = FALSE
        /\ svc' = [svc EXCEPT ![s] = "lease"]
        /\ UNCHANGED waiters
     \/ /\ ~permit
        /\ svc' = [svc EXCEPT ![s] = "listening"]
        /\ waiters' = Append(waiters, s)
        /\ UNCHANGED permit
  /\ UNCHANGED <<emsVars, inserted, has, permits, stage, owner, promoteVars, historyVars>>

\* The need waits, leased, for a permit; then a task works on it.
Spawn(s) ==
  /\ svc[s] = "holding"
  /\ permits[s] > 0
  /\ permits' = [permits EXCEPT ![s] = @ - 1]
  /\ stage' = [stage EXCEPT ![has[s]] = "plan"]
  /\ owner' = [owner EXCEPT ![has[s]] = s]
  /\ has' = [has EXCEPT ![s] = None]
  /\ svc' = [svc EXCEPT ![s] = "lease"]
  /\ UNCHANGED <<emsVars, queueVars, promoteVars, historyVars>>

Serve(s) == Lease(s) \/ Listen(s) \/ Spawn(s)

-----------------------------------------------------------------------------
(* The task that works on a need.                                          *)

\* The planner's agents, or the default ones; room:run is dispatched.
Plan(n) ==
  /\ stage[n] = "plan"
  /\ stage' = [stage EXCEPT ![n] = "room"]
  /\ UNCHANGED <<emsVars, queueVars, svc, has, permits, owner, promoteVars, historyVars>>

\* room:run answers with a summary or with an error.
RoomEnds(n) ==
  /\ stage[n] = "room"
  /\ stage' = [stage EXCEPT ![n] = "fulfill"]
  /\ UNCHANGED <<emsVars, queueVars, svc, has, permits, owner, promoteVars, historyVars>>

\* need:fulfill, in the Need lane; the task ends and its permit is back.
Fulfill(n) ==
  /\ stage[n] = "fulfill"
  /\ LaneFree
  /\ status' = [status EXCEPT ![n] = IF @ = "running" THEN "fulfilled" ELSE @]
  /\ stage' = [stage EXCEPT ![n] = "none"]
  /\ permits' = [permits EXCEPT ![owner[n]] = @ + 1]
  /\ owner' = [owner EXCEPT ![n] = None]
  /\ UNCHANGED <<replyTo, blank, origin, want, made, queueVars, svc, has, promoteVars,
                 historyVars>>

-----------------------------------------------------------------------------
(* want:promote.  The want is read, marked and enqueued in three steps.    *)

PromoteOnly ==
  UNCHANGED <<status, replyTo, blank, origin, made, queueVars, serviceVars, historyVars>>

\* Mutant (NoSecondPromotion): goes by the want's id only.
SelectAny(p) ==
  /\ promoter[p] = "idle"
  /\ promoter' = [promoter EXCEPT ![p] = "selected"]
  /\ \E w \in Wants : chosen' = [chosen EXCEPT ![p] = w]
  /\ UNCHANGED want
  /\ PromoteOnly

Select(p) ==
  /\ promoter[p] = "idle"
  /\ promoter' = [promoter EXCEPT ![p] = "selected"]
  /\ \E w \in Wants : want[w] = "pending" /\ chosen' = [chosen EXCEPT ![p] = w]
  /\ UNCHANGED want
  /\ PromoteOnly

\* The update does not ask whether the want is still pending.
Mark(p) ==
  /\ promoter[p] = "selected"
  /\ promoter' = [promoter EXCEPT ![p] = "enqueue"]
  /\ want' = [want EXCEPT ![chosen[p]] = "promoted"]
  /\ UNCHANGED chosen
  /\ PromoteOnly

PromoteOver(p) ==
  /\ promoter' = [promoter EXCEPT ![p] = "idle"]
  /\ chosen' = [chosen EXCEPT ![p] = NoWant]

\* The nested need:enqueue.
PromoteEnqueue(p) ==
  /\ promoter[p] = "enqueue"
  /\ PromoteOver(p)
  /\ Insert(chosen[p])
  /\ UNCHANGED replyTo

\* The call is dropped at one of its awaits, or the nested one refuses the
\* want's text, which nobody looks at: the want stays as it is, marked or not.
PromoteDropped(p) ==
  /\ promoter[p] # "idle"
  /\ PromoteOver(p)
  /\ UNCHANGED want
  /\ PromoteOnly

Promote(p) == Select(p) \/ Mark(p) \/ PromoteEnqueue(p) \/ PromoteDropped(p)

-----------------------------------------------------------------------------
\* The daemon dies and is started again: EMS is all that is left.
Crash ==
  /\ crashes < MaxCrashes
  /\ crashes' = crashes + 1
  /\ orphans' = orphans \cup {n \in Needs : status[n] = "running"}
  /\ untold' = {}
  /\ inserted' = Fresh.inserted
  /\ permit' = Fresh.permit
  /\ waiters' = Fresh.waiters
  /\ svc' = Fresh.svc
  /\ has' = Fresh.has
  /\ permits' = Fresh.permits
  /\ stage' = Fresh.stage
  /\ owner' = Fresh.owner
  /\ promoter' = Fresh.promoter
  /\ chosen' = Fresh.chosen
  /\ UNCHANGED emsVars

Next ==
  \/ Enqueue \/ EmsInsert \/ NotifyOne \/ EnqueueDropped \/ Crash
  \/ \E s \in Services : Serve(s)
  \/ \E n \in Needs : Plan(n) \/ RoomEnds(n) \/ Fulfill(n)
  \/ \E p \in Promoters : Promote(p)

\* Ready tasks run, and the planner answers.  Nobody has to enqueue or to
\* promote, no daemon has to crash, and no room has to end.
Fairness ==
  /\ WF_vars(NotifyOne)
  /\ \A s \in Services : WF_vars(Serve(s))
  /\ \A n \in Needs : WF_vars(Plan(n)) /\ WF_vars(Fulfill(n))

Spec == Init /\ [][Next]_vars /\ Fairness
-----------------------------------------------------------------------------
(* Properties.                                                             *)

TypeOK ==
  /\ status \in [Needs -> {"unborn", "pending", "running", "fulfilled"}]
  /\ replyTo \subseteq Needs
  /\ blank \subseteq Needs
  /\ origin \in [Needs -> Wants \cup {NoWant}]
  /\ want \in [Wants -> {"pending", "promoted"}]
  /\ made \in 0 .. MaxNeeds
  /\ inserted \in Needs \cup {None}
  /\ permit \in BOOLEAN
  /\ waiters \in Seq(Services)
  /\ svc \in [Services -> {"lease", "checked", "listening", "holding"}]
  /\ has \in [Services -> Needs \cup {None}]
  /\ permits \in [Services -> 0 .. max_concurrent_rooms]
  /\ stage \in [Needs -> {"none", "plan", "room", "fulfill"}]
  /\ owner \in [Needs -> Services \cup {None}]
  /\ promoter \in [Promoters -> {"idle", "selected", "enqueue"}]
  /\ chosen \in [Promoters -> Wants \cup {NoWant}]
  /\ crashes \in 0 .. MaxCrashes
  /\ orphans \subseteq Needs
  /\ untold \subseteq Needs

\* Lease semantics: a need is in the hands of one service or of one task at
\* most, it is marked as running, and no restart hands it out again.
LeaseExclusive ==
  /\ \A s \in Services : has[s] # None =>
       /\ status[has[s]] = "running"
       /\ stage[has[s]] = "none"
       /\ has[s] \notin orphans
       /\ \A t \in Services : has[t] = has[s] => t = s
  /\ \A n \in Needs : stage[n] # "none" => status[n] = "running" /\ n \notin orphans

\* A need marked as running is in somebody's hands, also while the service
\* waits for a permit.  It is in nobody's, for ever, if a crash took it out of
\* them, or if it had no text when a service took it.
NoNeedForgotten ==
  \A n \in Needs :
    status[n] = "running" =>
      stage[n] # "none" \/ n \in orphans \/ n \in blank \/ \E s \in Services : has[s] = n

\* The futures are not polled before the table is read, but notify_one keeps
\* a permit: with a need to lease that was told of, not all services are
\* asleep, also when the notifications of several inserts become one permit,
\* when a need with a reply_to consumes one, or when the call that came next
\* is dropped before its own.
NoWakeupLost ==
  Leasable \ untold # {} =>
    permit \/ ~LaneFree \/ \E s \in Services : svc[s] # "listening"

\* A want becomes one need at most for every want:promote that runs beside
\* others: a call made again, because the last was cancelled, ran out of time
\* or died with the daemon, makes no second one.
NoSecondPromotion ==
  \A w \in Wants : Cardinality({n \in Needs : origin[n] = w}) <= Cardinality(Promoters)

Queue == INSTANCE WorkQueue
           WITH urgency <- rank,
                waiting <- Leasable,
                working <- {n \in Needs : status[n] = "running"},
                finished <- {n \in Needs : status[n] = "fulfilled"}

\* The services see the queue the documentation promises them: exclusive,
\* by urgency and age, also over restarts.
ImplementsWorkQueue == Queue!Init /\ [][Queue!Next]_(Queue!vars)

RoomsEnd == \A n \in Needs : []<>(stage[n] # "room")

\* If every room ends, every autonomous need is leased and fulfilled at last,
\* over merged notifications and exhausted permits, but for those that nobody
\* was told of, those without a text, and those a crash made orphans.
NeedsAreFulfilled ==
  RoomsEnd =>
    \A n \in Needs :
      n \in Leasable ~> status[n] = "fulfilled" \/ n \in untold \cup blank \cup orphans

=============================================================================
