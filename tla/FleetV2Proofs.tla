--------------------------- MODULE FleetV2Proofs ---------------------------
(***************************************************************************)
(* The drive loop on queue v2, for every fleet, every list and every play: *)
(* no two sessions are on one entry, no two normal-lane sessions in one    *)
(* repository (SessionsApart); only a hold the loop never crossed off takes*)
(* a running entry out of `active` (OnlyOldHoldsInterrupt); an entry handed*)
(* off is kept for its member (KeptForItsMember); and a handoff leaves a   *)
(* slice list in order at each of its writes (HandoffsKeepListsCoherent).  *)
(*                                                                         *)
(* Two arguments meet in SessionsApart. That assignments are disjoint is   *)
(* the loop's own doing (SpokenFor); that a repository has one started     *)
(* normal-lane entry is keeperd's (RepoFree at the claim), whatever list   *)
(* the loop had read. What the walk of a slice list yields is used by      *)
(* neither. The last two properties do rest on it, and on the overlay: the *)
(* invariant is then FullInv, IInv with what is below "The rest of the     *)
(* invariant", and the induction follows the claims, the plans and the     *)
(* holds that the tick laid over the entries it read.                      *)
(***************************************************************************)
EXTENDS FleetV2, TLAPS, SequenceTheorems, WellFoundedInduction

----------------------------------------------------------------------------
(* The inductive invariant. *)

(* The rows of the list are records, one for each entry; the play is one. *)
RowsInv ==
    /\ rows = [e \in Entries |-> rows[e]]
    /\ \A e \in Entries :
          rows[e] = [status |-> rows[e].status, pending |-> rows[e].pending, ups |-> rows[e].ups]
PlayInv == play \in PlayType

(* keeperd's own promise: one started normal-lane entry in a repository. *)
RepoInv ==
    \A d, e \in Entries \ Urgent :
       d # e /\ Started(d) /\ Started(e) => Repo[d] # Repo[e]

(* The loop's maps. A member with an assignment is live or waits for its
   re-roll; only a member that is out holds a handed-off entry. *)
HasWork(a) == asg[a] # NoAsg
OnRoll(a) == session[a] \in {"live", "down"}
LoopInv ==
    /\ session \in [Agents -> SessionStates]
    /\ asg = [a \in Agents |-> asg[a]]
    /\ rolled \in [Agents -> Entries \cup {None}]
    /\ toPause \in [Entries -> Agents \cup {None}]
    /\ stop = [a \in Agents |-> stop[a]]
    /\ \A a \in Agents : HasWork(a) => OnRoll(a) /\ asg[a].entry \in Entries
    /\ \A a \in Agents : Registered(a) => rolled[a] = None

(* No entry in two assignments. *)
ApartInv ==
    \A a, b \in Agents : \A e \in Entries : Holds(a, e) /\ Holds(b, e) => a = b

(* The tick: a pause it is about to retry is still owed. *)
TickInv ==
    /\ tick = [pc |-> tick.pc, todo |-> tick.todo, view |-> tick.view, open |-> tick.open,
               pauses |-> tick.pauses, spoken |-> tick.spoken, fresh |-> tick.fresh]
    /\ tick.pc = "pauses" => \A e \in tick.pauses : e \in Entries /\ toPause[e] # None

(* The members still to come in this pass over the fleet are different members. *)
TodoInv == tick.todo \in Seq(Agents) /\ IsInjective(tick.todo)

(* What a member's verbs are served from is its assignment, but for what the
   last tick published of a session that is over; for a member whose model was
   refused that is nothing any more when it is polled again. *)
MirrorInv ==
    /\ mirror = [a \in Agents |-> mirror[a]]
    /\ \A a \in Agents :
          OnRoll(a) /\ a \notin tick.fresh /\ mirror[a] # NoAsg => mirror[a] = asg[a]
ParkedInv ==
    tick.pc = "poll" =>
       \A a \in Range(tick.todo) : session[a] = "parked" => mirror[a] = NoAsg

(* A handoff belongs to a live session and is about its assignment; the only
   entry its writes set a status of is the session's own. *)
OwnOps(ops, e) ==
    /\ ops \in Seq(Range(ops))
    /\ \A o \in Range(ops) : o.op = "entry" => o.at = <<e>>
HandoffInv ==
    /\ handoff = [a \in Agents |-> handoff[a]]
    /\ \A a \in Agents :
          handoff[a] = [state |-> handoff[a].state, ops |-> handoff[a].ops,
                        asg |-> handoff[a].asg, continues |-> handoff[a].continues,
                        warned |-> handoff[a].warned]
    /\ \A a \in Agents : handoff[a].state # "none" =>
          /\ session[a] = "live" /\ HasWork(a) /\ handoff[a].asg = asg[a]
          /\ OwnOps(handoff[a].ops, asg[a].entry)

IInv ==
    /\ RowsInv /\ PlayInv /\ RepoInv /\ LoopInv /\ ApartInv
    /\ TickInv /\ TodoInv /\ MirrorInv /\ ParkedInv /\ HandoffInv

----------------------------------------------------------------------------
(* keeperd's tables. *)

(* A step of the list that keeps its shape and keeperd's promise, and takes no
   entry but x out of `active`. *)
TakesOut(x) ==
    /\ RowsInv' /\ RepoInv'
    /\ \A e \in Entries : e # x /\ rows[e].status = "active" => rows'[e].status = "active"

(* One row is written, and the others stand. *)
LEMMA RowWritten ==
    ASSUME RowsInv, NEW k, NEW s, NEW p, NEW u,
           rows' = [rows EXCEPT ![k] = [status |-> s, pending |-> p, ups |-> u]]
    PROVE  /\ RowsInv'
           /\ \A e \in Entries : e # k => rows'[e] = rows[e]
           /\ k \in Entries => rows'[k].status = s
<1>1. DOMAIN rows = Entries
  BY DEF RowsInv
<1>2. ASSUME NEW e \in Entries, e # k PROVE rows'[e] = rows[e]
  BY <1>1, <1>2
<1>3. k \in Entries => rows'[k] = [status |-> s, pending |-> p, ups |-> u]
  BY <1>1
<1>4. rows' = [e \in Entries |-> rows'[e]]
  BY <1>1
<1>5. ASSUME NEW e \in Entries
      PROVE  rows'[e] = [status |-> rows'[e].status, pending |-> rows'[e].pending,
                         ups |-> rows'[e].ups]
  <2>1. CASE e = k
    BY <1>3, <2>1
  <2>2. CASE e # k
    BY <1>2, <2>2 DEF RowsInv
  <2> QED BY <2>1, <2>2
<1> QED
  BY <1>2, <1>3, <1>4, <1>5 DEF RowsInv

(* A row that was started, or is not afterwards, takes no repository. *)
LEMMA RepoKept ==
    ASSUME RepoInv, NEW k,
           \A e \in Entries : e # k => rows'[e] = rows[e],
           k \in Entries /\ Started(k)' => Started(k)
    PROVE  RepoInv'
<1> SUFFICES ASSUME NEW d \in Entries \ Urgent, NEW e \in Entries \ Urgent,
                    d # e, Started(d)', Started(e)'
             PROVE  Repo[d] # Repo[e]
  BY DEF RepoInv
<1>1. Started(d) /\ Started(e)
  BY DEF Started
<1> QED
  BY <1>1 DEF RepoInv

(* The shape of a row, field by field. *)
LEMMA RowShape ==
    ASSUME RowsInv, NEW e \in Entries
    PROVE  rows[e] = [status |-> rows[e].status, pending |-> rows[e].pending, ups |-> rows[e].ups]
BY DEF RowsInv

LEMMA RowsStand ==
    ASSUME RowsInv, RepoInv, UNCHANGED rows, NEW x
    PROVE  TakesOut(x)
BY DEF TakesOut, RowsInv, RepoInv, Started

(* A write outside the list changes nothing. *)
LEMMA NoSuchRow ==
    ASSUME RowsInv, NEW k, k \notin Entries, NEW v, rows' = [rows EXCEPT ![k] = v]
    PROVE  UNCHANGED rows
BY DEF RowsInv

(* What the operations write to a row, as one record. *)
LEMMA SetEntryRow ==
    ASSUME RowsInv, NEW e \in Entries, NEW new, SetEntry(e, new)
    PROVE  rows' = [rows EXCEPT ![e] = [status |-> EntryLands(e, new), pending |-> None,
                                         ups |-> rows[e].ups]]
<1> DEFINE s == EntryLands(e, new)
           r == [rows[e] EXCEPT !.status = s]
<1>1. rows[e] = [status |-> rows[e].status, pending |-> rows[e].pending, ups |-> rows[e].ups]
  BY RowShape
<1>2. rows' = [rows EXCEPT ![e] = [r EXCEPT !.pending = None]]
  BY DEF SetEntry, RowsInv
<1> HIDE DEF s
<1>3. r = [status |-> s, pending |-> rows[e].pending, ups |-> rows[e].ups]
  BY <1>1
<1> HIDE DEF r
<1>4. [r EXCEPT !.pending = None] = [status |-> s, pending |-> None, ups |-> rows[e].ups]
  BY <1>3
<1> QED BY <1>2, <1>4 DEF s

LEMMA ClaimRow ==
    ASSUME RowsInv, NEW e \in Entries, rows' = [rows EXCEPT ![e].status = "active"]
    PROVE  rows' = [rows EXCEPT ![e] = [status |-> "active", pending |-> rows[e].pending,
                                         ups |-> rows[e].ups]]
<1>0. rows[e] = [status |-> rows[e].status, pending |-> rows[e].pending, ups |-> rows[e].ups]
  BY RowShape
<1>1. [rows[e] EXCEPT !.status = "active"]
        = [status |-> "active", pending |-> rows[e].pending, ups |-> rows[e].ups]
  BY <1>0
<1> QED BY <1>1

LEMMA UpsRow ==
    ASSUME RowsInv, NEW e \in Entries, NEW n, rows' = [rows EXCEPT ![e].ups = n]
    PROVE  rows' = [rows EXCEPT ![e] = [status |-> rows[e].status,
                                         pending |-> rows[e].pending, ups |-> n]]
<1>0. rows[e] = [status |-> rows[e].status, pending |-> rows[e].pending, ups |-> rows[e].ups]
  BY RowShape
<1>1. [rows[e] EXCEPT !.ups = n]
        = [status |-> rows[e].status, pending |-> rows[e].pending, ups |-> n]
  BY <1>0
<1> QED BY <1>1

LEMMA UpdateRow ==
    ASSUME RowsInv, NEW e \in Entries, NEW new, queue_update_entry(e, new)
    PROVE  \/ rows' = [rows EXCEPT ![e] = [status |-> rows[e].status, pending |-> new,
                                            ups |-> rows[e].ups]]
           \/ /\ rows[e].status # "active"
              /\ rows' = [rows EXCEPT ![e] = [status |-> new, pending |-> rows[e].pending,
                                               ups |-> rows[e].ups]]
<1>0. rows[e] = [status |-> rows[e].status, pending |-> rows[e].pending, ups |-> rows[e].ups]
  BY RowShape
<1>1. [rows[e] EXCEPT !.pending = new]
        = [status |-> rows[e].status, pending |-> new, ups |-> rows[e].ups]
  BY <1>0
<1>2. [rows[e] EXCEPT !.status = new]
        = [status |-> new, pending |-> rows[e].pending, ups |-> rows[e].ups]
  BY <1>0
<1> QED BY <1>1, <1>2 DEF queue_update_entry

LEMMA DropRow ==
    ASSUME RowsInv, NEW e \in Entries, queue_drop(e)
    PROVE  rows' = [rows EXCEPT ![e] = [status |-> "dropped", pending |-> rows[e].pending,
                                         ups |-> rows[e].ups]]
<1>0. rows[e] = [status |-> rows[e].status, pending |-> rows[e].pending, ups |-> rows[e].ups]
  BY RowShape
<1>1. [rows[e] EXCEPT !.status = "dropped"]
        = [status |-> "dropped", pending |-> rows[e].pending, ups |-> rows[e].ups]
  BY <1>0
<1> QED BY <1>1 DEF queue_drop

(* queue_v2_set_status on an entry: only what was active is written. *)
LEMMA SetEntryTakes ==
    ASSUME RowsInv, RepoInv, NEW e, NEW new, SetEntry(e, new)
    PROVE  TakesOut(e)
<1>1. CASE e \notin Entries
  <2>1. UNCHANGED rows
    BY <1>1 DEF SetEntry, RowsInv
  <2> QED BY <2>1, RowsStand
<1>2. CASE e \in Entries
  <2>1. RowsInv' /\ \A x \in Entries : x # e => rows'[x] = rows[x]
    <3> DEFINE s == EntryLands(e, new)
    <3>1. rows' = [rows EXCEPT ![e] = [status |-> s, pending |-> None, ups |-> rows[e].ups]]
      BY <1>2, SetEntryRow
    <3> HIDE DEF s
    <3> QED BY <3>1, RowWritten
  <2>2. Started(e)
    BY DEF SetEntry, SetEntryOk, Started
  <2>3. RepoInv'
    BY <2>1, <2>2, RepoKept
  <2> QED BY <2>1, <2>3 DEF TakesOut
<1> QED BY <1>1, <1>2

(* queue_v2_claim: the backstop is what makes the entry's repository its own. *)
LEMMA ClaimTakes ==
    ASSUME RowsInv, RepoInv, NEW t, NEW id, queue_v2_claim(t, id), NEW x
    PROVE  TakesOut(x)
<1> DEFINE e == Top(t)
<1>1. CASE e \notin Entries
  <2>1. UNCHANGED rows
    BY <1>1, NoSuchRow DEF queue_v2_claim
  <2> QED BY <2>1, RowsStand
<1>2. CASE e \in Entries
  <2>1. rows' = [rows EXCEPT ![e].status = "active"] /\ RepoFree(e)
    BY DEF queue_v2_claim, ClaimOk
  <2> HIDE DEF e
  <2>2. /\ RowsInv'
        /\ \A y \in Entries : y # e => rows'[y] = rows[y]
        /\ rows'[e].status = "active"
    <3> DEFINE s == "active"
               p == rows[e].pending
               u == rows[e].ups
    <3>1. rows' = [rows EXCEPT ![e] = [status |-> s, pending |-> p, ups |-> u]]
      BY <1>2, <2>1, ClaimRow
    <3> HIDE DEF p, u
    <3> QED BY <1>2, <3>1, RowWritten
  <2>3. ASSUME NEW d \in Entries \ Urgent, NEW y \in Entries \ Urgent,
               d # y, Started(d)', Started(y)'
        PROVE  Repo[d] # Repo[y]
    <3>1. CASE d = e
      BY <2>1, <2>2, <2>3, <3>1 DEF RepoFree, Started
    <3>2. CASE y = e
      BY <2>1, <2>2, <2>3, <3>2 DEF RepoFree, Started
    <3>3. CASE d # e /\ y # e
      BY <2>2, <2>3, <3>3 DEF RepoInv, Started
    <3> QED BY <3>1, <3>2, <3>3
  <2>4. RepoInv'
    BY <2>3 DEF RepoInv
  <2> QED BY <2>2, <2>4 DEF TakesOut
<1> QED BY <1>1, <1>2

(* queue_v2_follow_ups writes no status. *)
LEMMA UpsTakes ==
    ASSUME RowsInv, RepoInv, NEW t, NEW id, NEW n, queue_v2_follow_ups(t, id, n), NEW x
    PROVE  TakesOut(x)
<1> DEFINE e == Top(t)
<1>1. CASE id # None
  BY <1>1, RowsStand DEF queue_v2_follow_ups
<1>2. CASE id = None /\ e \notin Entries
  <2>1. UNCHANGED rows
    BY <1>2, NoSuchRow DEF queue_v2_follow_ups
  <2> QED BY <2>1, RowsStand
<1>3. CASE id = None /\ e \in Entries
  <2>1. rows' = [rows EXCEPT ![e].ups = n]
    BY <1>3 DEF queue_v2_follow_ups
  <2> HIDE DEF e
  <2>2. /\ RowsInv'
        /\ \A y \in Entries : y # e => rows'[y] = rows[y]
        /\ rows'[e].status = rows[e].status
    <3> DEFINE s == rows[e].status
               p == rows[e].pending
    <3>1. rows' = [rows EXCEPT ![e] = [status |-> s, pending |-> p, ups |-> n]]
      BY <1>3, <2>1, UpsRow
    <3> HIDE DEF s, p
    <3>2. /\ RowsInv'
          /\ \A y \in Entries : y # e => rows'[y] = rows[y]
          /\ rows'[e].status = s
      BY <1>3, <3>1, RowWritten
    <3> QED BY <3>2 DEF s
  <2>3. RepoInv'
    BY <2>2, RepoKept DEF Started
  <2> QED BY <2>2, <2>3 DEF TakesOut
<1> QED BY <1>1, <1>2, <1>3

(* queue_update_entry: the human starts nothing. *)
LEMMA UpdateTakes ==
    ASSUME RowsInv, RepoInv, NEW e \in Entries, NEW new,
           new \notin {"active", "paused"}, queue_update_entry(e, new), NEW x
    PROVE  TakesOut(x)
<1>1. /\ RowsInv'
      /\ \A y \in Entries : y # e => rows'[y] = rows[y]
      /\ \/ rows'[e].status = rows[e].status
         \/ rows[e].status # "active" /\ rows'[e].status = new
  <2> DEFINE s == rows[e].status
             p == rows[e].pending
             u == rows[e].ups
  <2>1. \/ rows' = [rows EXCEPT ![e] = [status |-> s, pending |-> new, ups |-> u]]
        \/ /\ s # "active"
           /\ rows' = [rows EXCEPT ![e] = [status |-> new, pending |-> p, ups |-> u]]
    BY UpdateRow
  <2> HIDE DEF s, p, u
  <2>2. /\ RowsInv'
        /\ \A y \in Entries : y # e => rows'[y] = rows[y]
        /\ rows'[e].status = s \/ (s # "active" /\ rows'[e].status = new)
    BY <2>1, RowWritten
  <2> QED BY <2>2 DEF s
<1>2. RepoInv'
  BY <1>1, RepoKept DEF Started
<1> QED BY <1>1, <1>2 DEF TakesOut

(* queue_drop: refused for an entry that runs. *)
LEMMA DropTakes ==
    ASSUME RowsInv, RepoInv, NEW e \in Entries, queue_drop(e), NEW x
    PROVE  TakesOut(x)
<1>1. /\ RowsInv'
      /\ \A y \in Entries : y # e => rows'[y] = rows[y]
      /\ rows'[e].status = "dropped"
  BY DropRow, RowWritten
<1>2. RepoInv'
  BY <1>1, RepoKept DEF Started
<1> QED BY <1>1, <1>2 DEF TakesOut, queue_drop

(* One write of a handoff: only a status of an entry takes that entry out. *)
LEMMA LandsTakes ==
    ASSUME RowsInv, RepoInv, NEW o, Lands(o)
    PROVE  /\ o.op = "entry" => TakesOut(Top(o.at))
           /\ o.op # "entry" => TakesOut(None)
<1>1. CASE o.op = "entry"
  <2>1. SetEntry(Top(o.at), o.arg)
    BY <1>1 DEF Lands
  <2> QED BY <1>1, <2>1, SetEntryTakes
<1>2. CASE o.op # "entry" /\ UNCHANGED rows
  BY <1>2, RowsStand
<1>3. CASE o.op # "entry" /\ ~UNCHANGED rows
  <2>1. queue_v2_follow_ups(o.at, o.id, o.arg)
    BY <1>3 DEF Lands, SetUnit, slice_insert, queue_v2_add_sub
  <2> QED BY <1>3, <2>1, UpsTakes
<1> QED BY <1>1, <1>2, <1>3

(* pause_v2_entry: the entry, and nobody's else's owed pause. *)
LEMMA PauseTakes ==
    ASSUME RowsInv, RepoInv, PlayInv, toPause \in [Entries -> Agents \cup {None}],
           NEW e \in Entries, NEW a \in Agents, pause_v2_entry(e, a)
    PROVE  /\ TakesOut(e)
           /\ toPause' \in [Entries -> Agents \cup {None}]
           /\ Event \/ UNCHANGED play
<1>1. TakesOut(e)
  BY SetEntryTakes, RowsStand DEF pause_v2_entry, queueVars
<1>2. toPause' \in [Entries -> Agents \cup {None}]
  BY DEF pause_v2_entry
<1>3. Event \/ UNCHANGED play
  BY DEF pause_v2_entry, Fails
<1> QED BY <1>1, <1>2, <1>3

(* An event is one less that is left, and changes nothing else of the play. *)
LEMMA PlayKept ==
    ASSUME PlayInv, Event \/ UNCHANGED play
    PROVE  PlayInv'
<1>1. CASE UNCHANGED play
  BY <1>1 DEF PlayInv
<1>2. CASE Event
  <2>1. play.left - 1 \in Nat
    BY <1>2 DEF PlayInv, PlayType, Event
  <2> QED BY <1>2, <2>1 DEF PlayInv, PlayType, Event
<1> QED BY <1>1, <1>2

----------------------------------------------------------------------------
(* What each step does to the list. *)

(* The entries a step may take out of `active`: one whose pause was owed, one
   that was handed off, or one whose session is over or has handed off. *)
MayLeave(x) ==
    \/ x \notin Entries
    \/ toPause[x] # None
    \/ \E b \in Agents : rolled[b] = x
    \/ \E b \in Agents : asg[b].entry = x /\ ~(Working(b) /\ Working(b)' /\ asg'[b] = asg[b])
ListStep == PlayInv' /\ \E x : TakesOut(x) /\ MayLeave(x)

LEMMA QuietList ==
    ASSUME IInv, UNCHANGED rows, Event \/ UNCHANGED play
    PROVE  ListStep
<1>1. TakesOut(None)
  BY RowsStand DEF IInv
<1>2. MayLeave(None)
  BY QueueConstants DEF MayLeave
<1>3. PlayInv'
  BY PlayKept DEF IInv
<1> QED BY <1>1, <1>2, <1>3 DEF ListStep

LEMMA ClaimList ==
    ASSUME IInv, NEW t, NEW id, queue_v2_claim(t, id), Event \/ UNCHANGED play
    PROVE  ListStep
<1>1. TakesOut(None)
  BY ClaimTakes DEF IInv
<1>2. MayLeave(None)
  BY QueueConstants DEF MayLeave
<1>3. PlayInv'
  BY PlayKept DEF IInv
<1> QED BY <1>1, <1>2, <1>3 DEF ListStep

(* An assignment has an entry. *)
LEMMA WorkHasEntry ==
    ASSUME LoopInv, NEW a \in Agents, asg[a] # NoAsg
    PROVE  asg[a].entry \in Entries /\ session[a] \in {"live", "down"}
  BY DEF LoopInv, HasWork, OnRoll

LEMMA ListStepHolds ==
    ASSUME IInv, Next
    PROVE  ListStep
<1>1. ASSUME NEW a \in Agents, PollQuiet(a) PROVE ListStep
  BY <1>1, QuietList DEF PollQuiet, queueVars
<1>2. ASSUME NEW a \in Agents, PollDown(a) PROVE ListStep
  BY <1>2, QuietList DEF PollDown, queueVars
<1>3. ASSUME NEW a \in Agents, PollLeaves(a) \/ PollParked(a) PROVE ListStep
  BY <1>3, QuietList DEF PollLeaves, PollParked, queueVars
<1>4. ASSUME NEW a \in Agents, StartSkips(a) PROVE ListStep
  BY <1>4, QuietList DEF StartSkips, queueVars
<1>5. ASSUME NEW a \in Agents, VerbLogs(a) PROVE ListStep
  BY <1>5, QuietList DEF VerbLogs, queueVars
<1>6. ASSUME NEW a \in Agents, VerbAborts(a) PROVE ListStep
  BY <1>6, QuietList DEF VerbAborts, Fails, queueVars
<1>7. ASSUME NEW a \in Agents, VerbCommits(a) PROVE ListStep
  BY <1>7, QuietList DEF VerbCommits, queueVars
<1>8. ASSUME NEW a \in Agents, VerbBegins(a) PROVE ListStep
  BY <1>8, QuietList DEF VerbBegins, queueVars
<1>9. ASSUME NEW a \in Agents, RequestStop(a) PROVE ListStep
  BY <1>9, QuietList DEF RequestStop, Edits, queueVars
<1>10. ASSUME NEW open \in BOOLEAN, LoadsList(open) PROVE ListStep
  BY <1>10, QuietList DEF LoadsList, queueVars
<1>11. ASSUME LoadFails PROVE ListStep
  BY <1>11, QuietList DEF LoadFails, Fails, queueVars
<1>12. ASSUME NEW members \in SUBSET Agents, Rerolls(members) PROVE ListStep
  BY <1>12, QuietList DEF Rerolls, queueVars
<1>13. ASSUME GateShut PROVE ListStep
  BY <1>13, QuietList DEF GateShut, queueVars
<1>14. ASSUME Publishes PROVE ListStep
  BY <1>14, QuietList DEF Publishes, queueVars
<1>15. ASSUME Restart PROVE ListStep
  BY <1>15, QuietList DEF Restart, Fails, queueVars
<1>16. ASSUME NEW t \in DOMAIN items, HumanEditsSlices(t) PROVE ListStep
  BY <1>16, QuietList DEF HumanEditsSlices, EditsSlices, Edits, UpdateSlice, MoveSlice, slice_insert
<1>17. ASSUME NEW e \in Entries, HumanSetsEntry(e) PROVE ListStep
  <2>1. PICK new \in play.sets : queue_update_entry(e, new)
    BY <1>17 DEF HumanSetsEntry
  <2>2. new \notin {"active", "paused"}
    BY <2>1 DEF IInv, PlayInv, PlayType
  <2>3. TakesOut(None)
    BY <2>1, <2>2, UpdateTakes DEF IInv
  <2>4. MayLeave(None)
    BY QueueConstants DEF MayLeave
  <2>5. PlayInv'
    BY <1>17, PlayKept DEF HumanSetsEntry, Edits, IInv
  <2> QED BY <2>3, <2>4, <2>5 DEF ListStep
<1>18. ASSUME NEW e \in Entries, HumanDrops(e) PROVE ListStep
  <2>1. TakesOut(None)
    BY <1>18, DropTakes DEF HumanDrops, IInv
  <2>2. MayLeave(None)
    BY QueueConstants DEF MayLeave
  <2>3. PlayInv'
    BY <1>18, PlayKept DEF HumanDrops, Edits, IInv
  <2> QED BY <2>1, <2>2, <2>3 DEF ListStep
<1>19. ASSUME NEW a \in Agents, VerbWrites(a) PROVE ListStep
  <2> DEFINE o == Head(handoff[a].ops)
  <2>1. handoff[a].state = "writes" /\ handoff[a].ops # <<>>
    BY <1>19 DEF VerbWrites
  <2>2. /\ Event \/ UNCHANGED play
        /\ Lands(o) \/ UNCHANGED rows
    BY <1>19 DEF VerbWrites, Fails, queueVars
  <2>3. OwnOps(handoff[a].ops, asg[a].entry)
    BY <2>1 DEF IInv, HandoffInv, HasWork
  <2>4. o.op = "entry" => Top(o.at) = asg[a].entry
    <3>1. o \in Range(handoff[a].ops)
      BY <2>1, <2>3 DEF OwnOps, Range
    <3> QED BY <2>3, <3>1 DEF OwnOps, Top
  <2>5. MayLeave(asg[a].entry) /\ MayLeave(None)
    BY <2>1, QueueConstants DEF MayLeave, Working
  <2>6. CASE UNCHANGED rows
    BY <2>2, <2>6, QuietList
  <2> HIDE DEF o
  <2>7. CASE Lands(o)
    <3>1. TakesOut(asg[a].entry) \/ TakesOut(None)
      BY <2>4, <2>7, LandsTakes DEF IInv
    <3>2. PlayInv'
      BY <2>2, PlayKept DEF IInv
    <3> QED BY <2>5, <3>1, <3>2 DEF ListStep
  <2> QED BY <2>2, <2>6, <2>7
<1>20. ASSUME NEW a \in Agents, end_handed_off_session(a) PROVE ListStep
  <2>1. handoff[a].state = "committed"
    BY <1>20 DEF end_handed_off_session
  <2>2. asg[a] # NoAsg /\ handoff[a].asg = asg[a]
    BY <2>1 DEF IInv, HandoffInv, HasWork
  <2>3. MayLeave(asg[a].entry)
    BY <2>1 DEF MayLeave, Working
  <2>4. CASE UNCHANGED rows /\ UNCHANGED play
    BY <2>4, QuietList
  <2>5. CASE pause_v2_entry(asg[a].entry, a)
    <3>1. asg[a].entry \in Entries
      BY <2>2, WorkHasEntry DEF IInv
    <3>2. TakesOut(asg[a].entry) /\ (Event \/ UNCHANGED play)
      BY <2>5, <3>1, PauseTakes DEF IInv, LoopInv
    <3> QED BY <2>3, <3>2, PlayKept DEF ListStep, IInv
  <2> QED BY <1>20, <2>2, <2>4, <2>5 DEF end_handed_off_session, queueVars
<1>21. ASSUME NEW a \in Agents, PollBlocks(a) PROVE ListStep
  <2>1. asg' = [asg EXCEPT ![a] = NoAsg]
    BY <1>21 DEF PollBlocks
  <2>2. /\ Event \/ UNCHANGED play
        /\ UNCHANGED rows \/ (asg[a] # NoAsg /\ SetEntry(asg[a].entry, "blocked"))
    BY <1>21 DEF PollBlocks, park_entry_v2, Fails, queueVars
  <2>3. CASE UNCHANGED rows
    BY <2>2, <2>3, QuietList
  <2>4. CASE asg[a] # NoAsg /\ SetEntry(asg[a].entry, "blocked")
    <3>1. asg'[a] # asg[a]
      BY <2>1, <2>4 DEF IInv, LoopInv
    <3>2. MayLeave(asg[a].entry)
      BY <3>1 DEF MayLeave
    <3> QED BY <2>2, <2>4, <3>2, SetEntryTakes, PlayKept, WorkHasEntry DEF ListStep, IInv
  <2> QED BY <2>2, <2>3, <2>4
<1>22. ASSUME NEW a \in Agents, PollRefused(a) PROVE ListStep
  <2>1. /\ asg' = [asg EXCEPT ![a] = NoAsg]
        /\ \/ UNCHANGED <<rows, play>>
           \/ asg[a] # NoAsg /\ pause_v2_entry(asg[a].entry, a)
    BY <1>22 DEF PollRefused, queueVars
  <2>2. CASE UNCHANGED <<rows, play>>
    BY <2>2, QuietList
  <2>3. CASE asg[a] # NoAsg /\ pause_v2_entry(asg[a].entry, a)
    <3>1. asg'[a] # asg[a]
      BY <2>1, <2>3 DEF IInv, LoopInv
    <3>2. MayLeave(asg[a].entry)
      BY <3>1 DEF MayLeave
    <3>3. TakesOut(asg[a].entry) /\ (Event \/ UNCHANGED play)
      BY <2>3, WorkHasEntry, PauseTakes DEF IInv, LoopInv
    <3> QED BY <3>2, <3>3, PlayKept DEF ListStep, IInv
  <2> QED BY <2>1, <2>2, <2>3
<1>23. ASSUME NEW e \in Entries, RetriesPause(e) PROVE ListStep
  <2>1. tick.pc = "pauses" /\ e \in tick.pauses /\ pause_v2_entry(e, toPause[e])
    BY <1>23 DEF RetriesPause
  <2>2. toPause[e] \in Agents
    BY <2>1 DEF IInv, LoopInv, TickInv
  <2>3. MayLeave(e)
    BY <2>1 DEF MayLeave, IInv, TickInv
  <2>4. TakesOut(e) /\ (Event \/ UNCHANGED play)
    BY <2>1, <2>2, PauseTakes DEF IInv, LoopInv
  <2> QED BY <2>3, <2>4, PlayKept DEF ListStep, IInv
<1>24. ASSUME NEW a \in Agents, StartPauses(a) PROVE ListStep
  <2>1. rolled[a] # None /\ pause_v2_entry(rolled[a], a)
    BY <1>24 DEF StartPauses
  <2>2. rolled[a] \in Entries
    BY <2>1 DEF IInv, LoopInv
  <2>3. MayLeave(rolled[a])
    BY DEF MayLeave
  <2>4. TakesOut(rolled[a]) /\ (Event \/ UNCHANGED play)
    BY <2>1, <2>2, PauseTakes DEF IInv, LoopInv
  <2> QED BY <2>3, <2>4, PlayKept DEF ListStep, IInv
<1>25. ASSUME NEW a \in Agents, StartHeld(a) PROVE ListStep
  BY <1>25, QuietList, ClaimList DEF StartHeld, Fails, queueVars
<1>26. ASSUME NEW a \in Agents, SpawnFails(a) PROVE ListStep
  BY <1>26, ClaimList DEF SpawnFails, Fails
<1>27. ASSUME NEW a \in Agents, Starts(a) PROVE ListStep
  BY <1>27, ClaimList DEF Starts
<1> QED
  BY <1>1, <1>2, <1>3, <1>4, <1>5, <1>6, <1>7, <1>8, <1>9,
     <1>10, <1>11, <1>12, <1>13, <1>14, <1>15, <1>16, <1>17, <1>18,
     <1>19, <1>20, <1>21, <1>22, <1>23, <1>24, <1>25, <1>26, <1>27
     DEF Next, LoopStep, PollStep, StartStep, VerbStep

----------------------------------------------------------------------------
(* The loop, its tick, the mirror and the handoffs. *)

(* The parts of the invariant that are not about the list. *)
Rest == LoopInv /\ ApartInv /\ TickInv /\ MirrorInv /\ HandoffInv

LEMMA LoopStands ==
    ASSUME LoopInv, ApartInv, UNCHANGED <<session, asg, rolled>>,
           toPause' \in [Entries -> Agents \cup {None}], stop' = [a \in Agents |-> stop'[a]]
    PROVE  LoopInv' /\ ApartInv'
BY DEF LoopInv, ApartInv, Holds, HasWork, OnRoll, Registered

LEMMA MirrorStands ==
    ASSUME MirrorInv, UNCHANGED <<mirror, session, asg>>, tick'.fresh = tick.fresh
    PROVE  MirrorInv'
BY DEF MirrorInv, OnRoll

LEMMA HandoffStands ==
    ASSUME HandoffInv, UNCHANGED <<handoff, session, asg>>
    PROVE  HandoffInv'
BY DEF HandoffInv, HasWork

LEMMA TickStands ==
    ASSUME TickInv, UNCHANGED <<tick, toPause>>
    PROVE  TickInv'
BY DEF TickInv

(* The loop goes on to its next member. *)
LEMMA TickMoves ==
    ASSUME TickInv, NextMember, tick.pc # "pauses"
    PROVE  TickInv' /\ tick'.fresh = tick.fresh
<1> DEFINE t == [pc |-> tick.pc, todo |-> Tail(tick.todo), view |-> tick.view,
                 open |-> tick.open, pauses |-> tick.pauses, spoken |-> tick.spoken,
                 fresh |-> tick.fresh]
<1>1. tick' = t
  BY DEF TickInv, NextMember
<1> QED
  BY <1>1 DEF TickInv

(* A member's session is over and its assignment is gone. *)
LEMMA MemberReleased ==
    ASSUME LoopInv, ApartInv, NEW a \in Agents, NEW s \in {"out", "parked"},
           session' = [session EXCEPT ![a] = s], asg' = [asg EXCEPT ![a] = NoAsg],
           rolled' \in [Agents -> Entries \cup {None}],
           \A b \in Agents : b # a => rolled'[b] = rolled[b],
           s = "parked" => rolled'[a] = None,
           toPause' \in [Entries -> Agents \cup {None}], stop' = [b \in Agents |-> stop'[b]]
    PROVE  LoopInv' /\ ApartInv'
<1>1. session' \in [Agents -> SessionStates] /\ asg' = [b \in Agents |-> asg'[b]]
  BY DEF LoopInv, SessionStates
<1>2. session'[a] = s /\ asg'[a] = NoAsg
  BY DEF LoopInv
<1>3. \A b \in Agents : b # a => session'[b] = session[b] /\ asg'[b] = asg[b]
  BY DEF LoopInv
<1>4. LoopInv'
  BY <1>1, <1>2, <1>3 DEF LoopInv, HasWork, OnRoll, Registered
<1>5. ApartInv'
  BY <1>2, <1>3, QueueConstants DEF ApartInv, Holds, NoAsg
<1> QED BY <1>4, <1>5

LEMMA MirrorReleased ==
    ASSUME LoopInv, MirrorInv, NEW a \in Agents, NEW s \in {"out", "parked"},
           session' = [session EXCEPT ![a] = s], asg' = [asg EXCEPT ![a] = NoAsg],
           UNCHANGED mirror, tick'.fresh = tick.fresh
    PROVE  MirrorInv'
<1>1. session'[a] = s
  BY DEF LoopInv
<1>2. \A b \in Agents : b # a => session'[b] = session[b] /\ asg'[b] = asg[b]
  BY DEF LoopInv
<1> QED BY <1>1, <1>2 DEF MirrorInv, OnRoll

(* It had no handoff, or its handoff ends with it. *)
LEMMA HandoffReleased ==
    ASSUME LoopInv, HandoffInv, NEW a \in Agents, NEW s,
           session' = [session EXCEPT ![a] = s], asg' = [asg EXCEPT ![a] = NoAsg],
           \/ UNCHANGED handoff /\ handoff[a].state = "none"
           \/ handoff' = [handoff EXCEPT ![a] = NoHandoff]
    PROVE  HandoffInv'
<1>1. \A b \in Agents : b # a => session'[b] = session[b] /\ asg'[b] = asg[b]
  BY DEF LoopInv
<1>2. \A b \in Agents : b # a => handoff'[b] = handoff[b]
  BY DEF HandoffInv, HasWork
<1>3. handoff'[a].state = "none"
  BY DEF HandoffInv, HasWork, NoHandoff
<1>4. /\ handoff' = [b \in Agents |-> handoff'[b]]
      /\ handoff'[a] = [state |-> handoff'[a].state, ops |-> handoff'[a].ops,
                        asg |-> handoff'[a].asg, continues |-> handoff'[a].continues,
                        warned |-> handoff'[a].warned]
  BY DEF HandoffInv, HasWork, NoHandoff
<1> QED BY <1>1, <1>2, <1>3, <1>4 DEF HandoffInv, HasWork

(* A stop is written to the map of stops alone. *)
LEMMA StopShape ==
    ASSUME LoopInv, NEW a \in Agents, NEW r, StopAfter(a, r)
    PROVE  stop' = [b \in Agents |-> stop'[b]]
BY DEF LoopInv, StopAfter

(* One handoff is written. *)
LEMMA HandoffWritten ==
    ASSUME HandoffInv, NEW a \in Agents, NEW st, NEW ops, NEW g, NEW c, NEW w,
           handoff' = [handoff EXCEPT ![a] = [state |-> st, ops |-> ops, asg |-> g,
                                               continues |-> c, warned |-> w]],
           UNCHANGED <<session, asg>>,
           st # "none" => /\ session[a] = "live" /\ asg[a] # NoAsg /\ g = asg[a]
                          /\ OwnOps(ops, asg[a].entry)
    PROVE  HandoffInv'
<1>1. handoff'[a] = [state |-> st, ops |-> ops, asg |-> g, continues |-> c, warned |-> w]
  BY DEF HandoffInv, HasWork
<1>2. handoff' = [b \in Agents |-> handoff'[b]]
  BY DEF HandoffInv, HasWork
<1>3. \A b \in Agents : b # a => handoff'[b] = handoff[b]
  BY DEF HandoffInv, HasWork
<1>4. ASSUME NEW b \in Agents
      PROVE  handoff'[b] = [state |-> handoff'[b].state, ops |-> handoff'[b].ops,
                            asg |-> handoff'[b].asg, continues |-> handoff'[b].continues,
                            warned |-> handoff'[b].warned]
  BY <1>1, <1>3 DEF HandoffInv, HasWork
<1>5. ASSUME NEW b \in Agents, handoff'[b].state # "none"
      PROVE  /\ session'[b] = "live" /\ asg'[b] # NoAsg /\ handoff'[b].asg = asg'[b]
             /\ OwnOps(handoff'[b].ops, asg'[b].entry)
  <2>1. CASE b = a
    BY <1>1, <1>5, <2>1
  <2>2. CASE b # a
    BY <1>3, <1>5, <2>2 DEF HandoffInv, HasWork
  <2> QED BY <2>1, <2>2
<1> QED BY <1>2, <1>4, <1>5 DEF HandoffInv, HasWork

(* A step of a verb: the loop and its tick stand. *)
LEMMA LoopAside ==
    ASSUME IInv, UNCHANGED <<loopVars, tick>>
    PROVE  LoopInv' /\ ApartInv' /\ TickInv'
<1>1. LoopInv' /\ ApartInv'
  BY LoopStands DEF IInv, LoopInv, loopVars
<1>2. TickInv'
  BY TickStands DEF IInv, loopVars
<1> QED BY <1>1, <1>2

LEMMA VerbLogsKeeps ==
    ASSUME IInv, NEW a \in Agents, VerbLogs(a) \/ VerbCommits(a)
    PROVE  Rest'
<1>1. UNCHANGED <<loopVars, mirror, tick>>
  BY DEF VerbLogs, VerbCommits
<1>2. PICK st \in {"writes", "committed"} : handoff' = [handoff EXCEPT ![a].state = st]
  BY DEF VerbLogs, VerbCommits
<1>3. handoff[a].state # "none"
  BY DEF VerbLogs, VerbCommits
<1>4. [handoff[a] EXCEPT !.state = st]
        = [state |-> st, ops |-> handoff[a].ops, asg |-> handoff[a].asg,
           continues |-> handoff[a].continues, warned |-> handoff[a].warned]
  BY DEF IInv, HandoffInv, HasWork
<1>5. handoff' = [handoff EXCEPT ![a] =
        [state |-> st, ops |-> handoff[a].ops, asg |-> handoff[a].asg,
         continues |-> handoff[a].continues, warned |-> handoff[a].warned]]
  BY <1>2, <1>4
<1>6. /\ session[a] = "live" /\ asg[a] # NoAsg /\ handoff[a].asg = asg[a]
      /\ OwnOps(handoff[a].ops, asg[a].entry)
  BY <1>3 DEF IInv, HandoffInv, HasWork
<1>7. HandoffInv'
  BY <1>1, <1>5, <1>6, HandoffWritten DEF IInv, loopVars
<1>8. MirrorInv'
  BY <1>1, MirrorStands DEF IInv, loopVars
<1> QED BY <1>1, <1>7, <1>8, LoopAside DEF Rest

(* The assignment goes back to the mirror: it is the session's own. *)
LEMMA VerbAbortsKeeps ==
    ASSUME IInv, NEW a \in Agents, VerbAborts(a)
    PROVE  Rest'
<1>1. UNCHANGED <<loopVars, tick>>
  BY DEF VerbAborts
<1>2. handoff[a].asg = asg[a] /\ mirror' = [mirror EXCEPT ![a] = handoff[a].asg]
  BY DEF VerbAborts, IInv, HandoffInv
<1>3. MirrorInv'
  BY <1>1, <1>2 DEF IInv, MirrorInv, OnRoll, loopVars
<1>4. handoff' = [handoff EXCEPT ![a] =
        [state |-> "none", ops |-> <<>>, asg |-> NoAsg, continues |-> FALSE,
         warned |-> FALSE]]
  BY DEF VerbAborts, NoHandoff
<1>5. HandoffInv'
  BY <1>1, <1>4, HandoffWritten DEF IInv, loopVars
<1> QED BY <1>1, <1>3, <1>5, LoopAside DEF Rest

(* A plan made of writes that are each about the session's own entry. *)
LEMMA SeqOwn ==
    ASSUME NEW S, NEW ops \in Seq(S), NEW e, \A o \in S : o.op = "entry" => o.at = <<e>>
    PROVE  OwnOps(ops, e)
<1>1. Range(ops) \subseteq S
  BY DEF Range
<1>2. ops \in Seq(Range(ops))
  <2>1. \A i \in DOMAIN ops : ops[i] \in Range(ops)
    BY DEF Range
  <2>2. Len(ops) \in Nat /\ ops \in [1 .. Len(ops) -> S]
    OBVIOUS
  <2>3. ops \in [1 .. Len(ops) -> Range(ops)]
    BY <2>1, <2>2
  <2> QED BY <2>2, <2>3, SeqDef
<1> QED BY <1>1, <1>2 DEF OwnOps

(* What is left of a plan is about the same entry. *)
LEMMA TailOwn ==
    ASSUME NEW ops, NEW e, OwnOps(ops, e), ops # <<>>
    PROVE  OwnOps(Tail(ops), e)
<1>1. Tail(ops) \in Seq(Range(ops))
  BY DEF OwnOps
<1> QED
  BY <1>1, SeqOwn DEF OwnOps

(* What a write leaves of its handoff: it has landed, or there is a warning. *)
LEMMA WritesShape ==
    ASSUME IInv, NEW a \in Agents, VerbWrites(a)
    PROVE  \E c, w :
             /\ handoff' = [handoff EXCEPT ![a] =
                  [state |-> "writes", ops |-> Tail(handoff[a].ops), asg |-> handoff[a].asg,
                   continues |-> c, warned |-> w]]
             /\ w = TRUE \/ (Lands(Head(handoff[a].ops)) /\ w = handoff[a].warned)
<1> DEFINE h == handoff[a]
           o == Head(h.ops)
           landed == [h EXCEPT !.ops = Tail(@), !.continues = @ /\ o.op # "entry"]
           warns == [h EXCEPT !.ops = Tail(@), !.warned = TRUE]
<1>1. h.state = "writes"
  BY DEF VerbWrites
<1>2. \/ handoff' = [handoff EXCEPT ![a] = landed] /\ Lands(o)
      \/ handoff' = [handoff EXCEPT ![a] = warns]
  BY DEF VerbWrites
<1>3. h = [state |-> h.state, ops |-> h.ops, asg |-> h.asg, continues |-> h.continues,
           warned |-> h.warned]
  BY DEF IInv, HandoffInv, HasWork
<1> HIDE DEF h
<1> DEFINE c0 == h.continues /\ o.op # "entry"
           r == [h EXCEPT !.ops = Tail(h.ops)]
<1>4. r = [state |-> "writes", ops |-> Tail(h.ops), asg |-> h.asg,
           continues |-> h.continues, warned |-> h.warned]
  <2> DEFINE t == Tail(h.ops)
  <2>1. r = [h EXCEPT !.ops = t]
    OBVIOUS
  <2> HIDE DEF r, t
  <2> QED BY <1>1, <1>3, <2>1 DEF t
<1>5. landed = [state |-> "writes", ops |-> Tail(h.ops), asg |-> h.asg,
                continues |-> c0, warned |-> h.warned]
  <2>1. landed = [r EXCEPT !.continues = c0]
    BY <1>3
  <2> HIDE DEF r, c0, landed
  <2> QED BY <1>4, <2>1
<1>6. warns = [state |-> "writes", ops |-> Tail(h.ops), asg |-> h.asg,
               continues |-> h.continues, warned |-> TRUE]
  <2>1. warns = [r EXCEPT !.warned = TRUE]
    BY <1>3
  <2> HIDE DEF r, warns
  <2> QED BY <1>4, <2>1
<1>7. \E c, w :
        /\ handoff' = [handoff EXCEPT ![a] =
             [state |-> "writes", ops |-> Tail(h.ops), asg |-> h.asg,
              continues |-> c, warned |-> w]]
        /\ w = TRUE \/ (Lands(o) /\ w = h.warned)
  <2> HIDE DEF landed, warns, c0, o
  <2>1. CASE handoff' = [handoff EXCEPT ![a] = landed] /\ Lands(o)
    <3>1. handoff' = [handoff EXCEPT ![a] =
            [state |-> "writes", ops |-> Tail(h.ops), asg |-> h.asg,
             continues |-> c0, warned |-> h.warned]]
      BY <1>5, <2>1
    <3> QED BY <2>1, <3>1
  <2>2. CASE handoff' = [handoff EXCEPT ![a] = warns]
    <3>1. handoff' = [handoff EXCEPT ![a] =
            [state |-> "writes", ops |-> Tail(h.ops), asg |-> h.asg,
             continues |-> h.continues, warned |-> TRUE]]
      BY <1>6, <2>2
    <3> QED BY <3>1
  <2> QED BY <1>2, <2>1, <2>2
<1> QED BY <1>7 DEF h

LEMMA VerbWritesKeeps ==
    ASSUME IInv, NEW a \in Agents, VerbWrites(a)
    PROVE  Rest'
<1> DEFINE h == handoff[a]
<1>1. UNCHANGED <<loopVars, mirror, tick>> /\ h.state = "writes" /\ h.ops # <<>>
  BY DEF VerbWrites
<1>2. session[a] = "live" /\ asg[a] # NoAsg /\ h.asg = asg[a]
      /\ OwnOps(h.ops, asg[a].entry)
  BY <1>1 DEF IInv, HandoffInv, HasWork
<1>3. OwnOps(Tail(h.ops), asg[a].entry)
  BY <1>1, <1>2, TailOwn
<1>4. PICK c, w : handoff' = [handoff EXCEPT ![a] =
        [state |-> "writes", ops |-> Tail(h.ops), asg |-> h.asg, continues |-> c, warned |-> w]]
  BY WritesShape
<1>5. HandoffInv'
  <2> HIDE DEF h
  <2> QED BY <1>1, <1>2, <1>3, <1>4, HandoffWritten DEF IInv, loopVars
<1>6. MirrorInv'
  BY <1>1, MirrorStands DEF IInv, loopVars
<1> QED BY <1>1, <1>5, <1>6, LoopAside DEF Rest

(* The plan of a verb has at most one insert, behind the write that puts the
   session's slice back, and none of its writes makes anything active. *)
Clears(o, t) == o.op = "unit" /\ o.at = t /\ o.arg = "queued"
Plain(o, e) ==
    /\ o.op # "insert"
    /\ o.op = "entry" => o.at = <<e>>
    /\ o.op \in {"entry", "unit"} => o.arg # "active"
Planned(w, S, m, verb) ==
    /\ \A o \in S : Plain(o, m.entry)
    /\ verb # "new_scope" => w \in Seq(S)
    /\ verb = "new_scope" =>
         \E b, n \in S : w = <<b, InsertOp(m.unit), n>> /\ Clears(b, m.unit.at)
LEMMA PlanForms ==
    ASSUME NEW m, NEW verb \in VerbKinds, NEW slug, NEW end
    PROVE  \E S : Planned(Writes(m, verb, slug, end), S, m, verb)
<1> DEFINE u == m.unit
           up == UpsOp(u, Count(u) + 1)
           clear == UpsOp(CloseOut(u.at), 0)
           back == SetUnitOp(u.at, u.id, "queued")
           done == SetUnitOp(u.at, u.id, "done")
           sub == SubOp(u, slug, end)
           outcome == IF verb = "defer_entry" THEN "deferred" ELSE "done"
           close == SetUnitOp(Parent(u.at), Last(u.at), outcome)
           mine == SetEntryOp(m.entry, outcome)
           block == SetEntryOp(m.entry, "blocked")
           S == {up, clear, back, done, sub, close, mine, block}
<1>1. \A o \in S : Plain(o, m.entry)
  <2>1. up.op = "ups" /\ clear.op = "ups" /\ sub.op = "sub"
    BY DEF UpsOp, SubOp
  <2>2. /\ back.op = "unit" /\ done.op = "unit" /\ close.op = "unit"
        /\ back.arg = "queued" /\ done.arg = "done" /\ close.arg = outcome
    BY DEF SetUnitOp
  <2>3. /\ mine.op = "entry" /\ block.op = "entry"
        /\ mine.at = <<m.entry>> /\ block.at = <<m.entry>>
        /\ mine.arg = outcome /\ block.arg = "blocked"
    BY DEF SetEntryOp
  <2>4. outcome # "active"
    OBVIOUS
  <2> HIDE DEF up, clear, back, done, sub, close, mine, block, outcome
  <2> QED BY <2>1, <2>2, <2>3, <2>4 DEF Plain
<1>2. ASSUME verb = "new_scope"
      PROVE  \E b, n \in S : /\ Writes(m, verb, slug, end) = <<b, InsertOp(m.unit), n>>
                             /\ Clears(b, m.unit.at)
  <2>1. NewScope(u) = <<back, InsertOp(u), up>>
    BY DEF NewScope
  <2>2. Clears(back, u.at)
    BY DEF Clears, SetUnitOp
  <2>3. Writes(m, verb, slug, end) = NewScope(u)
    BY <1>2 DEF Writes
  <2> HIDE DEF up, back
  <2> QED BY <2>1, <2>2, <2>3
<1>3. ASSUME verb # "new_scope" PROVE Writes(m, verb, slug, end) \in Seq(S)
  <2>1. ResetUps(u) \in {<<clear>>, <<>>}
    BY DEF ResetUps
  <2> HIDE DEF u, up, clear, back, done, sub, close, mine, block
  <2>2. /\ <<up>> \in Seq(S) /\ <<done>> \in Seq(S) /\ <<sub>> \in Seq(S)
        /\ <<block>> \in Seq(S) /\ <<mine>> \in Seq(S)
        /\ <<clear>> \in Seq(S) /\ <<close>> \in Seq(S) /\ <<>> \in Seq(S)
    OBVIOUS
  <2> HIDE DEF S
  <2>3. ResetUps(u) \in Seq(S)
    BY <2>1, <2>2, Zenon
  <2>4. ResetUps(u) \o <<close>> \in Seq(S)
    BY <2>2, <2>3, ConcatProperties
  <2>5. ResetUps(u) \o <<mine>> \in Seq(S)
    BY <2>2, <2>3, ConcatProperties
  <2>6. CASE verb = "roll"
    BY <2>2, <2>6 DEF Writes, u, up
  <2>7. CASE verb = "complete_slice"
    BY <2>2, <2>7 DEF Writes, u, done
  <2>8. CASE verb = "add_sub"
    BY <2>2, <2>8 DEF Writes, u, sub
  <2>9. CASE verb = "block"
    BY <2>2, <2>9 DEF Writes, block
  <2>10. CASE verb \in {"complete_entry", "defer_entry"} /\ SubClose(u)
    <3>1. Writes(m, verb, slug, end) = ResetUps(u) \o <<close>>
      BY <2>10 DEF Writes, u, close
    <3> QED BY <2>4, <3>1, Zenon
  <2>11. CASE verb = "complete_entry" /\ ~SubClose(u)
    <3>1. Writes(m, verb, slug, end) = <<mine>>
      BY <2>11 DEF Writes, u, mine
    <3> QED BY <2>2, <3>1, Zenon
  <2>12. CASE verb = "defer_entry" /\ ~SubClose(u)
    <3>1. Writes(m, verb, slug, end) = ResetUps(u) \o <<mine>>
      BY <2>12 DEF Writes, u, mine
    <3> QED BY <2>5, <3>1, Zenon
  <2> QED BY <1>3, <2>6, <2>7, <2>8, <2>9, <2>10, <2>11, <2>12 DEF VerbKinds
<1> HIDE DEF S
<1>4. Planned(Writes(m, verb, slug, end), S, m, verb)
  BY <1>1, <1>2, <1>3 DEF Planned
<1> QED BY <1>4

(* Every plan of a verb, and the pending change behind it, is about the entry
   of the assignment it was made for. *)
LEMMA PlanOwn ==
    ASSUME NEW m, NEW verb \in VerbKinds, NEW slug, NEW end, NEW more,
           more = <<>> \/ \E x : more = <<SetEntryOp(m.entry, x)>>
    PROVE  OwnOps(Writes(m, verb, slug, end) \o more, m.entry)
<1> DEFINE w == Writes(m, verb, slug, end)
<1>1. PICK S : Planned(w, S, m, verb)
  BY PlanForms
<1>2. PICK x : more \in {<<>>, <<SetEntryOp(m.entry, x)>>}
  OBVIOUS
<1> DEFINE pend == SetEntryOp(m.entry, x)
           ins == InsertOp(m.unit)
           T == S \cup {ins, pend}
<1>3. \A o \in T : o.op = "entry" => o.at = <<m.entry>>
  BY <1>1 DEF Planned, Plain, SetEntryOp, InsertOp
<1> HIDE DEF pend, ins, w
<1>4. w \in Seq(T)
  <2>1. CASE verb = "new_scope"
    <3>1. PICK b \in S, n \in S : w = <<b, ins, n>>
      BY <1>1, <2>1 DEF Planned, ins
    <3>2. b \in T /\ ins \in T /\ n \in T
      OBVIOUS
    <3> HIDE DEF T
    <3> QED BY <3>1, <3>2
  <2>2. CASE verb # "new_scope"
    <3>1. w \in Seq(S) /\ S \subseteq T
      BY <1>1, <2>2 DEF Planned
    <3> HIDE DEF T
    <3> QED BY <3>1
  <2> QED BY <2>1, <2>2
<1>5. more \in Seq(T)
  <2>1. pend \in T
    OBVIOUS
  <2>2. more \in {<<>>, <<pend>>}
    BY <1>2 DEF pend
  <2> HIDE DEF T
  <2>3. <<>> \in Seq(T) /\ <<pend>> \in Seq(T)
    BY <2>1
  <2> QED BY <2>2, <2>3, Zenon
<1> HIDE DEF T
<1>6. w \o more \in Seq(T)
  BY <1>4, <1>5, ConcatProperties
<1> QED BY <1>3, <1>6, SeqOwn DEF w

LEMMA VerbBeginsKeeps ==
    ASSUME IInv, NEW a \in Agents, VerbBegins(a)
    PROVE  Rest'
<1> DEFINE m == mirror[a]
<1>1. UNCHANGED <<loopVars, tick>>
  BY DEF VerbBegins
<1>2. session[a] = "live" /\ m = asg[a] /\ asg[a] # NoAsg
  BY DEF VerbBegins, IInv, MirrorInv, OnRoll
<1>3. mirror' = [mirror EXCEPT ![a] = NoAsg]
  BY DEF VerbBegins
<1>4. MirrorInv'
  BY <1>1, <1>3 DEF IInv, MirrorInv, OnRoll, loopVars
<1>5. PICK verb \in play.verbs, slug \in SubSlugs, end \in BOOLEAN :
        handoff' = [handoff EXCEPT ![a] =
          [state |-> "logs", asg |-> m, warned |-> FALSE,
           continues |-> Continues(m.unit, verb),
           ops |-> Writes(m, verb, slug, end)
                    \o (IF Continues(m.unit, verb) THEN apply_pending(m.entry) ELSE <<>>)]]
  BY DEF VerbBegins
<1> DEFINE c == Continues(m.unit, verb)
           more == IF c THEN apply_pending(m.entry) ELSE <<>>
           ops == Writes(m, verb, slug, end) \o more
<1>6. OwnOps(ops, m.entry)
  <2>1. verb \in VerbKinds
    BY DEF IInv, PlayInv, PlayType
  <2>2. more = <<>> \/ \E x : more = <<SetEntryOp(m.entry, x)>>
    BY DEF apply_pending
  <2> HIDE DEF more
  <2> QED BY <2>1, <2>2, PlanOwn
<1>7. handoff' = [handoff EXCEPT ![a] =
        [state |-> "logs", ops |-> ops, asg |-> m, continues |-> c, warned |-> FALSE]]
  BY <1>5
<1> HIDE DEF ops, c
<1>8. HandoffInv'
  BY <1>1, <1>2, <1>6, <1>7, HandoffWritten DEF IInv, loopVars
<1> QED BY <1>1, <1>4, <1>8, LoopAside DEF Rest

(* The human, and a request to stop: nothing of the loop but a stop. *)
LEMMA HumanKeeps ==
    ASSUME IInv, UNCHANGED <<session, asg, rolled, toPause, mirror, handoff, tick>>,
           stop' = [a \in Agents |-> stop'[a]]
    PROVE  Rest'
<1>1. LoopInv' /\ ApartInv'
  BY LoopStands DEF IInv, LoopInv
<1>2. TickInv' /\ MirrorInv' /\ HandoffInv'
  BY TickStands, MirrorStands, HandoffStands DEF IInv
<1> QED BY <1>1, <1>2 DEF Rest

(* The loop passes a member by. *)
LEMMA PassKeeps ==
    ASSUME IInv, NextMember, tick.pc # "pauses", stop' = [a \in Agents |-> stop'[a]],
           UNCHANGED <<session, asg, rolled, toPause, mirror, handoff>>
    PROVE  Rest'
<1>1. LoopInv' /\ ApartInv'
  BY LoopStands DEF IInv, LoopInv
<1>2. TickInv' /\ tick'.fresh = tick.fresh
  BY TickMoves DEF IInv
<1>3. MirrorInv' /\ HandoffInv'
  BY <1>2, MirrorStands, HandoffStands DEF IInv
<1> QED BY <1>1, <1>2, <1>3 DEF Rest

(* A poll ends with the member released. *)
LEMMA ReleaseKeeps ==
    ASSUME IInv, NEW a \in Agents, NEW s \in {"out", "parked"}, tick.pc = "poll",
           session' = [session EXCEPT ![a] = s], asg' = [asg EXCEPT ![a] = NoAsg],
           rolled' \in [Agents -> Entries \cup {None}],
           \A b \in Agents : b # a => rolled'[b] = rolled[b],
           s = "parked" => rolled'[a] = None,
           toPause' \in [Entries -> Agents \cup {None}],
           NextMember, \E r \in BOOLEAN : StopAfter(a, r), UNCHANGED mirror,
           \/ UNCHANGED handoff /\ handoff[a].state = "none"
           \/ handoff' = [handoff EXCEPT ![a] = NoHandoff]
    PROVE  Rest'
<1>1. stop' = [b \in Agents |-> stop'[b]]
  BY StopShape DEF IInv
<1>2. LoopInv' /\ ApartInv'
  BY <1>1, MemberReleased DEF IInv
<1>3. TickInv' /\ tick'.fresh = tick.fresh
  BY TickMoves DEF IInv
<1>4. MirrorInv'
  BY <1>3, MirrorReleased DEF IInv
<1>5. HandoffInv'
  BY HandoffReleased DEF IInv
<1> QED BY <1>2, <1>3, <1>4, <1>5 DEF Rest

LEMMA EndKeeps ==
    ASSUME IInv, NEW a \in Agents, end_handed_off_session(a)
    PROVE  Rest'
<1> DEFINE e == handoff[a].asg.entry
<1>1. handoff[a].state = "committed" /\ tick.pc = "poll"
  BY DEF end_handed_off_session, At
<1>2. e \in Entries
  <2>1. asg[a] # NoAsg /\ handoff[a].asg = asg[a]
    BY <1>1 DEF IInv, HandoffInv, HasWork
  <2> QED BY <2>1, WorkHasEntry DEF IInv
<1>3. /\ handoff' = [handoff EXCEPT ![a] = NoHandoff]
      /\ session' = [session EXCEPT ![a] = "out"] /\ asg' = [asg EXCEPT ![a] = NoAsg]
      /\ NextMember /\ StopAfter(a, TRUE) /\ UNCHANGED mirror
  BY DEF end_handed_off_session
<1>4. toPause' \in [Entries -> Agents \cup {None}]
  <2>1. CASE pause_v2_entry(e, a)
    BY <1>2, <2>1, PauseTakes DEF IInv, LoopInv
  <2>2. CASE UNCHANGED toPause
    BY <2>2 DEF IInv, LoopInv
  <2> QED BY <2>1, <2>2 DEF end_handed_off_session
<1>5. UNCHANGED rolled \/ rolled' = [rolled EXCEPT ![a] = e]
  BY DEF end_handed_off_session
<1>6. /\ rolled' \in [Agents -> Entries \cup {None}]
      /\ \A b \in Agents : b # a => rolled'[b] = rolled[b]
  <2> HIDE DEF e
  <2> QED BY <1>2, <1>5 DEF IInv, LoopInv
<1> QED BY <1>1, <1>3, <1>4, <1>6, ReleaseKeeps

LEMMA PollDownKeeps ==
    ASSUME IInv, NEW a \in Agents, PollDown(a) \/ PollParked(a)
    PROVE  Rest'
<1>1. /\ tick.pc = "poll" /\ NextMember /\ stop' = [b \in Agents |-> stop'[b]]
      /\ UNCHANGED <<rolled, toPause, mirror, handoff>>
  BY StopShape DEF PollDown, PollParked, Over, At, IInv, LoopInv
<1>2. handoff[a].state = "none"
  BY DEF PollDown, PollParked, Over, IInv, HandoffInv
<1>3. rolled \in [Agents -> Entries \cup {None}] /\ toPause \in [Entries -> Agents \cup {None}]
  BY DEF IInv, LoopInv
<1>4. CASE Stopping(a)
  <2>1. session' = [session EXCEPT ![a] = "out"] /\ asg' = [asg EXCEPT ![a] = NoAsg]
        /\ StopAfter(a, TRUE)
    BY <1>4 DEF PollDown, PollParked
  <2> QED BY <1>1, <1>2, <1>3, <2>1, ReleaseKeeps
<1>5. CASE ~Stopping(a)
  <2>1. /\ session' = [session EXCEPT ![a] = "down"] /\ UNCHANGED asg
        /\ Registered(a)
        /\ session[a] = "live" \/ (session[a] = "parked" /\ PollParked(a))
    BY <1>5 DEF PollDown, PollParked, Over, Registered
  <2>10. At("poll", a)
    BY DEF PollDown, PollParked, Over
  <2>2. session'[a] = "down" /\ \A b \in Agents : b # a => session'[b] = session[b]
    BY <2>1 DEF IInv, LoopInv
  <2>3. session' \in [Agents -> SessionStates]
    BY <2>1 DEF IInv, LoopInv, SessionStates
  <2>5. LoopInv'
    BY <1>1, <2>1, <2>2, <2>3 DEF IInv, LoopInv, HasWork, OnRoll, Registered
  <2>6. ApartInv'
    BY <2>1 DEF IInv, ApartInv, Holds
  <2>7. TickInv' /\ tick'.fresh = tick.fresh
    BY <1>1, TickMoves DEF IInv
  <2>8. MirrorInv'
    <3>1. session[a] = "parked" => mirror[a] = NoAsg
      <4>1. a \in Range(tick.todo)
        BY <2>10 DEF At, IInv, TodoInv, Range
      <4> QED BY <2>10, <4>1 DEF At, IInv, ParkedInv
    <3> QED BY <1>1, <2>1, <2>2, <2>7, <3>1 DEF IInv, MirrorInv, OnRoll
  <2>9. HandoffInv'
    BY <1>1, <1>2, <2>1, <2>2 DEF IInv, HandoffInv, HasWork
  <2> QED BY <2>5, <2>6, <2>7, <2>8, <2>9 DEF Rest
<1> QED BY <1>4, <1>5

LEMMA PollLeavesKeeps ==
    ASSUME IInv, NEW a \in Agents, PollLeaves(a) \/ PollBlocks(a)
    PROVE  Rest'
<1>1. /\ tick.pc = "poll" /\ NextMember /\ StopAfter(a, TRUE)
      /\ UNCHANGED <<rolled, toPause, mirror, handoff>> /\ handoff[a].state = "none"
      /\ session' = [session EXCEPT ![a] = "out"] /\ asg' = [asg EXCEPT ![a] = NoAsg]
  BY DEF PollLeaves, PollBlocks, Over, At
<1>2. rolled \in [Agents -> Entries \cup {None}] /\ toPause \in [Entries -> Agents \cup {None}]
  BY DEF IInv, LoopInv
<1> QED BY <1>1, <1>2, ReleaseKeeps

LEMMA PollRefusedKeeps ==
    ASSUME IInv, NEW a \in Agents, PollRefused(a)
    PROVE  Rest'
<1>1. /\ tick.pc = "poll" /\ NextMember /\ StopAfter(a, TRUE)
      /\ UNCHANGED <<rolled, mirror, handoff>> /\ handoff[a].state = "none"
      /\ asg' = [asg EXCEPT ![a] = NoAsg] /\ session[a] = "live"
      /\ UNCHANGED toPause \/ (asg[a] # NoAsg /\ pause_v2_entry(asg[a].entry, a))
  BY DEF PollRefused, Over, At
<1>2. PICK s \in {"out", "parked"} : session' = [session EXCEPT ![a] = s]
  BY DEF PollRefused
<1>3. rolled \in [Agents -> Entries \cup {None}] /\ rolled[a] = None
  BY <1>1 DEF IInv, LoopInv, Registered
<1>4. toPause' \in [Entries -> Agents \cup {None}]
  <2>1. CASE asg[a] # NoAsg /\ pause_v2_entry(asg[a].entry, a)
    BY <2>1, WorkHasEntry, PauseTakes DEF IInv, LoopInv
  <2>2. CASE UNCHANGED toPause
    BY <2>2 DEF IInv, LoopInv
  <2> QED BY <1>1, <2>1, <2>2
<1> QED BY <1>1, <1>2, <1>3, <1>4, ReleaseKeeps

(* The tick is written, its set of fresh sessions aside. *)
LEMMA TickWritten ==
    ASSUME NEW pc, NEW todo, NEW view, NEW open, NEW pauses, NEW spoken, NEW fresh,
           tick' = [pc |-> pc, todo |-> todo, view |-> view, open |-> open,
                    pauses |-> pauses, spoken |-> spoken, fresh |-> fresh],
           pc = "pauses" => \A e \in pauses : e \in Entries /\ toPause'[e] # None
    PROVE  TickInv' /\ tick'.fresh = fresh
BY DEF TickInv

(* reconcile_model_refused: only members without an assignment go. *)
LEMMA ReconcileKeeps ==
    ASSUME IInv, reconcile_model_refused,
           UNCHANGED <<asg, rolled, toPause, stop, mirror, handoff>>,
           tick'.fresh = tick.fresh
    PROVE  LoopInv' /\ ApartInv' /\ MirrorInv' /\ HandoffInv'
<1>1. PICK edited \in SUBSET {a \in Agents : Registered(a) /\ asg[a] = NoAsg} :
        session' = [a \in Agents |-> IF a \in edited THEN "out" ELSE session[a]]
  BY DEF reconcile_model_refused
<1>3. \A a \in Agents : \/ session'[a] = session[a]
                        \/ asg[a] = NoAsg /\ session'[a] = "out"
  <2> SUFFICES ASSUME NEW a \in Agents, session'[a] # session[a]
               PROVE  asg[a] = NoAsg /\ session'[a] = "out"
    OBVIOUS
  <2>1. a \in edited /\ session'[a] = "out"
    BY <1>1
  <2> QED BY <2>1
<1>4. session' \in [Agents -> SessionStates]
  BY <1>1 DEF IInv, LoopInv, SessionStates
<1>5. LoopInv'
  BY <1>3, <1>4 DEF IInv, LoopInv, HasWork, OnRoll, Registered
<1>6. ApartInv'
  BY DEF IInv, ApartInv, Holds
<1>8. MirrorInv'
  BY <1>3 DEF IInv, MirrorInv, OnRoll
<1>9. HandoffInv'
  BY <1>3 DEF IInv, HandoffInv, HasWork
<1> QED BY <1>5, <1>6, <1>8, <1>9

LEMMA LoadsListKeeps ==
    ASSUME IInv, NEW open \in BOOLEAN, LoadsList(open)
    PROVE  Rest'
<1>2. UNCHANGED <<asg, rolled, toPause, stop, mirror, handoff>> /\ reconcile_model_refused
  BY DEF LoadsList
<1>7. TickInv' /\ tick'.fresh = tick.fresh
  <2> DEFINE owed == {e \in Entries : toPause[e] # None}
  <2>1. tick' = [pc |-> "pauses", todo |-> tick.todo, view |-> Table, open |-> open,
                 pauses |-> owed, spoken |-> tick.spoken, fresh |-> tick.fresh]
    <3>1. tick = [pc |-> tick.pc, todo |-> tick.todo, view |-> tick.view, open |-> tick.open,
                  pauses |-> tick.pauses, spoken |-> tick.spoken, fresh |-> tick.fresh]
      BY DEF IInv, TickInv
    <3>2. tick' = [tick EXCEPT !.pc = "pauses", !.view = Table, !.open = open, !.pauses = owed]
      BY DEF LoadsList
    <3> HIDE DEF owed
    <3> QED BY <3>1, <3>2
  <2>2. \A e \in owed : e \in Entries /\ toPause'[e] # None
    BY <1>2
  <2> HIDE DEF owed
  <2> QED BY <2>1, <2>2, TickWritten
<1> QED BY <1>2, <1>7, ReconcileKeeps DEF Rest

(* The tick goes to its end without a re-roll or a start. *)
LEMMA ShutKeeps ==
    ASSUME IInv, LoadFails \/ GateShut
    PROVE  Rest'
<1>1. /\ UNCHANGED <<asg, rolled, toPause, stop, mirror, handoff>>
      /\ tick' = [tick EXCEPT !.pc = "publish"]
      /\ UNCHANGED session \/ reconcile_model_refused
  BY DEF LoadFails, GateShut
<1>2. tick' = [pc |-> "publish", todo |-> tick.todo, view |-> tick.view, open |-> tick.open,
               pauses |-> tick.pauses, spoken |-> tick.spoken, fresh |-> tick.fresh]
  BY <1>1 DEF IInv, TickInv
<1>3. TickInv' /\ tick'.fresh = tick.fresh
  BY <1>2, TickWritten
<1>4. CASE UNCHANGED session
  <2>1. LoopInv' /\ ApartInv'
    BY <1>1, <1>4, LoopStands DEF IInv, LoopInv
  <2>2. MirrorInv' /\ HandoffInv'
    BY <1>1, <1>3, <1>4, MirrorStands, HandoffStands DEF IInv
  <2> QED BY <1>3, <2>1, <2>2 DEF Rest
<1>5. CASE reconcile_model_refused
  BY <1>1, <1>3, <1>5, ReconcileKeeps DEF Rest
<1> QED BY <1>1, <1>4, <1>5

LEMMA RetriesKeeps ==
    ASSUME IInv, NEW e \in Entries, RetriesPause(e)
    PROVE  Rest'
<1>1. /\ UNCHANGED <<session, asg, rolled, stop, mirror, handoff>>
      /\ tick' = [tick EXCEPT !.pauses = @ \ {e}]
      /\ tick.pc = "pauses" /\ e \in tick.pauses /\ pause_v2_entry(e, toPause[e])
  BY DEF RetriesPause
<1>2. toPause[e] \in Agents /\ toPause \in [Entries -> Agents \cup {None}]
  BY <1>1 DEF IInv, LoopInv, TickInv
<1>3. toPause' \in [Entries -> Agents \cup {None}]
  BY <1>1, <1>2, PauseTakes DEF IInv
<1>4. \A x \in Entries : x # e => toPause'[x] = toPause[x]
  BY <1>1, <1>2 DEF pause_v2_entry
<1>5. tick' = [pc |-> "pauses", todo |-> tick.todo, view |-> tick.view, open |-> tick.open,
               pauses |-> tick.pauses \ {e}, spoken |-> tick.spoken, fresh |-> tick.fresh]
  BY <1>1 DEF IInv, TickInv
<1>6. \A x \in tick.pauses \ {e} : x \in Entries /\ toPause'[x] # None
  BY <1>1, <1>4 DEF IInv, TickInv
<1>7. TickInv' /\ tick'.fresh = tick.fresh
  BY <1>5, <1>6, TickWritten
<1>8. LoopInv' /\ ApartInv'
  BY <1>1, <1>3, LoopStands DEF IInv, LoopInv
<1>9. MirrorInv' /\ HandoffInv'
  BY <1>1, <1>7, MirrorStands, HandoffStands DEF IInv
<1> QED BY <1>7, <1>8, <1>9 DEF Rest

LEMMA RerollsKeeps ==
    ASSUME IInv, NEW members \in SUBSET Agents, Rerolls(members)
    PROVE  Rest'
<1>1. /\ \A a \in members : session[a] = "down"
      /\ session' = [a \in Agents |-> IF a \in members THEN "live" ELSE session[a]]
      /\ UNCHANGED <<asg, rolled, toPause, stop, mirror, handoff>>
  BY DEF Rerolls
<1>2. \A a \in Agents : \/ session'[a] = session[a]
                        \/ session[a] = "down" /\ session'[a] = "live"
  <2> SUFFICES ASSUME NEW a \in Agents, session'[a] # session[a]
               PROVE  session[a] = "down" /\ session'[a] = "live"
    OBVIOUS
  <2>1. a \in members /\ session'[a] = "live"
    BY <1>1
  <2> QED BY <1>1, <2>1
<1>3. session' \in [Agents -> SessionStates]
  BY <1>1 DEF IInv, LoopInv, SessionStates
<1>4. LoopInv'
  BY <1>1, <1>2, <1>3 DEF IInv, LoopInv, HasWork, OnRoll, Registered
<1>5. ApartInv'
  BY <1>1 DEF IInv, ApartInv, Holds
<1>6. TickInv' /\ tick'.fresh = tick.fresh
  <2> DEFINE view == apply_v2_overlay(Pausers)
  <2>1. tick' = [tick EXCEPT !.pc = "start", !.todo = Fleet, !.view = view]
    BY DEF Rerolls
  <2> HIDE DEF view
  <2>2. tick' = [pc |-> "start", todo |-> Fleet, view |-> view, open |-> tick.open,
                 pauses |-> tick.pauses, spoken |-> tick.spoken, fresh |-> tick.fresh]
    BY <2>1 DEF IInv, TickInv
  <2> QED BY <2>2, TickWritten
<1>7. MirrorInv'
  BY <1>1, <1>2, <1>6 DEF IInv, MirrorInv, OnRoll
<1>8. HandoffInv'
  BY <1>1, <1>2 DEF IInv, HandoffInv, HasWork
<1> QED BY <1>4, <1>5, <1>6, <1>7, <1>8 DEF Rest

(* The mirror is the assignments again, and no session is fresh. *)
LEMMA PublishesKeeps ==
    ASSUME IInv, Publishes
    PROVE  Rest'
<1>1. /\ UNCHANGED <<loopVars, handoff>> /\ tick' = NewTick
      /\ mirror' = [a \in Agents |-> IF handoff[a].state = "none" THEN asg[a] ELSE NoAsg]
  BY DEF Publishes
<1>2. TickInv'
  BY <1>1 DEF TickInv, NewTick
<1>3. LoopInv' /\ ApartInv'
  BY <1>1, LoopStands DEF IInv, LoopInv, loopVars
<1>4. MirrorInv'
  BY <1>1 DEF MirrorInv, OnRoll, loopVars
<1>5. HandoffInv'
  BY <1>1, HandoffStands DEF IInv, loopVars
<1> QED BY <1>2, <1>3, <1>4, <1>5 DEF Rest

LEMMA StartPausesKeeps ==
    ASSUME IInv, NEW a \in Agents, StartPauses(a)
    PROVE  Rest'
<1>1. /\ rolled[a] # None /\ pause_v2_entry(rolled[a], a) /\ tick.pc = "start"
      /\ rolled' = [rolled EXCEPT ![a] = None]
      /\ UNCHANGED <<session, asg, stop, mirror, handoff, tick>>
  BY DEF StartPauses, At
<1>2. rolled[a] \in Entries
  BY <1>1 DEF IInv, LoopInv
<1>3. toPause' \in [Entries -> Agents \cup {None}]
  BY <1>1, <1>2, PauseTakes DEF IInv, LoopInv
<1>4. LoopInv'
  BY <1>1, <1>3 DEF IInv, LoopInv, HasWork, OnRoll, Registered
<1>5. ApartInv'
  BY <1>1 DEF IInv, ApartInv, Holds
<1>6. TickInv'
  BY <1>1 DEF IInv, TickInv
<1>7. MirrorInv' /\ HandoffInv'
  BY <1>1, MirrorStands, HandoffStands DEF IInv
<1> QED BY <1>4, <1>5, <1>6, <1>7 DEF Rest

LEMMA SpawnFailsKeeps ==
    ASSUME IInv, NEW a \in Agents, SpawnFails(a)
    PROVE  Rest'
<1> DEFINE e == pick_v2(tick.view, a)
<1>1. /\ tick.pc = "start" /\ UNCHANGED <<loopVars, mirror, handoff>>
      /\ tick' = [tick EXCEPT !.todo = Tail(@), !.spoken = @ \cup {e}]
  BY DEF SpawnFails, Starting, At
<1> HIDE DEF e
<1>2. tick' = [pc |-> "start", todo |-> Tail(tick.todo), view |-> tick.view,
               open |-> tick.open, pauses |-> tick.pauses,
               spoken |-> tick.spoken \cup {e}, fresh |-> tick.fresh]
  BY <1>1 DEF IInv, TickInv
<1>3. TickInv' /\ tick'.fresh = tick.fresh
  BY <1>2, TickWritten
<1>4. LoopInv' /\ ApartInv'
  BY <1>1, LoopStands DEF IInv, LoopInv, loopVars
<1>5. MirrorInv' /\ HandoffInv'
  BY <1>1, <1>3, MirrorStands, HandoffStands DEF IInv, loopVars
<1> QED BY <1>3, <1>4, <1>5 DEF Rest

(* A start: the entry is in nobody's assignment, the member had none. *)
LEMMA StartsKeeps ==
    ASSUME IInv, NEW a \in Agents, Starts(a)
    PROVE  Rest'
<1> DEFINE e == pick_v2(tick.view, a)
           u == next_unit(tick.view, e)
<1>1. /\ tick.pc = "start" /\ e \in Entries /\ ~SpokenFor(e) /\ session[a] = "out"
      /\ asg' = [asg EXCEPT ![a] = [entry |-> e, unit |-> u]]
      /\ session' = [session EXCEPT ![a] = "live"]
      /\ rolled' = [rolled EXCEPT ![a] = None]
      /\ tick' = [tick EXCEPT !.todo = Tail(@), !.fresh = @ \cup {a}]
      /\ UNCHANGED <<toPause, stop, mirror, handoff>>
  BY DEF Starts, Starting, At, MayPick, Registered
<1> HIDE DEF e, u
<1>2. /\ session'[a] = "live" /\ asg'[a].entry = e /\ rolled'[a] = None
      /\ \A b \in Agents : b # a => /\ session'[b] = session[b] /\ asg'[b] = asg[b]
                                    /\ rolled'[b] = rolled[b]
  BY <1>1 DEF IInv, LoopInv
<1>3. /\ session' \in [Agents -> SessionStates] /\ asg' = [b \in Agents |-> asg'[b]]
      /\ rolled' \in [Agents -> Entries \cup {None}]
  BY <1>1 DEF IInv, LoopInv, SessionStates
<1>4. LoopInv'
  BY <1>1, <1>2, <1>3 DEF IInv, LoopInv, HasWork, OnRoll, Registered
<1>5. ApartInv'
  BY <1>1, <1>2 DEF IInv, ApartInv, Holds, SpokenFor
<1>6. tick' = [pc |-> "start", todo |-> Tail(tick.todo), view |-> tick.view,
               open |-> tick.open, pauses |-> tick.pauses, spoken |-> tick.spoken,
               fresh |-> tick.fresh \cup {a}]
  BY <1>1 DEF IInv, TickInv
<1>7. TickInv' /\ tick'.fresh = tick.fresh \cup {a}
  BY <1>6, TickWritten
<1>8. MirrorInv'
  BY <1>1, <1>2, <1>7 DEF IInv, MirrorInv, OnRoll
<1>9. HandoffInv'
  BY <1>1, <1>2 DEF IInv, HandoffInv, HasWork
<1> QED BY <1>4, <1>5, <1>7, <1>8, <1>9 DEF Rest

(* After a restart every map is empty. *)
LEMMA RestartKeeps ==
    ASSUME IInv, Restart
    PROVE  Rest'
<1>1. /\ session' = [a \in Agents |-> "out"] /\ asg' = [a \in Agents |-> NoAsg]
      /\ mirror' = asg' /\ rolled' = [a \in Agents |-> None]
      /\ toPause' = [e \in Entries |-> None] /\ stop' = [a \in Agents |-> "no"]
      /\ handoff' = [a \in Agents |-> NoHandoff] /\ tick' = NewTick
  BY DEF Restart
<1>2. LoopInv'
  BY <1>1 DEF LoopInv, HasWork, OnRoll, Registered, SessionStates
<1>3. ApartInv'
  BY <1>1, QueueConstants DEF ApartInv, Holds, NoAsg
<1>4. TickInv'
  BY <1>1 DEF TickInv, NewTick
<1>5. MirrorInv'
  BY <1>1 DEF MirrorInv
<1>6. HandoffInv'
  BY <1>1 DEF HandoffInv, HasWork, NoHandoff
<1> QED BY <1>2, <1>3, <1>4, <1>5, <1>6 DEF Rest

----------------------------------------------------------------------------
(* Where a step takes the tick. *)

LEMMA TailTodo ==
    ASSUME NEW s \in Seq(Agents), IsInjective(s), s # <<>>
    PROVE  /\ Tail(s) \in Seq(Agents) /\ IsInjective(Tail(s))
           /\ Range(Tail(s)) \subseteq Range(s) /\ Head(s) \notin Range(Tail(s))
<1>1. Len(s) \in Nat /\ Len(s) >= 1 /\ DOMAIN s = 1 .. Len(s) /\ Head(s) = s[1]
  OBVIOUS
<1>2. /\ Tail(s) \in Seq(Agents) /\ Len(Tail(s)) = Len(s) - 1
      /\ \A i \in 1 .. Len(Tail(s)) : Tail(s)[i] = s[i + 1]
  BY HeadTailProperties
<1>3. DOMAIN Tail(s) = 1 .. Len(s) - 1
  BY <1>1, <1>2
<1> DEFINE r == Tail(s)
<1> HIDE DEF r
<1>4. /\ \A i \in DOMAIN r : i + 1 \in DOMAIN s /\ i + 1 # 1 /\ r[i] = s[i + 1]
      /\ \A i, j \in DOMAIN r : i + 1 = j + 1 => i = j
  BY <1>1, <1>2, <1>3 DEF r
<1>5. IsInjective(r)
  BY <1>4 DEF IsInjective
<1>6. Range(r) \subseteq Range(s) /\ Head(s) \notin Range(r)
  BY <1>1, <1>4 DEF Range, IsInjective
<1> QED BY <1>2, <1>5, <1>6 DEF r

(* The record the tick is when its list of members is written. *)
LEMMA TickWith ==
    ASSUME TickInv, NEW t, NEW q, q = [tick EXCEPT !.todo = t]
    PROVE  q = [pc |-> tick.pc, todo |-> t, view |-> tick.view, open |-> tick.open,
                pauses |-> tick.pauses, spoken |-> tick.spoken, fresh |-> tick.fresh]
BY DEF TickInv

(* The loop goes on to its next member, whatever else it notes. *)
LEMMA TickPasses ==
    ASSUME TickInv, NextMember
    PROVE  tick'.pc = tick.pc /\ tick'.view = tick.view /\ tick'.todo = Tail(tick.todo)
<1> DEFINE t == [pc |-> tick.pc, todo |-> Tail(tick.todo), view |-> tick.view,
                 open |-> tick.open, pauses |-> tick.pauses, spoken |-> tick.spoken,
                 fresh |-> tick.fresh]
<1>1. tick' = t
  BY DEF TickInv, NextMember
<1> QED BY <1>1

LEMMA StartTick ==
    ASSUME IInv, NEW a \in Agents, StartSkips(a) \/ StartHeld(a) \/ SpawnFails(a) \/ Starts(a)
    PROVE  /\ tick.pc = "start" /\ tick.todo # <<>> /\ Head(tick.todo) = a
           /\ tick'.pc = tick.pc /\ tick'.view = tick.view /\ tick'.todo = Tail(tick.todo)
<1>1. At("start", a)
  BY DEF StartSkips, StartHeld, SpawnFails, Starts, Starting
<1>2. CASE NextMember
  BY <1>1, <1>2, TickPasses DEF At, IInv
<1>3. CASE ~NextMember
  <2>1. PICK sp, fr :
          tick' = [pc |-> tick.pc, todo |-> Tail(tick.todo), view |-> tick.view,
                   open |-> tick.open, pauses |-> tick.pauses, spoken |-> sp, fresh |-> fr]
    <3> DEFINE q == [tick EXCEPT !.todo = Tail(tick.todo)]
               e == pick_v2(tick.view, a)
               t == Tail(tick.todo)
    <3>1. \/ tick' = [tick EXCEPT !.todo = Tail(@), !.spoken = @ \cup {e}]
          \/ tick' = [tick EXCEPT !.todo = Tail(@), !.fresh = @ \cup {a}]
      BY <1>3 DEF StartSkips, StartHeld, SpawnFails, Starts
    <3> HIDE DEF e
    <3>2. tick = [pc |-> tick.pc, todo |-> tick.todo, view |-> tick.view, open |-> tick.open,
                  pauses |-> tick.pauses, spoken |-> tick.spoken, fresh |-> tick.fresh]
      BY DEF IInv, TickInv
    <3>3. q = [pc |-> tick.pc, todo |-> Tail(tick.todo), view |-> tick.view,
               open |-> tick.open, pauses |-> tick.pauses, spoken |-> tick.spoken,
               fresh |-> tick.fresh]
      <4>1. q = [tick EXCEPT !.todo = t]
        OBVIOUS
      <4> HIDE DEF q, t
      <4>2. q = [pc |-> tick.pc, todo |-> t, view |-> tick.view, open |-> tick.open,
                 pauses |-> tick.pauses, spoken |-> tick.spoken, fresh |-> tick.fresh]
        BY <4>1, TickWith DEF IInv
      <4> QED BY <4>2 DEF t
    <3>4. \/ tick' = [q EXCEPT !.spoken = tick.spoken \cup {e}]
          \/ tick' = [q EXCEPT !.fresh = tick.fresh \cup {a}]
      BY <3>1, <3>2
    <3> HIDE DEF q
    <3> QED BY <3>3, <3>4
  <2> QED BY <1>1, <2>1 DEF At
<1> QED BY <1>2, <1>3

LEMMA RerollTick ==
    ASSUME IInv, NEW members \in SUBSET Agents, Rerolls(members)
    PROVE  /\ tick'.pc = "start" /\ tick'.todo = Fleet
           /\ tick'.view = apply_v2_overlay(Pausers)
<1> DEFINE view == apply_v2_overlay(Pausers)
<1>1. tick' = [tick EXCEPT !.pc = "start", !.todo = Fleet, !.view = view]
  BY DEF Rerolls
<1> HIDE DEF view
<1>2. tick' = [pc |-> "start", todo |-> Fleet, view |-> view, open |-> tick.open,
               pauses |-> tick.pauses, spoken |-> tick.spoken, fresh |-> tick.fresh]
  BY <1>1 DEF IInv, TickInv
<1> QED BY <1>2 DEF view

(* A step that is not of the starts leaves the tick as it is, or not at the
   starts. *)
Aside ==
    \/ tick'.todo = tick.todo
    \/ tick'.todo = Fleet
    \/ (tick.todo # <<>> /\ tick'.todo = Tail(tick.todo))
LEMMA OtherTick ==
    ASSUME IInv, Next,
           ~\E a \in Agents : StartStep(a),
           ~\E members \in SUBSET Agents : Rerolls(members)
    PROVE  /\ Aside
           /\ tick' = tick \/ tick'.pc # "start"
           /\ tick.pc = "start" /\ tick'.pc = "start" => UNCHANGED <<rolled, toPause>>
<1> DEFINE Goal == /\ Aside
                   /\ tick' = tick \/ tick'.pc # "start"
                   /\ tick.pc = "start" /\ tick'.pc = "start" => UNCHANGED <<rolled, toPause>>
<1>1. ASSUME NEW a \in Agents, PollStep(a) PROVE Goal
  <2>1. At("poll", a) /\ NextMember
    BY <1>1 DEF PollStep, PollQuiet, end_handed_off_session, PollDown, PollParked, PollLeaves,
                PollBlocks, PollRefused, Over
  <2> QED BY <2>1, TickPasses DEF At, IInv, Aside
<1>2. ASSUME UNCHANGED <<tick, rolled, toPause>> PROVE Goal
  BY <1>2 DEF Aside
<1>3. ASSUME NEW a \in Agents, VerbBegins(a) \/ VerbStep(a) \/ RequestStop(a) PROVE Goal
  BY <1>2, <1>3 DEF VerbBegins, VerbStep, VerbLogs, VerbAborts, VerbWrites, VerbCommits,
                    RequestStop, loopVars
<1>4. ASSUME NEW e \in Entries, HumanSetsEntry(e) \/ HumanDrops(e) PROVE Goal
  BY <1>2, <1>4 DEF HumanSetsEntry, HumanDrops, loopVars
<1>5. ASSUME NEW t \in DOMAIN items, HumanEditsSlices(t) PROVE Goal
  BY <1>2, <1>5 DEF HumanEditsSlices, loopVars
<1>6. ASSUME Publishes \/ Restart PROVE Goal
  <2>1. tick' = NewTick
    BY <1>6 DEF Publishes, Restart
  <2> QED BY <2>1 DEF NewTick, Aside
<1>7. ASSUME LoadFails \/ GateShut PROVE Goal
  <2>1. tick' = [tick EXCEPT !.pc = "publish"]
    BY <1>7 DEF LoadFails, GateShut
  <2> QED BY <2>1 DEF Aside, IInv, TickInv
<1>8. ASSUME NEW e \in Entries, RetriesPause(e) PROVE Goal
  <2>1. tick.pc = "pauses" /\ tick' = [tick EXCEPT !.pauses = @ \ {e}]
    BY <1>8 DEF RetriesPause
  <2> QED BY <2>1 DEF Aside, IInv, TickInv
<1>9. ASSUME NEW open \in BOOLEAN, LoadsList(open) PROVE Goal
  <2> DEFINE owed == {e \in Entries : toPause[e] # None}
  <2>1. tick' = [tick EXCEPT !.pc = "pauses", !.view = Table, !.open = open, !.pauses = owed]
    BY <1>9 DEF LoadsList
  <2> HIDE DEF owed
  <2>2. tick' = [pc |-> "pauses", todo |-> tick.todo, view |-> Table, open |-> open,
                 pauses |-> owed, spoken |-> tick.spoken, fresh |-> tick.fresh]
    BY <2>1 DEF IInv, TickInv
  <2> QED BY <2>2 DEF Aside
<1> HIDE DEF Goal
<1>10. Goal
  BY <1>1, <1>3, <1>4, <1>5, <1>6, <1>7, <1>8, <1>9 DEF Next, LoopStep
<1> QED BY <1>10 DEF Goal

LEMMA TodoStep ==
    ASSUME IInv, Next
    PROVE  TodoInv'
<1>1. CASE Aside
  <2>1. \/ Tail(tick.todo) \in Seq(Agents) /\ IsInjective(Tail(tick.todo))
        \/ tick.todo = <<>>
    BY TailTodo DEF IInv, TodoInv
  <2> QED BY <1>1, <2>1, FleetV2Constants, RosterDistinct DEF Aside, IInv, TodoInv
<1>2. ASSUME NEW a \in Agents, StartPauses(a) PROVE Aside
  BY <1>2 DEF StartPauses, Aside
<1>3. ASSUME NEW a \in Agents, StartStep(a) PROVE Aside
  BY <1>2, <1>3, StartTick DEF StartStep, Aside
<1>4. ASSUME NEW members \in SUBSET Agents, Rerolls(members) PROVE Aside
  BY <1>4, RerollTick DEF Aside
<1> QED BY <1>1, <1>3, <1>4, OtherTick

(* A refused member's old assignment is out of the mirror by its next poll: the
   member just parked is not to come in this pass, and the end of the tick
   publishes what it has, nothing. *)
LEMMA ParkedStep ==
    ASSUME IInv, Next
    PROVE  ParkedInv'
<1>0. tick.todo \in Seq(Agents) /\ Range(tick.todo) \subseteq Agents
  BY DEF IInv, TodoInv, Range
<1>1. ASSUME tick'.pc # "poll" PROVE ParkedInv'
  BY <1>1 DEF ParkedInv
<1>2. ASSUME UNCHANGED <<tick, session>>,
             \A a \in Agents : session[a] = "parked" => mirror'[a] \in {mirror[a], NoAsg}
      PROVE  ParkedInv'
  BY <1>0, <1>2 DEF IInv, ParkedInv
<1>3. ASSUME NEW a \in Agents, PollStep(a) PROVE ParkedInv'
  <2>1. At("poll", a) /\ NextMember /\ UNCHANGED mirror
        /\ \E x : session' = [session EXCEPT ![a] = x]
    BY <1>3 DEF PollStep, PollQuiet, end_handed_off_session, PollDown, PollParked, PollLeaves,
                PollBlocks, PollRefused, Over, IInv, LoopInv
  <2>2. tick.pc = "poll" /\ tick.todo # <<>> /\ Head(tick.todo) = a
        /\ tick'.todo = Tail(tick.todo)
    BY <2>1, TickPasses DEF At, IInv
  <2>3. Range(tick'.todo) \subseteq Range(tick.todo) /\ a \notin Range(tick'.todo)
    BY <2>2, TailTodo DEF IInv, TodoInv
  <2>4. \A b \in Agents : b # a => session'[b] = session[b]
    BY <2>1 DEF IInv, LoopInv
  <2> QED BY <1>0, <2>1, <2>2, <2>3, <2>4 DEF IInv, ParkedInv
<1>4. ASSUME NEW a \in Agents, StartStep(a) PROVE ParkedInv'
  <2>1. CASE StartPauses(a)
    BY <1>1, <2>1 DEF StartPauses, At
  <2>2. CASE ~StartPauses(a)
    BY <1>1, <1>4, <2>2, StartTick DEF StartStep
  <2> QED BY <2>1, <2>2
<1>5. ASSUME NEW a \in Agents, VerbBegins(a) \/ VerbStep(a) \/ RequestStop(a) PROVE ParkedInv'
  <2>1. UNCHANGED <<tick, session>>
    BY <1>5 DEF VerbBegins, VerbStep, VerbLogs, VerbAborts, VerbWrites, VerbCommits, RequestStop,
                loopVars
  <2>2. UNCHANGED mirror \/ (\E x : mirror' = [mirror EXCEPT ![a] = x] /\ session[a] = "live")
    BY <1>5 DEF VerbBegins, VerbStep, VerbLogs, VerbAborts, VerbWrites, VerbCommits, RequestStop,
                IInv, HandoffInv
  <2>3. \A b \in Agents : session[b] = "parked" => mirror'[b] = mirror[b]
    BY <2>2 DEF IInv, MirrorInv
  <2> QED BY <1>2, <2>1, <2>3
<1>6. ASSUME \/ \E e \in Entries : HumanSetsEntry(e) \/ HumanDrops(e)
             \/ \E t \in DOMAIN items : HumanEditsSlices(t)
      PROVE  ParkedInv'
  BY <1>2, <1>6 DEF HumanSetsEntry, HumanDrops, HumanEditsSlices, loopVars
<1>7. CASE Publishes
  <2>1. /\ UNCHANGED session /\ tick' = NewTick
        /\ mirror' = [a \in Agents |-> IF handoff[a].state = "none" THEN asg[a] ELSE NoAsg]
    BY <1>7 DEF Publishes, loopVars
  <2>2. Range(tick'.todo) \subseteq Agents
    BY <2>1, FleetV2Constants DEF NewTick, Range
  <2>3. \A a \in Agents : session[a] = "parked" => asg[a] = NoAsg
    BY DEF IInv, LoopInv, HasWork, OnRoll
  <2> QED BY <2>1, <2>2, <2>3 DEF ParkedInv
<1>8. CASE Restart
  <2>1. session' = [a \in Agents |-> "out"] /\ tick' = NewTick
    BY <1>8 DEF Restart
  <2>2. Range(tick'.todo) \subseteq Agents
    BY <2>1, FleetV2Constants DEF NewTick, Range
  <2> QED BY <2>1, <2>2 DEF ParkedInv
<1>9. ASSUME LoadFails \/ GateShut PROVE ParkedInv'
  <2>1. tick' = [tick EXCEPT !.pc = "publish"]
    BY <1>9 DEF LoadFails, GateShut
  <2> QED BY <1>1, <2>1 DEF IInv, TickInv
<1>10. ASSUME NEW e \in Entries, RetriesPause(e) PROVE ParkedInv'
  <2>1. tick.pc = "pauses" /\ tick' = [tick EXCEPT !.pauses = @ \ {e}]
    BY <1>10 DEF RetriesPause
  <2> QED BY <1>1, <2>1 DEF IInv, TickInv
<1>11. ASSUME NEW members \in SUBSET Agents, Rerolls(members) PROVE ParkedInv'
  BY <1>1, <1>11, RerollTick
<1>12. ASSUME NEW open \in BOOLEAN, LoadsList(open) PROVE ParkedInv'
  <2> DEFINE owed == {e \in Entries : toPause[e] # None}
  <2>1. tick' = [tick EXCEPT !.pc = "pauses", !.view = Table, !.open = open, !.pauses = owed]
    BY <1>12 DEF LoadsList
  <2> HIDE DEF owed
  <2>2. tick'.pc = "pauses"
    BY <2>1 DEF IInv, TickInv
  <2> QED BY <1>1, <2>2
<1>13. ASSUME LoopStep PROVE ParkedInv'
  BY <1>3, <1>4, <1>7, <1>9, <1>10, <1>11, <1>12, <1>13 DEF LoopStep
<1> QED BY <1>5, <1>6, <1>8, <1>13 DEF Next

----------------------------------------------------------------------------
(* The invariant, and what follows from it. *)

LEMMA InitIInv ==
    ASSUME Init
    PROVE  IInv
<1>1. RowsInv /\ RepoInv
  <2>1. \A e \in Entries : \E st \in Unstarted :
          rows[e] = [status |-> st, pending |-> None, ups |-> 0]
    BY DEF Init, QueueInit
  <2>2. \A e \in Entries : ~Started(e)
    <3> SUFFICES ASSUME NEW e \in Entries PROVE ~Started(e)
      OBVIOUS
    <3>1. PICK st \in Unstarted : rows[e] = [status |-> st, pending |-> None, ups |-> 0]
      BY <2>1
    <3>2. rows[e].status \in Unstarted
      BY <3>1
    <3> QED BY <3>2, QueueConstants DEF Started
  <2>3. rows = [e \in Entries |-> rows[e]]
    BY DEF Init, QueueInit
  <2>4. \A e \in Entries :
          rows[e] = [status |-> rows[e].status, pending |-> rows[e].pending, ups |-> rows[e].ups]
    <3> SUFFICES ASSUME NEW e \in Entries
                 PROVE  rows[e] = [status |-> rows[e].status, pending |-> rows[e].pending,
                                   ups |-> rows[e].ups]
      OBVIOUS
    <3>1. PICK st \in Unstarted : rows[e] = [status |-> st, pending |-> None, ups |-> 0]
      BY <2>1
    <3> QED BY <3>1
  <2> QED BY <2>2, <2>3, <2>4 DEF RowsInv, RepoInv
<1>2. PlayInv
  BY FleetV2Constants DEF Init, PlayInv
<1>3. LoopInv
  BY DEF Init, LoopInv, HasWork, OnRoll, Registered, SessionStates
<1>4. ApartInv
  BY QueueConstants DEF Init, ApartInv, Holds, NoAsg
<1>5. TickInv
  BY DEF Init, TickInv, NewTick
<1>6. MirrorInv /\ ParkedInv
  <2>1. Range(tick.todo) \subseteq Agents
    BY FleetV2Constants DEF Init, NewTick, Range
  <2> QED BY <2>1 DEF Init, MirrorInv, ParkedInv
<1>8. TodoInv
  BY FleetV2Constants, RosterDistinct DEF Init, TodoInv, NewTick
<1>7. HandoffInv
  BY DEF Init, HandoffInv, NoHandoff
<1> QED BY <1>1, <1>2, <1>3, <1>4, <1>5, <1>6, <1>7, <1>8 DEF IInv

LEMMA NextKeepsRest ==
    ASSUME IInv, Next
    PROVE  Rest'
<1>0. stop = [b \in Agents |-> stop[b]]
  BY DEF IInv, LoopInv
<1>1. ASSUME NEW a \in Agents, PollQuiet(a) PROVE Rest'
  <2>1. stop' = [b \in Agents |-> stop'[b]]
    BY <1>1, StopShape DEF PollQuiet, IInv
  <2> QED BY <1>1, <2>1, PassKeeps DEF PollQuiet, At
<1>2. ASSUME NEW a \in Agents, StartSkips(a) \/ StartHeld(a) PROVE Rest'
  <2>1. NextMember /\ tick.pc = "start" /\ UNCHANGED <<loopVars, mirror, handoff>>
    BY <1>2 DEF StartSkips, StartHeld, Starting, At
  <2> QED BY <1>0, <2>1, PassKeeps DEF loopVars
<1>3. ASSUME NEW a \in Agents, RequestStop(a) PROVE Rest'
  <2>1. stop' = [b \in Agents |-> stop'[b]]
    BY <1>0, <1>3 DEF RequestStop
  <2> QED BY <1>3, <2>1, HumanKeeps DEF RequestStop
<1>4. ASSUME NEW e \in Entries, HumanSetsEntry(e) \/ HumanDrops(e) PROVE Rest'
  BY <1>0, <1>4, HumanKeeps DEF HumanSetsEntry, HumanDrops, loopVars
<1>5. ASSUME NEW t \in DOMAIN items, HumanEditsSlices(t) PROVE Rest'
  BY <1>0, <1>5, HumanKeeps DEF HumanEditsSlices, loopVars
<1>6. ASSUME NEW a \in Agents, PollStep(a) PROVE Rest'
  BY <1>1, <1>6, EndKeeps, PollDownKeeps, PollLeavesKeeps, PollRefusedKeeps DEF PollStep
<1>7. ASSUME NEW a \in Agents, StartStep(a) PROVE Rest'
  BY <1>2, <1>7, StartPausesKeeps, SpawnFailsKeeps, StartsKeeps DEF StartStep
<1>8. ASSUME NEW a \in Agents, VerbBegins(a) \/ VerbStep(a) PROVE Rest'
  BY <1>8, VerbBeginsKeeps, VerbLogsKeeps, VerbAbortsKeeps, VerbWritesKeeps DEF VerbStep
<1>9. ASSUME LoopStep PROVE Rest'
  BY <1>6, <1>7, <1>9, LoadsListKeeps, ShutKeeps, RetriesKeeps, RerollsKeeps, PublishesKeeps
     DEF LoopStep
<1> QED
  BY <1>3, <1>4, <1>5, <1>8, <1>9, RestartKeeps DEF Next

(* Every step of the loop, of a verb and of the human keeps the invariant. *)
LEMMA Inductive ==
    ASSUME IInv, [Next]_vars
    PROVE  IInv'
<1>1. CASE Next
  <2>1. Rest'
    BY <1>1, NextKeepsRest
  <2>2. RowsInv' /\ RepoInv' /\ PlayInv'
    BY <1>1, ListStepHolds DEF ListStep, TakesOut
  <2> QED BY <1>1, <2>1, <2>2, TodoStep, ParkedStep DEF IInv, Rest
<1>2. CASE UNCHANGED vars
  <2>1. Rest'
    BY <1>2, HumanKeeps DEF vars, loopVars, IInv, LoopInv
  <2>2. RowsInv' /\ RepoInv' /\ PlayInv'
    BY <1>2, RowsStand DEF vars, queueVars, IInv, TakesOut, PlayInv
  <2>3. TodoInv' /\ ParkedInv'
    BY <1>2 DEF vars, loopVars, IInv, TodoInv, ParkedInv
  <2> QED BY <2>1, <2>2, <2>3 DEF IInv, Rest
<1> QED BY <1>1, <1>2

(* The invariant holds of the loop on queue v2 for every fleet and list. *)
THEOREM Invariant == Spec => []IInv
BY InitIInv, Inductive, PTL DEF Spec

(* No entry is in two assignments, and no two sessions in the normal lane work
   in one repository, whatever list the tick had read, whatever the human and
   the handoffs wrote since, whichever round-trip failed or whichever answer
   was lost, and across restarts. *)
THEOREM SessionsStayApart == Spec => []SessionsApart
<1>1. ASSUME IInv PROVE SessionsApart
  <2> SUFFICES ASSUME NEW a \in Agents, NEW b \in Agents, a # b
               PROVE  /\ \A e \in Entries : ~(Holds(a, e) /\ Holds(b, e))
                      /\ InLane(a) /\ InLane(b) => Repo[asg[a].entry] # Repo[asg[b].entry]
    BY DEF SessionsApart
  <2>1. \A e \in Entries : ~(Holds(a, e) /\ Holds(b, e))
    BY <1>1 DEF IInv, ApartInv
  <2>2. ASSUME InLane(a), InLane(b) PROVE Repo[asg[a].entry] # Repo[asg[b].entry]
    <3>1. asg[a].entry \in Entries /\ asg[b].entry \in Entries
      BY <1>1, <2>2, WorkHasEntry DEF IInv, InLane, Working
    <3>2. asg[a].entry # asg[b].entry
      BY <2>1, <3>1 DEF Holds
    <3> QED BY <1>1, <2>2, <3>1, <3>2 DEF IInv, RepoInv, InLane
  <2> QED BY <2>1, <2>2
<1> QED BY <1>1, Invariant, PTL

(* No human change, no claim, no verb of another member and no other member's
   end interrupts a session: what takes its entry out of `active` is a pause
   that was owed for the entry, or one for a member that had handed it off. *)
THEOREM OldHoldsOnly == Spec => OnlyOldHoldsInterrupt
<1> DEFINE Interrupts(a) ==
      Working(a) /\ Working(a)' /\ asg'[a] = asg[a] /\ rows[asg[a].entry].status = "active" =>
           \/ rows'[asg[a].entry].status = "active"
           \/ toPause[asg[a].entry] # None
           \/ \E b \in Agents \ {a} : rolled[b] = asg[a].entry
<1>1. ASSUME IInv, [Next]_vars PROVE [\A a \in Agents : Interrupts(a)]_vars
  <2> SUFFICES ASSUME Next PROVE \A a \in Agents : Interrupts(a)
    BY <1>1
  <2> SUFFICES ASSUME NEW a \in Agents, Working(a), Working(a)', asg'[a] = asg[a],
                      rows[asg[a].entry].status = "active",
                      rows'[asg[a].entry].status # "active",
                      toPause[asg[a].entry] = None
               PROVE  \E b \in Agents \ {a} : rolled[b] = asg[a].entry
    OBVIOUS
  <2> DEFINE e == asg[a].entry
  <2>1. e \in Entries /\ rolled[a] = None
    BY <1>1, WorkHasEntry DEF IInv, LoopInv, Working, Registered
  <2>2. PICK x : TakesOut(x) /\ MayLeave(x)
    BY <1>1, ListStepHolds DEF ListStep
  <2>3. x = e
    BY <2>1, <2>2 DEF TakesOut
  <2>4. ASSUME NEW b \in Agents, asg[b].entry = e PROVE b = a
    BY <1>1, <2>1, <2>4 DEF IInv, ApartInv, Holds
  <2>5. \E b \in Agents : rolled[b] = e
    BY <2>1, <2>2, <2>3, <2>4 DEF MayLeave
  <2> QED BY <2>1, <2>5, QueueConstants
<1> QED BY <1>1, Invariant, PTL DEF Spec, OnlyOldHoldsInterrupt

----------------------------------------------------------------------------
(* The scheduler: what it yields. *)

(* A set of naturals has a least member, and the operator Min yields it. *)
LEMMA LeastMember ==
    ASSUME NEW S \in SUBSET Nat, S # {}
    PROVE  Min(S) \in S /\ \A y \in S : Min(S) <= y
<1>1. \E x \in S : \A y \in S : x <= y
  <2> DEFINE R == OpToRel(<, Nat)
  <2>1. IsWellFoundedOn(R, Nat)
    BY NatLessThanWellFounded
  <2>2. \A x, y \in Nat : <<y, x>> \in R <=> y < x
    BY DEF OpToRel
  <2> HIDE DEF R
  <2>3. PICK x \in S : \A y \in S : ~(<<y, x>> \in R)
    BY <2>1, WFMin, Zenon
  <2>4. ASSUME NEW y \in S PROVE x <= y
    <3>1. x \in Nat /\ y \in Nat /\ ~(<<y, x>> \in R)
      BY <2>3
    <3>2. ~(y < x)
      BY <2>2, <3>1, Zenon
    <3> QED BY <3>1, <3>2
  <2> QED BY <2>4
<1> QED BY <1>1 DEF Min

(* A bounded one has a greatest. *)
LEMMA GreatestMember ==
    ASSUME NEW n \in Nat, NEW S \in SUBSET (1 .. n), S # {}
    PROVE  Max(S) \in S
<1> DEFINE T == {n - x : x \in S}
<1>1. T \in SUBSET Nat /\ T # {}
  OBVIOUS
<1>2. Min(T) \in T /\ \A y \in T : Min(T) <= y
  <2> HIDE DEF T
  <2> QED BY <1>1, LeastMember
<1>3. PICK x \in S : Min(T) = n - x
  BY <1>2
<1>4. ASSUME NEW y \in S PROVE x >= y
  <2>1. n - x <= n - y
    BY <1>2, <1>3
  <2> QED BY <2>1
<1> QED BY <1>4 DEF Max

(* The place an entry is taken from is one of those given. *)
LEMMA EntryPlaces ==
    ASSUME NEW S, S \subseteq DOMAIN EntryOrder
    PROVE  /\ Earliest(S) # None => \E i \in S : Earliest(S) = EntryOrder[i]
           /\ Latest(S) # None => \E i \in S : Latest(S) = EntryOrder[i]
<1>1. DOMAIN EntryOrder = 1 .. Len(EntryOrder) /\ Len(EntryOrder) \in Nat
  BY QueueConstants
<1>2. S # {} => Min(S) \in S /\ Max(S) \in S
  <2>1. S \in SUBSET Nat /\ S \in SUBSET (1 .. Len(EntryOrder))
    BY <1>1
  <2>2. S # {} => Min(S) \in S
    BY <2>1, LeastMember
  <2>3. S # {} => Max(S) \in S
    BY <1>1, <2>1, GreatestMember
  <2> QED BY <2>2, <2>3
<1> QED BY <1>2 DEF Earliest, Latest

(* What the scheduler picks is an entry the member may take. *)
LEMMA PickEligible ==
    ASSUME NEW view, NEW a, pick_v2(view, a) # None
    PROVE  eligible(view, a, pick_v2(view, a))
<1> DEFINE able == {i \in DOMAIN EntryOrder : eligible(view, a, EntryOrder[i])}
           Normal == Entries \ Urgent
           tries == <<scan_lane(able, Urgent, PinV2[a]), own_active(view, a, able),
                      own_paused(view, a, able), scan_lane(able, Normal, PinV2[a]),
                      scan_lane(able, Urgent, None), scan_lane(able, Normal, None)>>
           found == {i \in DOMAIN tries : tries[i] # None}
<1>1. found # {} /\ pick_v2(view, a) = tries[Min(found)]
  BY DEF pick_v2, PickFrom, FirstFound
<1>2. DOMAIN tries = 1 .. 6
  OBVIOUS
<1>3. able \subseteq DOMAIN EntryOrder /\ \A i \in able : eligible(view, a, EntryOrder[i])
  OBVIOUS
<1> HIDE DEF able
<1>4. ASSUME NEW S, NEW pin, scan_lane(able, S, pin) # None
      PROVE  eligible(view, a, scan_lane(able, S, pin))
  <2> DEFINE lane == {i \in able : EntryOrder[i] \in S /\ pin \in {None, Repo[EntryOrder[i]]}}
  <2>1. lane \subseteq able /\ lane \subseteq DOMAIN EntryOrder /\ scan_lane(able, S, pin) = Earliest(lane)
    BY <1>3 DEF scan_lane
  <2> HIDE DEF lane
  <2>2. PICK i \in lane : Earliest(lane) = EntryOrder[i]
    BY <1>4, <2>1, EntryPlaces
  <2> QED BY <1>3, <2>1, <2>2
<1>5. own_active(view, a, able) # None => eligible(view, a, own_active(view, a, able))
  <2> DEFINE S == {i \in able : EntryOrder[i] = Latest(Mine(view, a, "active"))}
  <2>1. S \subseteq able /\ S \subseteq DOMAIN EntryOrder /\ own_active(view, a, able) = Earliest(S)
    BY <1>3 DEF own_active
  <2> HIDE DEF S
  <2> QED BY <1>3, <2>1, EntryPlaces
<1>6. own_paused(view, a, able) # None => eligible(view, a, own_paused(view, a, able))
  <2> DEFINE S == Mine(view, a, "paused") \cap able
  <2>1. S \subseteq able /\ S \subseteq DOMAIN EntryOrder /\ own_paused(view, a, able) = Latest(S)
    BY <1>3 DEF own_paused
  <2> HIDE DEF S
  <2> QED BY <1>3, <2>1, EntryPlaces
<1>7. \A i \in 1 .. 6 : tries[i] # None => eligible(view, a, tries[i])
  <2>1. /\ tries[1] = scan_lane(able, Urgent, PinV2[a])
        /\ tries[2] = own_active(view, a, able)
        /\ tries[3] = own_paused(view, a, able)
        /\ tries[4] = scan_lane(able, Normal, PinV2[a])
        /\ tries[5] = scan_lane(able, Urgent, None)
        /\ tries[6] = scan_lane(able, Normal, None)
    OBVIOUS
  <2> HIDE DEF tries
  <2>2. \A i \in 1 .. 6 : i \in {1, 2, 3, 4, 5, 6}
    OBVIOUS
  <2> QED BY <1>4, <1>5, <1>6, <2>1, <2>2
<1> HIDE DEF tries
<1>8. Min(found) \in found
  <2>1. found \in SUBSET Nat
    BY <1>2
  <2> HIDE DEF found
  <2> QED BY <1>1, <2>1, LeastMember
<1> QED BY <1>1, <1>2, <1>7, <1>8

(* The unit of a walk is decided in a tree of the milestone. *)
LEMMA WalkUnit ==
    ASSUME NEW trees, NEW m, walk_tree(trees, m) # NoUnit
    PROVE  LET u == walk_tree(trees, m)
           IN  u.at \in DOMAIN trees /\ Top(u.at) = m /\ u = UnitIn(trees, u.at)
<1> DEFINE units == {UnitIn(trees, t) : t \in Walked(trees, m)} \ {NoUnit}
           u == walk_tree(trees, m)
<1>1. u \in units
  BY DEF walk_tree, OnlyUnit
<1>2. PICK t \in Walked(trees, m) : u = UnitIn(trees, t)
  BY <1>1
<1>3. u.at = t
  BY <1>2 DEF UnitIn, CloseOut
<1>4. t \in DOMAIN trees /\ Top(t) = m
  BY DEF Walked
<1> QED BY <1>2, <1>3, <1>4

LEMMA NextUnitTop ==
    ASSUME NEW view, NEW e, next_unit(view, e) # NoUnit
    PROVE  Top(next_unit(view, e).at) = e
<1>1. CASE e \in Milestones
  BY <1>1, WalkUnit DEF next_unit
<1>2. CASE e \notin Milestones
  BY <1>2 DEF next_unit, WholeEntry, Top
<1> QED BY <1>1, <1>2

(* The member at the head of the starts takes an entry that is nobody's, and
   the unit it claims is the entry's. *)
LEMMA StartingTakes ==
    ASSUME NEW a \in Agents, Starting(a)
    PROVE  LET e == pick_v2(tick.view, a)
               u == next_unit(tick.view, e)
           IN  /\ e \in Entries /\ eligible(tick.view, a, e) /\ ~SpokenFor(e)
               /\ rolled[a] \in {None, e}
               /\ u # NoUnit /\ Top(u.at) = e
<1> DEFINE e == pick_v2(tick.view, a)
<1>1. e \in Entries /\ ~SpokenFor(e) /\ rolled[a] \in {None, e}
  BY DEF Starting
<1>2. eligible(tick.view, a, e)
  <2>1. e # None
    BY <1>1, QueueConstants
  <2> QED BY <2>1, PickEligible
<1> HIDE DEF e
<1>3. next_unit(tick.view, e) # NoUnit
  BY <1>2 DEF eligible
<1> QED BY <1>1, <1>2, <1>3, NextUnitTop DEF e

----------------------------------------------------------------------------
(* Slice lists. *)

(* A list of items: their ids are distinct, and at most one is active. *)
IsItem(r) == r = [id |-> r.id, sub |-> r.sub, status |-> r.status, ups |-> r.ups]
ListOk(l) ==
    /\ l \in Seq(Range(l))
    /\ \A i \in DOMAIN l : IsItem(l[i])
    /\ \A i, j \in DOMAIN l : l[i].id = l[j].id => i = j
    /\ \A i, j \in DOMAIN l : l[i].status = "active" /\ l[j].status = "active" => i = j
Quiet(l) == \A i \in DOMAIN l : l[i].status # "active"
CoherentList(l) ==
    \A i \in DOMAIN l : l[i].status = "active" => \A j \in Open(l) : i <= j

LEMMA InOwnRange ==
    ASSUME NEW S, NEW l \in Seq(S)
    PROVE  l \in Seq(Range(l))
<1>1. \A i \in DOMAIN l : l[i] \in Range(l)
  BY DEF Range
<1>2. Len(l) \in Nat /\ l \in [1 .. Len(l) -> S]
  OBVIOUS
<1>3. l \in [1 .. Len(l) -> Range(l)]
  BY <1>1, <1>2
<1> QED BY <1>2, <1>3, SeqDef

LEMMA ListDomain ==
    ASSUME NEW l, ListOk(l)
    PROVE  Len(l) \in Nat /\ DOMAIN l = 1 .. Len(l)
BY DEF ListOk

(* One item of a list is written. *)
LEMMA ItemWritten ==
    ASSUME NEW l, ListOk(l), NEW i \in DOMAIN l, NEW r, IsItem(r), r.id = l[i].id,
           r.status = "active" => \A j \in DOMAIN l : j # i => l[j].status # "active"
    PROVE  LET k == [l EXCEPT ![i] = r]
           IN  /\ ListOk(k) /\ DOMAIN k = DOMAIN l /\ k[i] = r
               /\ \A j \in DOMAIN l : j # i => k[j] = l[j]
<1> DEFINE k == [l EXCEPT ![i] = r]
<1>1. DOMAIN k = DOMAIN l /\ k[i] = r /\ \A j \in DOMAIN l : j # i => k[j] = l[j]
  OBVIOUS
<1>2. k \in Seq(Range(k))
  <2>1. l \in Seq(Range(l) \cup {r})
    <3>1. Len(l) \in Nat /\ l \in [1 .. Len(l) -> Range(l)]
      BY DEF ListOk
    <3>2. l \in [1 .. Len(l) -> Range(l) \cup {r}]
      BY <3>1
    <3> QED BY <3>1, <3>2, SeqDef
  <2>2. k \in Seq(Range(l) \cup {r})
    BY <2>1
  <2> QED BY <2>2, InOwnRange
<1> HIDE DEF k
<1>3. ListOk(k)
  BY <1>1, <1>2 DEF ListOk
<1> QED BY <1>1, <1>3 DEF k

(* An item is put into a list. *)
LEMMA InsertAtProperties ==
    ASSUME NEW S, NEW l \in Seq(S), NEW r \in S, NEW at \in 1 .. Len(l) + 1
    PROVE  LET k == InsertAt(l, at, r)
           IN  /\ k \in Seq(S) /\ Len(k) = Len(l) + 1
               /\ \A i \in 1 .. Len(l) + 1 :
                     k[i] = IF i < at THEN l[i] ELSE IF i = at THEN r ELSE l[i - 1]
<1> DEFINE before == SubSeq(l, 1, at - 1)
           after == SubSeq(l, at, Len(l))
           k == InsertAt(l, at, r)
<1>0. Len(l) \in Nat /\ \A i \in 1 .. Len(l) : l[i] \in S
  OBVIOUS
<1>1. /\ before \in Seq(S) /\ Len(before) = at - 1
      /\ \A i \in 1 .. at - 1 : before[i] = l[i]
  BY <1>0, SubSeqProperties
<1>2. /\ after \in Seq(S) /\ Len(after) = Len(l) - at + 1
      /\ \A i \in 1 .. Len(l) - at + 1 : after[i] = l[at + i - 1]
  BY <1>0, SubSeqProperties
<1> HIDE DEF before, after
<1>3. <<r>> \in Seq(S) /\ Len(<<r>>) = 1 /\ <<r>>[1] = r
  OBVIOUS
<1> DEFINE b1 == before \o <<r>>
<1>4. /\ b1 \in Seq(S) /\ Len(b1) = at
      /\ \A i \in 1 .. at : b1[i] = IF i <= at - 1 THEN before[i] ELSE <<r>>[i - (at - 1)]
  BY <1>0, <1>1, <1>3, ConcatProperties
<1>5. k = b1 \o after
  BY DEF InsertAt, before, after
<1> HIDE DEF b1, k
<1>6. /\ k \in Seq(S) /\ Len(k) = at + Len(after)
      /\ \A i \in 1 .. at + Len(after) : k[i] = IF i <= at THEN b1[i] ELSE after[i - at]
  <2>1. b1 \in Seq(S) /\ after \in Seq(S) /\ Len(b1) = at
    BY <1>2, <1>4
  <2>2. /\ b1 \o after \in Seq(S) /\ Len(b1 \o after) = Len(b1) + Len(after)
        /\ \A i \in 1 .. Len(b1) + Len(after) :
             (b1 \o after)[i] = IF i <= Len(b1) THEN b1[i] ELSE after[i - Len(b1)]
    BY <2>1, ConcatProperties
  <2> QED BY <2>1, <2>2, <1>5
<1>7. ASSUME NEW i \in 1 .. Len(l) + 1
      PROVE  k[i] = IF i < at THEN l[i] ELSE IF i = at THEN r ELSE l[i - 1]
  <2>1. k[i] = IF i <= at THEN b1[i] ELSE after[i - at]
    BY <1>2, <1>6
  <2>2. CASE i < at
    BY <2>1, <2>2, <1>1, <1>4
  <2>3. CASE i = at
    BY <2>1, <2>3, <1>0, <1>3, <1>4
  <2>4. CASE i > at
    <3>1. i - at \in 1 .. Len(l) - at + 1 /\ at + (i - at) - 1 = i - 1
      BY <2>4, <1>0
    <3>2. after[i - at] = l[i - 1]
      BY <3>1, <1>2
    <3>3. ~ (i <= at) /\ ~ (i < at) /\ i # at
      BY <2>4, <1>0
    <3> QED BY <2>1, <3>2, <3>3
  <2> QED BY <2>2, <2>3, <2>4
<1> QED BY <1>2, <1>6, <1>7, <1>0 DEF k

LEMMA ItemInserted ==
    ASSUME NEW l, ListOk(l), NEW r, IsItem(r), r.status # "active",
           \A i \in DOMAIN l : l[i].id # r.id, NEW at \in 1 .. Len(l) + 1
    PROVE  /\ ListOk(InsertAt(l, at, r))
           /\ Quiet(l) => Quiet(InsertAt(l, at, r))
<1> DEFINE S == Range(l) \cup {r}
           k == InsertAt(l, at, r)
<1>1. l \in Seq(S)
  <2>1. Len(l) \in Nat /\ l \in [1 .. Len(l) -> Range(l)]
    BY DEF ListOk
  <2>2. l \in [1 .. Len(l) -> Range(l) \cup {r}]
    BY <2>1
  <2> QED BY <2>1, <2>2, SeqDef
<1>0. r \in S
  OBVIOUS
<1> HIDE DEF S
<1>2. /\ k \in Seq(S) /\ Len(k) = Len(l) + 1
      /\ \A i \in 1 .. Len(l) + 1 :
            k[i] = IF i < at THEN l[i] ELSE IF i = at THEN r ELSE l[i - 1]
  BY <1>0, <1>1, InsertAtProperties
<1> HIDE DEF k
<1>3. Len(l) \in Nat /\ DOMAIN l = 1 .. Len(l)
  BY ListDomain
<1>4. DOMAIN k = 1 .. Len(l) + 1
  BY <1>2
<1>5. k \in Seq(Range(k))
  BY <1>2, InOwnRange
<1> DEFINE old(i) == IF i < at THEN i ELSE i - 1
<1>6. \A i \in DOMAIN k : i # at => old(i) \in DOMAIN l /\ k[i] = l[old(i)]
  BY <1>2, <1>3, <1>4
<1>7. k[at] = r /\ at \in DOMAIN k
  BY <1>2, <1>3, <1>4
<1>8. \A i, j \in DOMAIN k : i # at /\ j # at /\ old(i) = old(j) => i = j
  BY <1>3, <1>4
<1> HIDE DEF old
<1>9. ListOk(k)
  <2>1. \A i \in DOMAIN k : IsItem(k[i])
    BY <1>6, <1>7 DEF ListOk
  <2>2. \A i, j \in DOMAIN k : k[i].id = k[j].id => i = j
    BY <1>6, <1>7, <1>8 DEF ListOk
  <2>3. \A i, j \in DOMAIN k : k[i].status = "active" /\ k[j].status = "active" => i = j
    BY <1>6, <1>7, <1>8 DEF ListOk
  <2> QED BY <1>5, <2>1, <2>2, <2>3 DEF ListOk
<1>10. Quiet(l) => Quiet(k)
  BY <1>6, <1>7 DEF Quiet
<1> QED BY <1>9, <1>10 DEF k

(* An item is taken out of a list. *)
LEMMA ItemRemoved ==
    ASSUME NEW l, ListOk(l), NEW n \in DOMAIN l
    PROVE  LET k == RemoveAt(l, n)
           IN  /\ ListOk(k) /\ \A i \in DOMAIN k : k[i].id # l[n].id
               /\ Quiet(l) => Quiet(k)
<1> DEFINE k == RemoveAt(l, n)
           before == SubSeq(l, 1, n - 1)
           after == SubSeq(l, n + 1, Len(l))
           S == Range(l)
<1>0. Len(l) \in Nat /\ DOMAIN l = 1 .. Len(l) /\ \A i \in 1 .. Len(l) : l[i] \in S
  BY ListDomain DEF Range
<1> HIDE DEF S
<1>1. /\ before \in Seq(S) /\ Len(before) = n - 1
      /\ \A i \in 1 .. n - 1 : before[i] = l[i]
  BY <1>0, SubSeqProperties
<1>2. /\ after \in Seq(S) /\ Len(after) = Len(l) - n
      /\ \A i \in 1 .. Len(l) - n : after[i] = l[n + i]
  <2>1. /\ after \in Seq(S) /\ Len(after) = IF n + 1 <= Len(l) THEN Len(l) - (n + 1) + 1 ELSE 0
        /\ \A i \in 1 .. Len(l) - (n + 1) + 1 : after[i] = l[n + 1 + i - 1]
    BY <1>0, SubSeqProperties
  <2> HIDE DEF after
  <2>2. Len(after) = Len(l) - n
    BY <1>0, <2>1
  <2>3. ASSUME NEW i \in 1 .. Len(l) - n PROVE after[i] = l[n + i]
    <3>1. i \in 1 .. Len(l) - (n + 1) + 1 /\ n + 1 + i - 1 = n + i
      BY <1>0
    <3> QED BY <2>1, <3>1
  <2> QED BY <2>1, <2>2, <2>3
<1>3. k = before \o after
  BY DEF RemoveAt
<1> HIDE DEF before, after, k
<1>4. /\ k \in Seq(S) /\ Len(k) = Len(before) + Len(after)
      /\ \A i \in 1 .. Len(before) + Len(after) :
            k[i] = IF i <= Len(before) THEN before[i] ELSE after[i - Len(before)]
  BY <1>1, <1>2, <1>3, ConcatProperties
<1>5. DOMAIN k = 1 .. Len(l) - 1
  BY <1>0, <1>1, <1>2, <1>4
<1> DEFINE old(i) == IF i < n THEN i ELSE i + 1
<1>6. \A i \in DOMAIN k : old(i) \in DOMAIN l /\ old(i) # n /\ k[i] = l[old(i)]
  <2> SUFFICES ASSUME NEW i \in DOMAIN k
               PROVE  old(i) \in DOMAIN l /\ old(i) # n /\ k[i] = l[old(i)]
    OBVIOUS
  <2>1. CASE i < n
    BY <1>0, <1>1, <1>4, <1>5, <2>1
  <2>2. CASE ~(i < n)
    <3>1. i - (n - 1) \in 1 .. Len(l) - n /\ n + (i - (n - 1)) = i + 1
      BY <1>0, <1>5, <2>2
    <3>2. k[i] = after[i - (n - 1)]
      <4>1. i \in 1 .. Len(before) + Len(after) /\ ~(i <= Len(before))
        BY <1>0, <1>1, <1>2, <1>5, <2>2
      <4> QED BY <1>1, <1>4, <4>1
    <3>3. k[i] = l[i + 1]
      BY <1>2, <3>1, <3>2
    <3>4. i + 1 \in DOMAIN l /\ i + 1 # n
      BY <1>0, <1>5, <2>2
    <3> QED BY <2>2, <3>3, <3>4
  <2> QED BY <2>1, <2>2
<1>7. \A i, j \in DOMAIN k : old(i) = old(j) => i = j
  BY <1>0, <1>5
<1> HIDE DEF old
<1>8. k \in Seq(Range(k))
  BY <1>4, InOwnRange
<1>9. ListOk(k)
  BY <1>6, <1>7, <1>8 DEF ListOk
<1>10. /\ \A i \in DOMAIN k : k[i].id # l[n].id
       /\ Quiet(l) => Quiet(k)
  BY <1>6 DEF ListOk, Quiet
<1> QED BY <1>9, <1>10 DEF k

(* What a write of one item does to a list that it makes nothing active in.
   Coherence stays when the item was the active one and is not any more, when
   it is closed, and when its status is the same. *)
LEMMA WriteCoherent ==
    ASSUME NEW l, ListOk(l), NEW i \in DOMAIN l, NEW r, IsItem(r), r.id = l[i].id,
           r.status # "active" \/ r.status = l[i].status
    PROVE  LET k == [l EXCEPT ![i] = r]
           IN  /\ ListOk(k)
               /\ Quiet(l) => Quiet(k)
               /\ l[i].status = "active" /\ r.status # "active" => Quiet(k)
               /\ (\/ l[i].status = "active" /\ r.status # "active"
                   \/ r.status \in Closed
                   \/ r.status = l[i].status)
                  => (CoherentList(l) => CoherentList(k))
<1> DEFINE k == [l EXCEPT ![i] = r]
<1>1. /\ ListOk(k) /\ DOMAIN k = DOMAIN l /\ k[i] = r
      /\ \A j \in DOMAIN l : j # i => k[j] = l[j]
  <2>1. r.status = "active" => \A j \in DOMAIN l : j # i => l[j].status # "active"
    BY DEF ListOk
  <2> QED BY <2>1, ItemWritten
<1> HIDE DEF k
<1>2. l[i].status = "active" /\ r.status # "active" => Quiet(k)
  BY <1>1 DEF Quiet, ListOk
<1>3. Quiet(k) => CoherentList(k)
  BY DEF Quiet, CoherentList
<1>4. Quiet(l) => Quiet(k)
  BY <1>1 DEF Quiet
<1>5. ASSUME CoherentList(l), r.status \in Closed \/ r.status = l[i].status
      PROVE  CoherentList(k)
  <2>1. \A j \in DOMAIN l : k[j].status = l[j].status \/ k[j].status \in Closed
    BY <1>1, <1>5
  <2>2. Open(k) \subseteq Open(l)
    BY <1>1, <2>1 DEF Open
  <2> QED BY <1>1, <1>5, <2>1, <2>2 DEF CoherentList, Closed
<1> QED BY <1>1, <1>2, <1>3, <1>4, <1>5 DEF k

----------------------------------------------------------------------------
(* keeperd's slice lists. *)

ListsInv ==
    /\ items = [t \in DOMAIN items |-> items[t]]
    /\ \A t \in DOMAIN items : ListOk(items[t])

(* Nothing is active in a tree, if there is one. *)
QuietAt(t) == t \in DOMAIN items => Quiet(items[t])
NoStir == \A t : QuietAt(t) => QuietAt(t)'
CoherentKept == \A t \in DOMAIN items : Coherent(t) => Coherent(t)'

LEMMA CoherentIsList ==
    ASSUME NEW t
    PROVE  Coherent(t) <=> CoherentList(items[t])
BY DEF Coherent, CoherentList, OpenItems

LEMMA PosIn ==
    ASSUME NEW t, NEW id, Pos(t, id) # 0
    PROVE  /\ t \in DOMAIN items /\ Pos(t, id) \in DOMAIN items[t]
           /\ items[t][Pos(t, id)].id = id
BY DEF Pos

LEMMA PosZero ==
    ASSUME ListsInv, NEW t \in DOMAIN items, NEW id, Pos(t, id) = 0
    PROVE  \A i \in DOMAIN items[t] : items[t][i].id # id
<1> SUFFICES ASSUME NEW i \in DOMAIN items[t], items[t][i].id = id
             PROVE  FALSE
  OBVIOUS
<1>1. Pos(t, id) \in DOMAIN items[t]
  BY DEF Pos
<1>2. DOMAIN items[t] = 1 .. Len(items[t]) /\ Len(items[t]) \in Nat
  BY ListDomain DEF ListsInv
<1> QED BY <1>1, <1>2

(* One list is written. *)
LEMMA TreeWritten ==
    ASSUME ListsInv, NEW t \in DOMAIN items, NEW k, ListOk(k), items' = [items EXCEPT ![t] = k]
    PROVE  /\ ListsInv'
           /\ DOMAIN items' = DOMAIN items /\ items'[t] = k
           /\ \A x \in DOMAIN items : x # t => items'[x] = items[x]
           /\ (Quiet(items[t]) => Quiet(k)) => NoStir
           /\ (CoherentList(items[t]) => CoherentList(k)) => CoherentKept
<1>1. /\ DOMAIN items' = DOMAIN items /\ items'[t] = k
      /\ \A x \in DOMAIN items : x # t => items'[x] = items[x]
  BY DEF ListsInv
<1>2. ListsInv'
  <2>1. items' = [x \in DOMAIN items' |-> items'[x]]
    BY DEF ListsInv
  <2> QED BY <1>1, <2>1 DEF ListsInv
<1>3. (Quiet(items[t]) => Quiet(k)) => NoStir
  BY <1>1 DEF NoStir, QuietAt, Quiet
<1>4. (CoherentList(items[t]) => CoherentList(k)) => CoherentKept
  <2> SUFFICES ASSUME CoherentList(items[t]) => CoherentList(k),
                      NEW x \in DOMAIN items, Coherent(x)
               PROVE  Coherent(x)'
    BY DEF CoherentKept
  <2>1. CoherentList(items[x])
    BY CoherentIsList
  <2>2. CoherentList(items'[x])
    BY <1>1, <2>1
  <2> QED BY <2>2 DEF Coherent, CoherentList, OpenItems
<1> QED BY <1>1, <1>2, <1>3, <1>4

LEMMA ListsStand ==
    ASSUME ListsInv, UNCHANGED items
    PROVE  ListsInv' /\ NoStir /\ CoherentKept
BY DEF ListsInv, NoStir, CoherentKept, QuietAt, Quiet, Coherent, OpenItems

(* SetItem, for a write that makes nothing active. *)
LEMMA SetItemKeeps ==
    ASSUME ListsInv, NEW t, NEW id, Pos(t, id) # 0, NEW r, IsItem(r), r.id = Item(t, id).id,
           r.status # "active" \/ r.status = Item(t, id).status,
           items' = SetItem(t, id, r)
    PROVE  /\ ListsInv' /\ NoStir
           /\ Item(t, id).status = "active" /\ r.status # "active" => QuietAt(t)'
           /\ (\/ Item(t, id).status = "active" /\ r.status # "active"
               \/ r.status \in Closed
               \/ r.status = Item(t, id).status)
              => CoherentKept
<1> DEFINE l == items[t]
           i == Pos(t, id)
           k == [l EXCEPT ![i] = r]
<1>1. t \in DOMAIN items /\ i \in DOMAIN l
  BY PosIn
<1>2. ListOk(l)
  BY <1>1 DEF ListsInv
<1>3. items' = [items EXCEPT ![t] = k]
  BY <1>1 DEF SetItem
<1>4. l[i] = Item(t, id)
  BY DEF Item
<1> HIDE DEF l, i
<1>5. /\ ListOk(k)
      /\ Quiet(l) => Quiet(k)
      /\ l[i].status = "active" /\ r.status # "active" => Quiet(k)
      /\ (\/ l[i].status = "active" /\ r.status # "active"
          \/ r.status \in Closed
          \/ r.status = l[i].status)
         => (CoherentList(l) => CoherentList(k))
  BY <1>1, <1>2, <1>4, WriteCoherent
<1> HIDE DEF k
<1>6. /\ ListsInv' /\ items'[t] = k
      /\ (Quiet(l) => Quiet(k)) => NoStir
      /\ (CoherentList(l) => CoherentList(k)) => CoherentKept
  BY <1>1, <1>3, <1>5, TreeWritten DEF l
<1> QED BY <1>4, <1>5, <1>6 DEF QuietAt

LEMMA ItemShape ==
    ASSUME ListsInv, NEW t, NEW id, Pos(t, id) # 0
    PROVE  Item(t, id) = [id |-> Item(t, id).id, sub |-> Item(t, id).sub,
                          status |-> Item(t, id).status, ups |-> Item(t, id).ups]
BY PosIn DEF ListsInv, ListOk, IsItem, Item

(* An item is written with another status and another counter. *)
LEMMA ItemWith ==
    ASSUME NEW it, IsItem(it), NEW s, NEW n, NEW r,
           r = [id |-> it.id, sub |-> it.sub, status |-> s, ups |-> n]
    PROVE  IsItem(r) /\ r.id = it.id /\ r.status = s
BY DEF IsItem

LEMMA SetUnitKeeps ==
    ASSUME ListsInv, NEW t, NEW id, NEW new, new # "active", SetUnit(t, id, new)
    PROVE  /\ ListsInv' /\ NoStir /\ CoherentKept
           /\ new = "queued" => QuietAt(t)'
<1> DEFINE it == Item(t, id)
           n == IF new = "done" THEN 0 ELSE it.ups
           r == [it EXCEPT !.status = new, !.ups = n]
<1>1. Pos(t, id) # 0
  BY DEF SetUnit, SetUnitOk
<1>2. IsItem(it)
  BY <1>1, ItemShape DEF IsItem
<1>3. items' = SetItem(t, id, r)
  BY DEF SetUnit
<1>4. \/ it.status = "active"
      \/ new \in {"done", "deferred"}
  BY DEF SetUnit, SetUnitOk, check_sub_close
<1> HIDE DEF it, n
<1>0. r = [id |-> it.id, sub |-> it.sub, status |-> new, ups |-> n]
  <2> DEFINE q == [it EXCEPT !.status = new]
  <2>1. q = [id |-> it.id, sub |-> it.sub, status |-> new, ups |-> it.ups]
    BY <1>2 DEF IsItem
  <2>2. r = [q EXCEPT !.ups = n]
    BY <1>2 DEF IsItem
  <2> HIDE DEF q, r
  <2> QED BY <2>1, <2>2
<1> HIDE DEF r
<1>5. IsItem(r) /\ r.id = it.id /\ r.status = new
  BY <1>0, <1>2, ItemWith
<1>6. new \in {"done", "deferred"} => new \in Closed
  BY DEF Closed
<1> QED BY <1>1, <1>3, <1>4, <1>5, <1>6, SetItemKeeps DEF it

LEMMA FollowUpsKeep ==
    ASSUME ListsInv, NEW t, NEW id, NEW n, queue_v2_follow_ups(t, id, n)
    PROVE  ListsInv' /\ NoStir /\ CoherentKept
<1>1. CASE id = None
  BY <1>1, ListsStand DEF queue_v2_follow_ups
<1>2. CASE id # None
  <2> DEFINE it == Item(t, id)
             r == [it EXCEPT !.ups = n]
  <2>1. Pos(t, id) # 0 /\ items' = SetItem(t, id, r)
    BY <1>2 DEF queue_v2_follow_ups, FollowUpsOk
  <2>2. IsItem(it)
    BY <2>1, ItemShape DEF IsItem
  <2> HIDE DEF it
  <2>3. r = [id |-> it.id, sub |-> it.sub, status |-> it.status, ups |-> n]
    BY <2>2 DEF IsItem
  <2> HIDE DEF r
  <2>4. IsItem(r) /\ r.id = it.id /\ r.status = it.status
    BY <2>3 DEF IsItem
  <2> QED BY <2>1, <2>4, SetItemKeeps DEF it
<1> QED BY <1>1, <1>2

LEMMA UpdateKeeps ==
    ASSUME ListsInv, NEW t, NEW id, NEW new, new # "active", UpdateSlice(t, id, new)
    PROVE  ListsInv' /\ NoStir
<1> DEFINE it == Item(t, id)
           n == IF new = "done" THEN 0 ELSE it.ups
           r == [it EXCEPT !.status = new, !.ups = n]
<1>1. Pos(t, id) # 0 /\ items' = SetItem(t, id, r)
  BY DEF UpdateSlice
<1>2. IsItem(it)
  BY <1>1, ItemShape DEF IsItem
<1> HIDE DEF it, n
<1>0. r = [id |-> it.id, sub |-> it.sub, status |-> new, ups |-> n]
  <2> DEFINE q == [it EXCEPT !.status = new]
  <2>1. q = [id |-> it.id, sub |-> it.sub, status |-> new, ups |-> it.ups]
    BY <1>2 DEF IsItem
  <2>2. r = [q EXCEPT !.ups = n]
    BY <1>2 DEF IsItem
  <2> HIDE DEF q, r
  <2> QED BY <2>1, <2>2
<1> HIDE DEF r
<1>3. IsItem(r) /\ r.id = it.id /\ r.status = new
  BY <1>0, <1>2, ItemWith
<1> QED BY <1>1, <1>3, SetItemKeeps DEF it

LEMMA MoveKeeps ==
    ASSUME ListsInv, NEW t, NEW id, NEW at, MoveSlice(t, id, at)
    PROVE  ListsInv' /\ NoStir
<1> DEFINE l == items[t]
           i == Pos(t, id)
           it == Item(t, id)
           rest == RemoveAt(l, i)
           k == InsertAt(rest, at, it)
<1>1. /\ i # 0 /\ it.status # "active" /\ at \in 1 .. Len(rest) + 1
      /\ items' = [items EXCEPT ![t] = k]
  BY DEF MoveSlice
<1>2. t \in DOMAIN items /\ i \in DOMAIN l /\ ListOk(l) /\ l[i] = it
  BY <1>1, PosIn DEF ListsInv, Item
<1> HIDE DEF l, i, it
<1>3. IsItem(it)
  BY <1>2 DEF ListOk
<1>4. /\ ListOk(rest) /\ \A j \in DOMAIN rest : rest[j].id # it.id
      /\ Quiet(l) => Quiet(rest)
  BY <1>2, ItemRemoved
<1> HIDE DEF rest
<1>5. ListOk(k) /\ (Quiet(rest) => Quiet(k))
  BY <1>1, <1>3, <1>4, ItemInserted
<1> HIDE DEF k
<1> QED BY <1>1, <1>2, <1>4, <1>5, TreeWritten DEF l

LEMMA InsertKeeps ==
    ASSUME ListsInv, NEW t, NEW at, slice_insert(t, at)
    PROVE  /\ ListsInv' /\ NoStir
           /\ QuietAt(t) => CoherentKept
<1> DEFINE l == items[t]
           id == CHOOSE id \in Unused(t) : TRUE
           r == SliceItem(id)
           k == InsertAt(l, at, r)
<1>1. /\ t \in DOMAIN items /\ Unused(t) # {} /\ at \in 1 .. Len(l) + 1
  BY DEF slice_insert, InsertOk
<1>2. items' = [items EXCEPT ![t] = k]
  BY <1>1 DEF slice_insert
<1>3. \A i \in DOMAIN l : l[i].id # id
  <2>1. id \in Unused(t)
    BY <1>1
  <2> HIDE DEF id
  <2>2. Pos(t, id) = 0
    BY <2>1 DEF Unused
  <2> QED BY <1>1, <2>2, PosZero
<1>4. ListOk(l)
  BY <1>1 DEF ListsInv
<1> HIDE DEF id, l
<1>5. IsItem(r) /\ r.status = "queued" /\ r.id = id
  BY DEF SliceItem, IsItem
<1> HIDE DEF r
<1>6. ListOk(k) /\ (Quiet(l) => Quiet(k))
  BY <1>1, <1>3, <1>4, <1>5, ItemInserted
<1> HIDE DEF k
<1>7. /\ ListsInv' /\ NoStir
      /\ (CoherentList(l) => CoherentList(k)) => CoherentKept
  BY <1>1, <1>2, <1>6, TreeWritten DEF l
<1>8. Quiet(k) => CoherentList(k)
  BY DEF Quiet, CoherentList
<1> QED BY <1>1, <1>6, <1>7, <1>8 DEF QuietAt, l

(* A list as it is filed: everything in it is queued. *)
LEMMA NewListOk ==
    ASSUME NEW ids, ids \in Seq(Range(ids)), IsInjective(ids)
    PROVE  ListOk(NewList(ids)) /\ Quiet(NewList(ids))
<1> DEFINE l == NewList(ids)
<1>1. DOMAIN ids = 1 .. Len(ids) /\ Len(ids) \in Nat
  OBVIOUS
<1>2. DOMAIN l = 1 .. Len(ids) /\ \A i \in DOMAIN l : l[i] = SliceItem(ids[i])
  BY <1>1 DEF NewList
<1>3. l \in Seq(Range(l))
  <2>1. l = [i \in 1 .. Len(ids) |-> l[i]]
    BY <1>1 DEF NewList
  <2>2. \A i \in 1 .. Len(ids) : l[i] \in Range(l)
    BY <1>2 DEF Range
  <2> HIDE DEF l
  <2>3. l \in [1 .. Len(ids) -> Range(l)]
    BY <2>1, <2>2
  <2> QED BY <1>1, <2>3, SeqDef
<1> HIDE DEF l
<1>4. \A i \in DOMAIN l : IsItem(l[i]) /\ l[i].id = ids[i] /\ l[i].status = "queued"
  BY <1>2 DEF SliceItem, IsItem
<1>5. \A i, j \in DOMAIN l : ids[i] = ids[j] => i = j
  BY <1>1, <1>2 DEF IsInjective
<1> QED BY <1>3, <1>4, <1>5 DEF ListOk, Quiet, l

(* The active slice is split, and the sub is put in with a list of its own. *)
LEMMA AddSubKeeps ==
    ASSUME ListsInv, NEW t, NEW slice, NEW slug, NEW at_end,
           queue_v2_add_sub(t, slice, slug, at_end)
    PROVE  ListsInv' /\ NoStir /\ CoherentKept
<1> DEFINE l == items[t]
           i == Pos(t, slice)
           r == [Item(t, slice) EXCEPT !.status = "split"]
           l2 == [l EXCEPT ![i] = r]
           at == IF at_end THEN Len(l2) + 1 ELSE i + 1
           k == InsertAt(l2, at, SubItem(slug))
           new == Append(t, slug)
           born == NewList(SubSlices)
<1>1. /\ i # 0 /\ Pos(t, slug) = 0 /\ new \notin DOMAIN items
      /\ Item(t, slice).status = "active"
  BY DEF queue_v2_add_sub, AddSubOk
<1>2. t \in DOMAIN items /\ i \in DOMAIN l /\ l[i] = Item(t, slice) /\ ListOk(l)
  BY <1>1, PosIn DEF Item, ListsInv
<1>3. SetItem(t, slice, r)[t] = l2
  BY <1>2 DEF SetItem, ListsInv
<1>4. items' = [x \in DOMAIN items \cup {new} |->
                  IF x = new THEN born ELSE [items EXCEPT ![t] = k][x]]
  <2> HIDE DEF l2, new, born, r, i
  <2> QED BY <1>3 DEF queue_v2_add_sub, r, i, born, new
<1>5. r = [id |-> l[i].id, sub |-> l[i].sub, status |-> "split", ups |-> l[i].ups]
  BY <1>2 DEF ListOk, IsItem
<1>6. \A j \in DOMAIN l : l[j].id # slug
  BY <1>1, <1>2, PosZero
<1> HIDE DEF l, i, r, k, new, born
<1>7. IsItem(r) /\ r.id = l[i].id /\ r.status = "split"
  BY <1>5 DEF IsItem
<1>8. /\ ListOk(l2) /\ Quiet(l2)
      /\ DOMAIN l2 = DOMAIN l /\ \A j \in DOMAIN l : l2[j].id = l[j].id
  <2>1. ListOk(l2) /\ Quiet(l2)
    BY <1>1, <1>2, <1>7, WriteCoherent
  <2>2. DOMAIN l2 = DOMAIN l /\ \A j \in DOMAIN l : l2[j].id = l[j].id
    BY <1>2, <1>7
  <2> QED BY <2>1, <2>2
<1> HIDE DEF l2
<1>9. at \in 1 .. Len(l2) + 1
  BY <1>2, <1>8, ListDomain
<1> HIDE DEF at
<1>10. ListOk(k) /\ Quiet(k)
  <2> DEFINE s == SubItem(slug)
  <2>1. IsItem(s) /\ s.status = "queued" /\ s.id = slug
    BY DEF SubItem, IsItem
  <2> HIDE DEF s
  <2>2. \A j \in DOMAIN l2 : l2[j].id # s.id
    BY <1>6, <1>8, <2>1
  <2>3. k = InsertAt(l2, at, s)
    BY DEF k, s
  <2> QED BY <1>8, <1>9, <2>1, <2>2, <2>3, ItemInserted
<1>11. ListOk(born) /\ Quiet(born)
  BY SlicesDistinct, NewListOk DEF born
<1>12. /\ DOMAIN items' = DOMAIN items \cup {new} /\ items'[new] = born /\ items'[t] = k
       /\ \A x \in DOMAIN items : x # t => items'[x] = items[x]
  BY <1>1, <1>2, <1>4
<1>13. ListsInv'
  <2>1. items' = [x \in DOMAIN items' |-> items'[x]]
    BY <1>4
  <2>2. \A x \in DOMAIN items' : ListOk(items'[x])
    BY <1>10, <1>11, <1>12 DEF ListsInv
  <2> QED BY <2>1, <2>2 DEF ListsInv
<1>14. NoStir
  BY <1>10, <1>11, <1>12 DEF NoStir, QuietAt
<1>15. CoherentKept
  <2> SUFFICES ASSUME NEW x \in DOMAIN items, Coherent(x)
               PROVE  CoherentList(items'[x])
    BY DEF CoherentKept, Coherent, CoherentList, OpenItems
  <2>1. CASE x = t
    BY <1>10, <1>12, <2>1 DEF Quiet, CoherentList
  <2>2. CASE x # t
    BY <1>12, <2>2, CoherentIsList
  <2> QED BY <2>1, <2>2
<1> QED BY <1>13, <1>14, <1>15

(* One write of a handoff: an insert is the only one that needs its list to be
   quiet. *)
LEMMA LandsLists ==
    ASSUME ListsInv, NEW o, Lands(o), o.op = "unit" => o.arg # "active"
    PROVE  /\ ListsInv' /\ NoStir
           /\ (o.op = "insert" => QuietAt(o.at)) => CoherentKept
           /\ o.op = "unit" /\ o.arg = "queued" => QuietAt(o.at)'
<1>1. CASE o.op = "entry"
  BY <1>1, ListsStand DEF Lands, SetEntry
<1>2. CASE o.op = "unit"
  BY <1>2, SetUnitKeeps DEF Lands
<1>3. CASE o.op = "ups"
  BY <1>3, FollowUpsKeep DEF Lands
<1>4. CASE o.op = "insert"
  BY <1>4, InsertKeeps DEF Lands
<1>5. CASE o.op = "sub"
  BY <1>5, AddSubKeeps DEF Lands
<1> QED BY <1>1, <1>2, <1>3, <1>4, <1>5 DEF Lands

LEMMA EditsKeep ==
    ASSUME ListsInv, PlayInv, NEW t, EditsSlices(t)
    PROVE  ListsInv' /\ NoStir
<1>1. \A new \in play.sets : new # "active"
  BY DEF PlayInv, PlayType
<1> QED BY <1>1, UpdateKeeps, MoveKeeps, InsertKeeps DEF EditsSlices

(* A claim stirs the tree of its unit and no other. It keeps that one coherent
   when the slice it takes is the one that decides. *)
LEMMA ClaimLists ==
    ASSUME ListsInv, NEW t, NEW id, queue_v2_claim(t, id)
    PROVE  /\ ListsInv'
           /\ \A x : x # t /\ QuietAt(x) => QuietAt(x)'
           /\ \A x \in DOMAIN items : x # t /\ Coherent(x) => Coherent(x)'
           /\ id = None => CoherentKept
           /\ Open(items[t]) # {} /\ Pos(t, id) = Min(Open(items[t])) => CoherentKept
<1>1. CASE id = None
  <2>1. ListsInv' /\ NoStir /\ CoherentKept
    BY <1>1, ListsStand DEF queue_v2_claim
  <2> QED BY <2>1 DEF NoStir, CoherentKept
<1>2. CASE id # None
  <2> DEFINE l == items[t]
             i == Pos(t, id)
             r == [Item(t, id) EXCEPT !.status = "active"]
             k == [l EXCEPT ![i] = r]
  <2>1. /\ i # 0 /\ items' = SetItem(t, id, r)
        /\ \A j \in DOMAIN l : j # i => l[j].status # "active"
    BY <1>2 DEF queue_v2_claim, ClaimOk
  <2>2. t \in DOMAIN items /\ i \in DOMAIN l /\ l[i] = Item(t, id) /\ ListOk(l)
    BY <2>1, PosIn DEF Item, ListsInv
  <2>3. items' = [items EXCEPT ![t] = k]
    BY <2>1, <2>2 DEF SetItem
  <2>4. r = [id |-> l[i].id, sub |-> l[i].sub, status |-> "active", ups |-> l[i].ups]
    BY <2>2 DEF ListOk, IsItem
  <2> HIDE DEF l, i, r
  <2>5. IsItem(r) /\ r.id = l[i].id /\ r.status = "active"
    BY <2>4 DEF IsItem
  <2>6. /\ ListOk(k) /\ DOMAIN k = DOMAIN l /\ k[i] = r
        /\ \A j \in DOMAIN l : j # i => k[j] = l[j]
    BY <2>1, <2>2, <2>5, ItemWritten
  <2> HIDE DEF k
  <2>7. /\ ListsInv'
        /\ DOMAIN items' = DOMAIN items
        /\ \A x \in DOMAIN items : x # t => items'[x] = items[x]
        /\ (CoherentList(l) => CoherentList(k)) => CoherentKept
    BY <2>2, <2>3, <2>6, TreeWritten DEF l
  <2>8. Open(l) # {} /\ i = Min(Open(l)) => CoherentList(k)
    <3> SUFFICES ASSUME Open(l) # {}, i = Min(Open(l)) PROVE CoherentList(k)
      OBVIOUS
    <3>1. Open(l) \in SUBSET Nat
      BY <2>2, ListDomain DEF Open
    <3>2. \A j \in Open(l) : i <= j
      BY <3>1, LeastMember
    <3>3. Open(k) \subseteq Open(l) \cup {i}
      BY <2>6 DEF Open
    <3>4. \A j \in DOMAIN k : k[j].status = "active" => j = i
      BY <2>1, <2>6
    <3>5. i <= i
      BY <2>2, ListDomain
    <3> QED BY <3>2, <3>3, <3>4, <3>5 DEF CoherentList
  <2>9. \A x : x # t /\ QuietAt(x) => QuietAt(x)'
    BY <2>7 DEF QuietAt, Quiet
  <2>10. \A x \in DOMAIN items : x # t /\ Coherent(x) => Coherent(x)'
    BY <2>7 DEF Coherent, OpenItems
  <2> QED BY <1>2, <2>7, <2>8, <2>9, <2>10 DEF l, i
<1> QED BY <1>1, <1>2

----------------------------------------------------------------------------
(* Which steps make an entry active, and which stir a slice list. *)

PendInv == \A e \in Entries : rows[e].pending = None \/ rows[e].pending # "active"
WakesOnly(x) ==
    \A e \in Entries : e # x /\ rows'[e].status = "active" => rows[e].status = "active"

LEMMA RowPut ==
    ASSUME RowsInv, PendInv, NEW k \in Entries, NEW s, NEW p, NEW u,
           p = None \/ p # "active",
           rows' = [rows EXCEPT ![k] = [status |-> s, pending |-> p, ups |-> u]]
    PROVE  /\ PendInv' /\ WakesOnly(k) /\ rows'[k].status = s
           /\ (s = "active" => rows[k].status = "active") => WakesOnly(None)
<1>1. DOMAIN rows = Entries
  BY DEF RowsInv
<1>2. rows'[k] = [status |-> s, pending |-> p, ups |-> u]
  BY <1>1
<1>3. \A e \in Entries : e # k => rows'[e] = rows[e]
  BY <1>1
<1> QED BY <1>2, <1>3 DEF PendInv, WakesOnly

LEMMA RowsAsleep ==
    ASSUME PendInv, UNCHANGED rows, NEW x
    PROVE  PendInv' /\ WakesOnly(x)
BY DEF PendInv, WakesOnly

LEMMA SetEntryWakes ==
    ASSUME RowsInv, PendInv, NEW e, NEW new, new # "active", SetEntry(e, new)
    PROVE  /\ PendInv' /\ WakesOnly(None)
           /\ e \in Entries => rows'[e].status # "active"
<1>1. CASE e \notin Entries
  <2>1. UNCHANGED rows
    BY <1>1 DEF SetEntry, RowsInv
  <2> QED BY <1>1, <2>1, RowsAsleep
<1>2. CASE e \in Entries
  <2>1. EntryLands(e, new) # "active"
    BY <1>2 DEF EntryLands, PendInv
  <2>3. PendInv' /\ WakesOnly(None) /\ rows'[e].status = EntryLands(e, new)
    BY <1>2, <2>1, SetEntryRow, RowPut
  <2> QED BY <2>1, <2>3
<1> QED BY <1>1, <1>2

LEMMA FollowUpsWake ==
    ASSUME RowsInv, PendInv, NEW t, NEW id, NEW n, queue_v2_follow_ups(t, id, n)
    PROVE  PendInv' /\ WakesOnly(None)
<1> DEFINE e == Top(t)
<1>1. CASE id # None
  BY <1>1, RowsAsleep DEF queue_v2_follow_ups
<1>2. CASE id = None
  <2>1. rows' = [rows EXCEPT ![e].ups = n]
    BY <1>2 DEF queue_v2_follow_ups
  <2> HIDE DEF e
  <2>2. CASE e \notin Entries
    <3>1. UNCHANGED rows
      BY <2>1, <2>2 DEF RowsInv
    <3> QED BY <3>1, RowsAsleep
  <2>3. CASE e \in Entries
    <3>1. rows[e].pending = None \/ rows[e].pending # "active"
      BY <2>3 DEF PendInv
    <3> DEFINE s == rows[e].status
               p == rows[e].pending
               u == n
    <3>2. rows' = [rows EXCEPT ![e] = [status |-> s, pending |-> p, ups |-> u]]
      BY <2>1, <2>3, UpsRow
    <3> HIDE DEF s, p, u
    <3>3. PendInv' /\ ((s = "active" => rows[e].status = "active") => WakesOnly(None))
      BY <2>3, <3>1, <3>2, RowPut DEF p
    <3> QED BY <3>3 DEF s
  <2> QED BY <2>2, <2>3
<1> QED BY <1>1, <1>2

LEMMA ClaimWakes ==
    ASSUME RowsInv, PendInv, NEW t, NEW id, Top(t) \in Entries, queue_v2_claim(t, id)
    PROVE  PendInv' /\ WakesOnly(Top(t))
<1> DEFINE e == Top(t)
<1>1. rows' = [rows EXCEPT ![e].status = "active"]
  BY DEF queue_v2_claim
<1> HIDE DEF e
<1>2. e \in Entries /\ (rows[e].pending = None \/ rows[e].pending # "active")
  BY DEF PendInv, e
<1>3. PendInv' /\ WakesOnly(e)
  <2> DEFINE s == "active"
             p == rows[e].pending
             u == rows[e].ups
  <2>1. rows' = [rows EXCEPT ![e] = [status |-> s, pending |-> p, ups |-> u]]
    BY <1>1, <1>2, ClaimRow
  <2> HIDE DEF s, p, u
  <2> QED BY <1>2, <2>1, RowPut DEF p
<1> QED BY <1>3 DEF e

LEMMA HumanWakes ==
    ASSUME RowsInv, PendInv, NEW e \in Entries,
           queue_drop(e) \/ \E new : new \notin {"active", "paused"} /\ queue_update_entry(e, new)
    PROVE  PendInv' /\ WakesOnly(None)
<1>1. PICK s, p :
        /\ rows' = [rows EXCEPT ![e] = [status |-> s, pending |-> p, ups |-> rows[e].ups]]
        /\ p = None \/ p # "active"
        /\ s = "active" => rows[e].status = "active"
  <2>1. rows[e].pending = None \/ rows[e].pending # "active"
    BY DEF PendInv
  <2>2. CASE queue_drop(e)
    BY <2>1, <2>2, DropRow
  <2>3. ASSUME NEW new, new # "active", queue_update_entry(e, new)
        PROVE  \E s, p :
                 /\ rows' = [rows EXCEPT ![e] = [status |-> s, pending |-> p, ups |-> rows[e].ups]]
                 /\ p = None \/ p # "active"
                 /\ s = "active" => rows[e].status = "active"
    BY <2>1, <2>3, UpdateRow
  <2> QED BY <2>2, <2>3
<1> DEFINE u == rows[e].ups
<1>2. rows' = [rows EXCEPT ![e] = [status |-> s, pending |-> p, ups |-> u]]
  BY <1>1
<1>4. p = None \/ p # "active"
  BY <1>1
<1> HIDE DEF u
<1>3. PendInv' /\ ((s = "active" => rows[e].status = "active") => WakesOnly(None))
  BY <1>2, <1>4, RowPut
<1> QED BY <1>1, <1>3

(* A write of a handoff makes no entry active. *)
LEMMA LandsWakes ==
    ASSUME RowsInv, PendInv, NEW o, Lands(o), o.op = "entry" => o.arg # "active"
    PROVE  PendInv' /\ WakesOnly(None)
<1>1. CASE o.op = "entry"
  BY <1>1, SetEntryWakes DEF Lands
<1>2. CASE o.op = "ups"
  BY <1>2, FollowUpsWake DEF Lands
<1>3. CASE UNCHANGED rows
  BY <1>3, RowsAsleep
<1> QED BY <1>1, <1>2, <1>3 DEF Lands, SetUnit, slice_insert, queue_v2_add_sub

(* A pause that lands leaves its entry inactive; one that does not is owed. *)
LEMMA PauseWakes ==
    ASSUME RowsInv, PendInv, ListsInv, toPause \in [Entries -> Agents \cup {None}],
           NEW e \in Entries, NEW a \in Agents, pause_v2_entry(e, a)
    PROVE  /\ PendInv' /\ WakesOnly(None) /\ ListsInv' /\ NoStir
           /\ rows'[e].status # "active" \/ toPause'[e] = a
           /\ \A x \in Entries : x # e => toPause'[x] = toPause[x]
<1>1. ListsInv' /\ NoStir
  BY ListsStand DEF pause_v2_entry, SetEntry, queueVars
<1>2. PendInv' /\ WakesOnly(None)
  BY SetEntryWakes, RowsAsleep DEF pause_v2_entry, queueVars
<1>3. rows'[e].status # "active" \/ toPause'[e] = a
  BY SetEntryWakes DEF pause_v2_entry
<1>4. \A x \in Entries : x # e => toPause'[x] = toPause[x]
  BY DEF pause_v2_entry
<1> QED BY <1>1, <1>2, <1>3, <1>4

----------------------------------------------------------------------------
(* The rest of the invariant: what the last two properties need. *)

(* A unit that is assigned is in a tree of its entry. *)
UnitInv ==
    \A a \in Agents : asg[a] # NoAsg => Top(asg[a].unit.at) = asg[a].entry

(* The writes a handoff has still to do make nothing active, and an insert
   finds its list quiet: the write before it has put the session's slice back
   in the queue, or will, or its session has been warned. *)
WriteOk(h, i) ==
    /\ h.ops[i].op \in {"entry", "unit"} => h.ops[i].arg # "active"
    /\ h.ops[i].op = "insert" =>
         /\ Top(h.ops[i].at) = h.asg.entry
         /\ i = 1 => h.warned \/ QuietAt(h.ops[i].at)
         /\ i # 1 => Clears(h.ops[i - 1], h.ops[i].at)
PlanOk(h) == \A i \in DOMAIN h.ops : WriteOk(h, i)
PlanAt(a) == handoff[a].state # "none" => PlanOk(handoff[a])
PlanInv == \A a \in Agents : PlanAt(a)

(* While the starts run, an entry a member has handed off is laid over some
   member: one whose pause is owed, or that has handed it off too; or the
   entry is not active any more, or that member has had its turn. *)
HeldFor(e) ==
    LET h == tick.view.holder[e]
    IN  /\ h \in Agents
        /\ \/ toPause[e] # None
           \/ rolled[h] = e
           \/ rows[e].status # "active"
           \/ h \notin Range(tick.todo)
KeptInv ==
    tick.pc = "start" =>
      \A a \in Agents, e \in Entries :
         rolled[a] = e /\ tick.view.status[e] = "active" => HeldFor(e)

FullInv == IInv /\ PendInv /\ ListsInv /\ UnitInv /\ PlanInv /\ KeptInv

(* A step of the tables that wakes no entry and stirs no list; a claim, which
   does it for the entry its member has picked alone. *)
Calm == PendInv' /\ ListsInv' /\ WakesOnly(None) /\ NoStir
ClaimingStep(b) == StartHeld(b) \/ SpawnFails(b) \/ Starts(b)
Claims(b) ==
    /\ ClaimingStep(b) /\ PendInv' /\ ListsInv'
    /\ WakesOnly(pick_v2(tick.view, b))
    /\ \A t : Top(t) # pick_v2(tick.view, b) /\ QuietAt(t) => QuietAt(t)'

LEMMA CalmStands ==
    ASSUME FullInv, UNCHANGED queueVars
    PROVE  Calm
BY RowsAsleep, ListsStand DEF FullInv, Calm, queueVars

LEMMA ClaimStep ==
    ASSUME FullInv, NEW b \in Agents, ClaimingStep(b),
           LET u == next_unit(tick.view, pick_v2(tick.view, b))
           IN  queue_v2_claim(u.at, SliceId(u))
    PROVE  Claims(b)
<1> DEFINE e == pick_v2(tick.view, b)
           u == next_unit(tick.view, e)
<1>1. Top(u.at) = e /\ e \in Entries
  BY StartingTakes DEF ClaimingStep, StartHeld, SpawnFails, Starts
<1>2. queue_v2_claim(u.at, SliceId(u))
  OBVIOUS
<1> HIDE DEF u, e
<1>3. PendInv' /\ WakesOnly(e)
  BY <1>1, <1>2, ClaimWakes DEF FullInv, IInv
<1>4. ListsInv' /\ \A t : t # u.at /\ QuietAt(t) => QuietAt(t)'
  BY <1>2, ClaimLists DEF FullInv
<1> QED BY <1>1, <1>3, <1>4 DEF Claims, e

(* The head of the writes of a handoff is one that may be done. *)
LEMMA HeadWrite ==
    ASSUME FullInv, NEW a \in Agents, handoff[a].state = "writes", handoff[a].ops # <<>>
    PROVE  /\ WriteOk(handoff[a], 1)
           /\ Head(handoff[a].ops) = handoff[a].ops[1]
           /\ 1 \in DOMAIN handoff[a].ops
<1>1. handoff[a].ops \in Seq(Range(handoff[a].ops))
  BY DEF FullInv, IInv, HandoffInv, OwnOps
<1>2. 1 \in DOMAIN handoff[a].ops /\ Head(handoff[a].ops) = handoff[a].ops[1]
  BY <1>1
<1> QED BY <1>2 DEF FullInv, PlanInv, PlanAt, PlanOk

LEMMA TablesStep ==
    ASSUME FullInv, Next
    PROVE  Calm \/ \E b \in Agents : Claims(b)
<1>1. ASSUME UNCHANGED queueVars PROVE Calm
  BY <1>1, CalmStands
<1>2. ASSUME NEW e \in Entries, HumanSetsEntry(e) \/ HumanDrops(e) PROVE Calm
  <2>1. queue_drop(e) \/ \E new : new \notin {"active", "paused"} /\ queue_update_entry(e, new)
    BY <1>2 DEF HumanSetsEntry, HumanDrops, FullInv, IInv, PlayInv, PlayType
  <2>2. UNCHANGED items
    BY <2>1 DEF queue_drop, queue_update_entry
  <2> QED BY <2>1, <2>2, HumanWakes, ListsStand DEF FullInv, IInv, Calm
<1>3. ASSUME NEW t \in DOMAIN items, HumanEditsSlices(t) PROVE Calm
  <2>1. EditsSlices(t)
    BY <1>3 DEF HumanEditsSlices
  <2>2. UNCHANGED rows
    BY <2>1 DEF EditsSlices, UpdateSlice, MoveSlice, slice_insert
  <2> QED BY <2>1, <2>2, EditsKeep, RowsAsleep DEF FullInv, IInv, Calm
<1>4. ASSUME NEW a \in Agents, VerbWrites(a) PROVE Calm
  <2> DEFINE o == Head(handoff[a].ops)
  <2>1. UNCHANGED queueVars \/ Lands(o)
    BY <1>4 DEF VerbWrites
  <2>2. o.op \in {"entry", "unit"} => o.arg # "active"
    BY <1>4, HeadWrite DEF VerbWrites, WriteOk
  <2> HIDE DEF o
  <2>3. CASE Lands(o)
    BY <2>2, <2>3, LandsLists, LandsWakes DEF FullInv, IInv, Calm
  <2> QED BY <2>1, <2>3, <1>1
<1>5. ASSUME NEW a \in Agents, PollStep(a) PROVE Calm
  <2>1. ASSUME NEW e \in Entries, pause_v2_entry(e, a) PROVE Calm
    BY <2>1, PauseWakes DEF FullInv, IInv, LoopInv, Calm
  <2>2. ASSUME park_entry_v2(asg[a].entry) PROVE Calm
    <3>1. CASE UNCHANGED queueVars
      BY <1>1, <3>1
    <3>2. CASE SetEntry(asg[a].entry, "blocked")
      <4>1. PendInv' /\ WakesOnly(None)
        BY <3>2, SetEntryWakes DEF FullInv, IInv
      <4> QED BY <3>2, <4>1, ListsStand DEF SetEntry, FullInv, Calm
    <3> QED BY <2>2, <3>1, <3>2 DEF park_entry_v2
  <2>3. CASE PollQuiet(a) \/ PollDown(a) \/ PollParked(a) \/ PollLeaves(a)
    BY <1>1, <2>3 DEF PollQuiet, PollDown, PollParked, PollLeaves
  <2>4. CASE PollBlocks(a)
    BY <1>1, <2>2, <2>4 DEF PollBlocks
  <2>5. CASE PollRefused(a)
    <3>1. CASE asg[a] = NoAsg
      BY <1>1, <2>5, <3>1 DEF PollRefused, queueVars
    <3>2. CASE asg[a] # NoAsg
      <4>1. asg[a].entry \in Entries /\ pause_v2_entry(asg[a].entry, a)
        BY <2>5, <3>2, WorkHasEntry DEF PollRefused, HasWork, FullInv, IInv
      <4> QED BY <2>1, <4>1
    <3> QED BY <3>1, <3>2
  <2>6. CASE end_handed_off_session(a)
    <3>1. handoff[a].asg.entry \in Entries
      <4>1. HasWork(a) /\ handoff[a].asg = asg[a]
        BY <2>6 DEF end_handed_off_session, FullInv, IInv, HandoffInv
      <4> QED BY <4>1, WorkHasEntry DEF HasWork, FullInv, IInv
    <3> QED BY <1>1, <2>1, <2>6, <3>1 DEF end_handed_off_session
  <2> QED BY <1>5, <2>3, <2>4, <2>5, <2>6 DEF PollStep
<1>6. ASSUME NEW e \in Entries, RetriesPause(e) PROVE Calm
  <2>1. toPause[e] \in Agents /\ pause_v2_entry(e, toPause[e])
    BY <1>6 DEF RetriesPause, FullInv, IInv, LoopInv, TickInv
  <2> QED BY <2>1, PauseWakes DEF FullInv, IInv, LoopInv, Calm
<1>7. ASSUME NEW a \in Agents, StartPauses(a) PROVE Calm
  <2>1. rolled[a] \in Entries /\ pause_v2_entry(rolled[a], a)
    BY <1>7 DEF StartPauses, FullInv, IInv, LoopInv
  <2> QED BY <2>1, PauseWakes DEF FullInv, IInv, LoopInv, Calm
<1>8. ASSUME NEW a \in Agents, ClaimingStep(a)
      PROVE  Calm \/ Claims(a)
  <2>1. \/ UNCHANGED queueVars
        \/ LET u == next_unit(tick.view, pick_v2(tick.view, a))
           IN  queue_v2_claim(u.at, SliceId(u))
    BY <1>8 DEF ClaimingStep, StartHeld, SpawnFails, Starts
  <2> QED BY <1>1, <1>8, <2>1, ClaimStep
<1>9. CASE \E a \in Agents : StartSkips(a) \/ VerbBegins(a) \/ VerbLogs(a) \/ VerbAborts(a)
                             \/ VerbCommits(a) \/ RequestStop(a)
  BY <1>1, <1>9 DEF StartSkips, VerbBegins, VerbLogs, VerbAborts, VerbCommits, RequestStop
<1>10. CASE \/ \E open \in BOOLEAN : LoadsList(open)
            \/ LoadFails
            \/ \E members \in SUBSET Agents : Rerolls(members)
            \/ GateShut \/ Publishes \/ Restart
  BY <1>1, <1>10 DEF LoadsList, LoadFails, Rerolls, GateShut, Publishes, Restart
<1> QED
  BY <1>2, <1>3, <1>4, <1>5, <1>6, <1>7, <1>8, <1>9, <1>10
     DEF Next, LoopStep, StartStep, ClaimingStep, VerbStep

----------------------------------------------------------------------------
(* The writes of a handoff, and the assignments. *)

(* What an assignment may become. *)
LEMMA AsgStep ==
    ASSUME FullInv, Next, NEW b \in Agents
    PROVE  \/ asg'[b] = asg[b]
           \/ asg'[b] = NoAsg
           \/ Starts(b) /\ LET e == pick_v2(tick.view, b)
                           IN  asg'[b] = [entry |-> e, unit |-> next_unit(tick.view, e)]
<1> DEFINE e == pick_v2(tick.view, b)
           Goal == \/ asg'[b] = asg[b]
                   \/ asg'[b] = NoAsg
                   \/ Starts(b) /\ asg'[b] = [entry |-> e, unit |-> next_unit(tick.view, e)]
<1>0. DOMAIN asg = Agents
  BY DEF FullInv, IInv, LoopInv
<1>1. ASSUME NEW a \in Agents, asg' = [asg EXCEPT ![a] = NoAsg] PROVE Goal
  BY <1>0, <1>1
<1>2. ASSUME NEW a \in Agents, PollStep(a) PROVE Goal
  BY <1>1, <1>2 DEF PollStep, PollQuiet, end_handed_off_session, PollDown, PollParked, PollLeaves,
                    PollBlocks, PollRefused
<1>3. ASSUME NEW a \in Agents, Starts(a) PROVE Goal
  <2> DEFINE r == [entry |-> pick_v2(tick.view, a),
                   unit |-> next_unit(tick.view, pick_v2(tick.view, a))]
  <2>1. asg' = [asg EXCEPT ![a] = r]
    BY <1>3 DEF Starts
  <2> HIDE DEF r
  <2>2. a # b => asg'[b] = asg[b]
    BY <1>0, <2>1
  <2>3. a = b => asg'[b] = r
    BY <1>0, <2>1
  <2> QED BY <1>3, <2>2, <2>3 DEF r
<1>4. ASSUME UNCHANGED asg PROVE Goal
  BY <1>4
<1>5. ASSUME NEW a \in Agents, StartStep(a) PROVE Goal
  BY <1>3, <1>4, <1>5 DEF StartStep, StartSkips, StartPauses, StartHeld, SpawnFails, loopVars
<1>6. ASSUME NEW a \in Agents, VerbBegins(a) \/ VerbStep(a) \/ RequestStop(a) PROVE Goal
  BY <1>4, <1>6 DEF VerbBegins, VerbStep, VerbLogs, VerbAborts, VerbWrites, VerbCommits,
                    RequestStop, loopVars
<1>7. CASE Restart
  BY <1>7 DEF Restart
<1>8. CASE \/ \E open \in BOOLEAN : LoadsList(open)
           \/ LoadFails
           \/ \E x \in Entries : RetriesPause(x)
           \/ \E members \in SUBSET Agents : Rerolls(members)
           \/ GateShut \/ Publishes
  BY <1>4, <1>8 DEF LoadsList, LoadFails, RetriesPause, Rerolls, GateShut, Publishes, loopVars
<1>9. CASE \/ \E x \in Entries : HumanSetsEntry(x) \/ HumanDrops(x)
           \/ \E t \in DOMAIN items : HumanEditsSlices(t)
  BY <1>4, <1>9 DEF HumanSetsEntry, HumanDrops, HumanEditsSlices, loopVars
<1> QED BY <1>2, <1>5, <1>6, <1>7, <1>8, <1>9 DEF Next, LoopStep

LEMMA UnitStep ==
    ASSUME FullInv, Next
    PROVE  UnitInv'
<1> SUFFICES ASSUME NEW b \in Agents, asg'[b] # NoAsg
             PROVE  Top(asg'[b].unit.at) = asg'[b].entry
  BY DEF UnitInv
<1>1. CASE asg'[b] = asg[b]
  BY <1>1 DEF FullInv, UnitInv
<1>2. CASE Starts(b) /\ asg'[b] = [entry |-> pick_v2(tick.view, b),
                                   unit |-> next_unit(tick.view, pick_v2(tick.view, b))]
  <2>1. Starting(b)
    BY <1>2 DEF Starts
  <2> QED BY <1>2, <2>1, StartingTakes
<1> QED BY <1>1, <1>2, AsgStep

(* A plan with no insert. *)
LEMMA PlainOk ==
    ASSUME NEW S, NEW h, h.ops \in Seq(S), NEW e, \A o \in S : Plain(o, e)
    PROVE  PlanOk(h)
<1>1. \A i \in DOMAIN h.ops : h.ops[i] \in S
  OBVIOUS
<1> QED BY <1>1 DEF PlanOk, WriteOk, Plain

(* The plan a verb begins with, and the pending change behind it. *)
LEMMA PlanBegins ==
    ASSUME NEW m, Top(m.unit.at) = m.entry, NEW verb \in VerbKinds, NEW slug, NEW end, NEW more,
           more = <<>> \/ \E x : x # "active" /\ more = <<SetEntryOp(m.entry, x)>>,
           NEW h, h.asg = m, h.ops = Writes(m, verb, slug, end) \o more
    PROVE  PlanOk(h)
<1>1. PICK S : Planned(Writes(m, verb, slug, end), S, m, verb)
  BY PlanForms
<1>2. PICK x : x # "active" /\ more \in {<<>>, <<SetEntryOp(m.entry, x)>>}
  <2>1. "done" # "active"
    OBVIOUS
  <2> QED BY <2>1
<1> DEFINE pend == SetEntryOp(m.entry, x)
           ins == InsertOp(m.unit)
           T == S \cup {pend}
           w == Writes(m, verb, slug, end)
<1>3. \A o \in T : Plain(o, m.entry)
  BY <1>1, <1>2 DEF Planned, Plain, SetEntryOp
<1>4. ins.op = "insert" /\ ins.at = m.unit.at
  BY DEF InsertOp
<1>5. more \in {<<>>, <<pend>>}
  BY <1>2
<1> HIDE DEF pend, ins, w
<1>6. more \in Seq(T) /\ pend \in T
  <2>1. pend \in T
    OBVIOUS
  <2> HIDE DEF T
  <2>2. <<>> \in Seq(T) /\ <<pend>> \in Seq(T)
    BY <2>1
  <2> QED BY <1>5, <2>1, <2>2, Zenon
<1>7. ASSUME verb # "new_scope" PROVE PlanOk(h)
  <2>1. w \in Seq(T)
    <3>1. w \in Seq(S) /\ S \subseteq T
      BY <1>1, <1>7 DEF Planned, w
    <3> HIDE DEF T
    <3> QED BY <3>1
  <2>2. w \o more \in Seq(T)
    <3> HIDE DEF T
    <3> QED BY <1>6, <2>1, ConcatProperties
  <2>3. h.ops \in Seq(T)
    BY <2>2 DEF w
  <2> HIDE DEF T
  <2> QED BY <1>3, <2>3, PlainOk
<1>8. ASSUME verb = "new_scope" PROVE PlanOk(h)
  <2>1. PICK b \in S, n \in S : w = <<b, ins, n>> /\ Clears(b, m.unit.at)
    BY <1>1, <1>8 DEF Planned, w, ins
  <2>2. Plain(b, m.entry) /\ Plain(n, m.entry) /\ Plain(pend, m.entry)
    BY <1>1, <1>3, <1>6 DEF Planned
  <2> DEFINE R == {b, ins, n, pend}
             s == <<b, ins, n>>
  <2>3. s \in Seq(R) /\ Len(s) = 3 /\ s[1] = b /\ s[2] = ins /\ s[3] = n
    OBVIOUS
  <2>4. more \in Seq(R) /\ Len(more) \in {0, 1} /\ (Len(more) = 1 => more[1] = pend)
    <3>1. pend \in R
      OBVIOUS
    <3> HIDE DEF R
    <3>2. CASE more = <<>>
      BY <3>2
    <3>3. CASE more = <<pend>>
      BY <3>1, <3>3
    <3> QED BY <1>5, <3>2, <3>3
  <2>5. h.ops = s \o more
    BY <2>1 DEF w
  <2>6. DOMAIN h.ops \subseteq {1, 2, 3, 4} /\ h.ops[1] = b /\ h.ops[2] = ins
        /\ h.ops[3] = n /\ (4 \in DOMAIN h.ops => h.ops[4] = pend)
    <3> HIDE DEF R, s
    <3>1. /\ s \o more \in Seq(R) /\ Len(s \o more) = Len(s) + Len(more)
          /\ \A i \in 1 .. Len(s) + Len(more) :
                (s \o more)[i] = IF i <= Len(s) THEN s[i] ELSE more[i - Len(s)]
      BY <2>3, <2>4, ConcatProperties
    <3> DEFINE v == s \o more
    <3>2. DOMAIN v = 1 .. Len(v)
      BY <3>1
    <3> HIDE DEF v
    <3> QED BY <2>3, <2>4, <2>5, <3>1, <3>2 DEF v
  <2>7. ASSUME NEW i \in DOMAIN h.ops PROVE WriteOk(h, i)
    <3>1. i = 2 => WriteOk(h, i)
      BY <1>4, <2>1, <2>6 DEF WriteOk
    <3>2. i # 2 => Plain(h.ops[i], m.entry)
      BY <2>2, <2>6
    <3> QED BY <3>1, <3>2 DEF WriteOk, Plain
  <2> QED BY <2>7 DEF PlanOk
<1> QED BY <1>7, <1>8

(* A plan stays as good as it is while what it still has to write stands. *)
LEMMA PlanStays ==
    ASSUME NEW h, NEW g, g.asg = h.asg, g.ops = h.ops, h.warned => g.warned, PlanOk(h),
           \A t : Top(t) = h.asg.entry /\ QuietAt(t) => QuietAt(t)'
    PROVE  PlanOk(g)'
<1> SUFFICES ASSUME NEW i \in DOMAIN h.ops
             PROVE  WriteOk(g, i)'
  BY DEF PlanOk
<1>1. WriteOk(h, i)
  BY DEF PlanOk
<1> QED BY <1>1 DEF WriteOk

(* A step leaves the lists of a session's own entry as quiet as they are. *)
LEMMA OwnQuiet ==
    ASSUME FullInv, Next, NEW a \in Agents, handoff[a].state # "none"
    PROVE  \A t : Top(t) = handoff[a].asg.entry /\ QuietAt(t) => QuietAt(t)'
<1>1. CASE Calm
  BY <1>1 DEF Calm, NoStir
<1>2. ASSUME NEW b \in Agents, Claims(b)
      PROVE  \A t : Top(t) = handoff[a].asg.entry /\ QuietAt(t) => QuietAt(t)'
  <2>1. ~SpokenFor(pick_v2(tick.view, b))
    BY <1>2 DEF Claims, ClaimingStep, StartHeld, SpawnFails, Starts, Starting
  <2>2. handoff[a].asg = asg[a]
    BY DEF FullInv, IInv, HandoffInv
  <2>3. handoff[a].asg.entry # pick_v2(tick.view, b)
    BY <2>1, <2>2 DEF SpokenFor, Holds
  <2> QED BY <1>2, <2>3 DEF Claims
<1> QED BY <1>1, <1>2, TablesStep

(* What a handoff may become. *)
LEMMA HandoffStep ==
    ASSUME FullInv, Next, NEW b \in Agents
    PROVE  \/ handoff'[b] = handoff[b]
           \/ handoff'[b] = NoHandoff
           \/ VerbBegins(b) \/ VerbLogs(b) \/ VerbCommits(b) \/ VerbWrites(b)
<1> DEFINE Goal == \/ handoff'[b] = handoff[b]
                   \/ handoff'[b] = NoHandoff
                   \/ VerbBegins(b) \/ VerbLogs(b) \/ VerbCommits(b) \/ VerbWrites(b)
<1>0. DOMAIN handoff = Agents
  BY DEF FullInv, IInv, HandoffInv
<1>1. ASSUME NEW a \in Agents, handoff' = [handoff EXCEPT ![a] = NoHandoff] PROVE Goal
  BY <1>0, <1>1
<1>2. ASSUME NEW a \in Agents, PollStep(a) PROVE Goal
  BY <1>1, <1>2 DEF PollStep, PollQuiet, end_handed_off_session, PollDown, PollParked, PollLeaves,
                    PollBlocks, PollRefused
<1>3. ASSUME NEW a \in Agents, NEW r, handoff' = [handoff EXCEPT ![a] = r]
      PROVE  a = b \/ handoff'[b] = handoff[b]
  BY <1>0, <1>3
<1>4. ASSUME NEW a \in Agents, VerbBegins(a) \/ VerbLogs(a) \/ VerbCommits(a) PROVE Goal
  <2>1. \E r : handoff' = [handoff EXCEPT ![a] = r]
    BY <1>4 DEF VerbBegins, VerbLogs, VerbCommits
  <2> QED BY <1>3, <1>4, <2>1
<1>5. ASSUME NEW a \in Agents, VerbWrites(a) PROVE Goal
  <2>1. \E r : handoff' = [handoff EXCEPT ![a] = r]
    BY <1>5 DEF VerbWrites
  <2> QED BY <1>3, <1>5, <2>1
<1>6. ASSUME UNCHANGED handoff PROVE Goal
  BY <1>6
<1>7. ASSUME NEW a \in Agents, VerbAborts(a) \/ RequestStop(a) PROVE Goal
  BY <1>1, <1>6, <1>7 DEF VerbAborts, RequestStop
<1>8. ASSUME NEW a \in Agents, StartStep(a) PROVE Goal
  BY <1>6, <1>8 DEF StartStep, StartSkips, StartPauses, StartHeld, SpawnFails, Starts
<1>9. CASE Restart
  BY <1>9 DEF Restart
<1>10. CASE \/ \E open \in BOOLEAN : LoadsList(open)
            \/ LoadFails
            \/ \E x \in Entries : RetriesPause(x)
            \/ \E members \in SUBSET Agents : Rerolls(members)
            \/ GateShut \/ Publishes
  BY <1>6, <1>10 DEF LoadsList, LoadFails, RetriesPause, Rerolls, GateShut, Publishes
<1>11. CASE \/ \E x \in Entries : HumanSetsEntry(x) \/ HumanDrops(x)
            \/ \E t \in DOMAIN items : HumanEditsSlices(t)
  BY <1>6, <1>11 DEF HumanSetsEntry, HumanDrops, HumanEditsSlices
<1> QED BY <1>2, <1>4, <1>5, <1>7, <1>8, <1>9, <1>10, <1>11 DEF Next, LoopStep, VerbStep

(* What is left of a plan after its first write is as good: an insert that
   comes first now has been cleared the way for, or there is a warning. *)
LEMMA PlanTail ==
    ASSUME ListsInv, NEW h, h.ops \in Seq(Range(h.ops)), h.ops # <<>>, PlanOk(h),
           NEW g, g.asg = h.asg, g.ops = Tail(h.ops),
           g.warned \/ Lands(Head(h.ops))
    PROVE  PlanOk(g)'
<1> DEFINE o == Head(h.ops)
<1>1. /\ DOMAIN h.ops = 1 .. Len(h.ops) /\ Len(h.ops) \in Nat /\ Len(h.ops) >= 1
      /\ o = h.ops[1]
  OBVIOUS
<1>2. /\ Len(Tail(h.ops)) = Len(h.ops) - 1
      /\ \A i \in 1 .. Len(Tail(h.ops)) : Tail(h.ops)[i] = h.ops[i + 1]
      /\ DOMAIN Tail(h.ops) = 1 .. Len(Tail(h.ops))
  BY HeadTailProperties, <1>1
<1> SUFFICES ASSUME NEW i \in DOMAIN g.ops
             PROVE  WriteOk(g, i)'
  BY DEF PlanOk
<1>3. /\ i \in Nat /\ i + 1 \in DOMAIN h.ops /\ i + 1 # 1 /\ g.ops[i] = h.ops[i + 1]
      /\ i # 1 => g.ops[i - 1] = h.ops[i]
      /\ (i + 1) - 1 = i
  BY <1>1, <1>2
<1>4. WriteOk(h, i + 1)
  BY <1>3 DEF PlanOk
<1> HIDE DEF o
<1>5. ASSUME g.ops[i].op = "insert"
      PROVE  Top(g.ops[i].at) = h.asg.entry /\ Clears(h.ops[i], g.ops[i].at)
  BY <1>3, <1>4, <1>5 DEF WriteOk
<1>6. ASSUME g.ops[i].op = "insert", i = 1
      PROVE  g.warned \/ QuietAt(g.ops[i].at)'
  <2>1. Clears(o, g.ops[i].at)
    BY <1>1, <1>5, <1>6
  <2>2. CASE Lands(o)
    <3>1. QuietAt(o.at)'
      BY <2>1, <2>2, LandsLists DEF Clears
    <3>2. o.at = g.ops[i].at
      BY <2>1 DEF Clears
    <3> QED BY <3>1, <3>2
  <2> QED BY <2>2 DEF o
<1> QED BY <1>3, <1>4, <1>5, <1>6 DEF WriteOk

LEMMA PlanStep ==
    ASSUME FullInv, Next
    PROVE  PlanInv'
<1> SUFFICES ASSUME NEW a \in Agents, handoff'[a].state # "none"
             PROVE  PlanOk(handoff[a])'
  BY DEF PlanInv, PlanAt
<1>0. DOMAIN handoff = Agents
  BY DEF FullInv, IInv, HandoffInv
<1>1. PICK g : g = handoff'[a]
  OBVIOUS
<1>2. PlanOk(g)' => PlanOk(handoff[a])'
  BY <1>1 DEF PlanOk, WriteOk, QuietAt, Quiet
<1>3. handoff[a].state # "none" => PlanOk(handoff[a])
  BY DEF FullInv, PlanInv, PlanAt
<1>4. ASSUME handoff[a].state # "none", g.asg = handoff[a].asg, g.ops = handoff[a].ops,
             handoff[a].warned => g.warned
      PROVE  PlanOk(g)'
  BY <1>3, <1>4, OwnQuiet, PlanStays
<1>5. CASE handoff'[a] = handoff[a]
  BY <1>1, <1>2, <1>4, <1>5
<1>6. CASE handoff'[a] = NoHandoff
  BY <1>6 DEF NoHandoff
<1>7. CASE VerbLogs(a) \/ VerbCommits(a)
  <2>1. PICK st : handoff' = [handoff EXCEPT ![a].state = st]
    BY <1>7 DEF VerbLogs, VerbCommits
  <2>2. handoff[a].state # "none"
    BY <1>7 DEF VerbLogs, VerbCommits
  <2>3. g = [handoff[a] EXCEPT !.state = st]
    BY <1>0, <1>1, <2>1
  <2>4. /\ g.asg = handoff[a].asg /\ g.ops = handoff[a].ops
        /\ g.warned = handoff[a].warned
    <3>1. handoff[a] = [state |-> handoff[a].state, ops |-> handoff[a].ops,
                        asg |-> handoff[a].asg, continues |-> handoff[a].continues,
                        warned |-> handoff[a].warned]
      BY DEF FullInv, IInv, HandoffInv
    <3> QED BY <2>3, <3>1
  <2> QED BY <1>2, <1>4, <2>2, <2>4
<1>8. CASE VerbWrites(a)
  <2> DEFINE h == handoff[a]
  <2>1. h.state = "writes" /\ h.ops # <<>>
    BY <1>8 DEF VerbWrites
  <2>2. h.ops \in Seq(Range(h.ops)) /\ PlanOk(h)
    BY <1>3, <2>1 DEF FullInv, IInv, HandoffInv, OwnOps
  <2>3. PICK c, w :
          /\ handoff' = [handoff EXCEPT ![a] =
               [state |-> "writes", ops |-> Tail(handoff[a].ops), asg |-> handoff[a].asg,
                continues |-> c, warned |-> w]]
          /\ w = TRUE \/ (Lands(Head(handoff[a].ops)) /\ w = handoff[a].warned)
    BY <1>8, WritesShape DEF FullInv
  <2>4. g = [state |-> "writes", ops |-> Tail(h.ops), asg |-> h.asg, continues |-> c, warned |-> w]
    BY <1>0, <1>1, <2>3
  <2>5. g.asg = h.asg /\ g.ops = Tail(h.ops) /\ (g.warned \/ Lands(Head(h.ops)))
    BY <2>3, <2>4
  <2> HIDE DEF h
  <2>6. PlanOk(g)'
    BY <2>1, <2>2, <2>5, PlanTail DEF FullInv
  <2> QED BY <1>2, <2>6
<1>9. CASE VerbBegins(a)
  <2> DEFINE m == mirror[a]
  <2>1. session[a] = "live" /\ m = asg[a] /\ m.entry \in Entries /\ Top(m.unit.at) = m.entry
    <3>1. session[a] = "live" /\ m = asg[a] /\ m # NoAsg
      BY <1>9 DEF VerbBegins, FullInv, IInv, MirrorInv, OnRoll
    <3> QED BY <3>1 DEF FullInv, UnitInv, IInv, LoopInv, HasWork
  <2>2. PICK verb \in play.verbs, slug \in SubSlugs, end \in BOOLEAN :
          handoff' = [handoff EXCEPT ![a] =
            [state |-> "logs", asg |-> m, warned |-> FALSE,
             continues |-> Continues(m.unit, verb),
             ops |-> Writes(m, verb, slug, end)
                      \o (IF Continues(m.unit, verb) THEN apply_pending(m.entry) ELSE <<>>)]]
    BY <1>9 DEF VerbBegins
  <2> DEFINE c == Continues(m.unit, verb)
             more == IF c THEN apply_pending(m.entry) ELSE <<>>
             ops == Writes(m, verb, slug, end) \o more
  <2>3. verb \in VerbKinds
    BY DEF FullInv, IInv, PlayInv, PlayType
  <2>4. more = <<>> \/ \E x : x # "active" /\ more = <<SetEntryOp(m.entry, x)>>
    BY <2>1 DEF apply_pending, FullInv, PendInv
  <2>5. g = [state |-> "logs", asg |-> m, warned |-> FALSE, continues |-> c, ops |-> ops]
    BY <1>0, <1>1, <2>2
  <2>6. g.asg = m /\ g.ops = Writes(m, verb, slug, end) \o more
    BY <2>5
  <2> HIDE DEF more, m
  <2>7. PlanOk(g)
    BY <2>1, <2>3, <2>4, <2>6, PlanBegins
  <2>8. UNCHANGED items
    BY <1>9 DEF VerbBegins, queueVars
  <2>9. PlanOk(g)'
    BY <2>7, <2>8 DEF PlanOk, WriteOk, QuietAt, Quiet
  <2> QED BY <1>2, <2>9
<1> QED BY <1>5, <1>6, <1>7, <1>8, <1>9, HandoffStep

----------------------------------------------------------------------------
(* The holds laid over the entries. *)

(* A hold is good after a step as it was before when its member is still to
   start, or not, as before, and nothing it rests on is taken back. *)
LEMMA HeldStays ==
    ASSUME NEW e \in Entries, HeldFor(e), tick'.view = tick.view,
           LET h == tick.view.holder[e]
           IN  \/ toPause'[e] # None
               \/ rows'[e].status # "active"
               \/ h \notin Range(tick'.todo)
               \/ /\ toPause[e] # None => toPause'[e] # None
                  /\ rows[e].status # "active" => rows'[e].status # "active"
                  /\ rolled[h] = e => rolled'[h] = e
                  /\ h \notin Range(tick.todo) => h \notin Range(tick'.todo)
    PROVE  HeldFor(e)'
<1> DEFINE h == tick.view.holder[e]
           k == tick'.view.holder[e]
<1>1. h = k
  OBVIOUS
<1>2. /\ h \in Agents
      /\ \/ toPause[e] # None
         \/ rolled[h] = e
         \/ rows[e].status # "active"
         \/ h \notin Range(tick.todo)
  BY DEF HeldFor
<1>3. \/ toPause'[e] # None
      \/ rows'[e].status # "active"
      \/ h \notin Range(tick'.todo)
      \/ /\ toPause[e] # None => toPause'[e] # None
         /\ rows[e].status # "active" => rows'[e].status # "active"
         /\ rolled[h] = e => rolled'[h] = e
         /\ h \notin Range(tick.todo) => h \notin Range(tick'.todo)
  OBVIOUS
<1> HIDE DEF h
<1>4. /\ h \in Agents
      /\ \/ toPause'[e] # None
         \/ rolled'[h] = e
         \/ rows'[e].status # "active"
         \/ h \notin Range(tick'.todo)
  BY <1>2, <1>3
<1> HIDE DEF k
<1>5. /\ k \in Agents
      /\ \/ toPause'[e] # None
         \/ rolled'[k] = e
         \/ rows'[e].status # "active"
         \/ k \notin Range(tick'.todo)
  BY <1>1, <1>4
<1> QED BY <1>5 DEF HeldFor, k

(* While the starts go on: a claim wakes only an entry nobody else holds. *)
LEMMA StartsHold ==
    ASSUME FullInv, Next, NEW b \in Agents, StartSkips(b) \/ ClaimingStep(b),
           NEW a \in Agents, NEW e \in Entries, rolled'[a] = e, tick'.view.status[e] = "active"
    PROVE  HeldFor(e)'
<1>1. /\ tick.pc = "start" /\ tick.todo # <<>> /\ Head(tick.todo) = b
      /\ tick'.view = tick.view /\ tick'.todo = Tail(tick.todo)
  BY StartTick DEF ClaimingStep, FullInv
<1>2. Range(tick'.todo) \subseteq Range(tick.todo) /\ b \notin Range(tick'.todo)
  BY <1>1, TailTodo DEF FullInv, IInv, TodoInv
<1>3. /\ UNCHANGED toPause
      /\ rolled' = rolled \/ rolled' = [rolled EXCEPT ![b] = None]
  BY DEF ClaimingStep, StartSkips, StartHeld, SpawnFails, Starts, loopVars
<1>4. /\ \A x \in Agents : x # b => rolled'[x] = rolled[x]
      /\ rolled'[b] \in {None, rolled[b]}
  BY <1>3 DEF FullInv, IInv, LoopInv
<1>5. rolled[a] = e
  BY <1>4, QueueConstants
<1>6. HeldFor(e)
  BY <1>1, <1>5 DEF FullInv, KeptInv
<1> DEFINE h == tick.view.holder[e]
<1>7. \/ h \notin Range(tick'.todo)
      \/ rows[e].status # "active" => rows'[e].status # "active"
  <2>1. CASE Calm
    BY <2>1, QueueConstants DEF Calm, WakesOnly
  <2>2. ASSUME NEW x \in Agents, Claims(x)
        PROVE  \/ h \notin Range(tick'.todo)
               \/ rows[e].status # "active" => rows'[e].status # "active"
    <3>1. Starting(x)
      BY <2>2 DEF Claims, ClaimingStep, StartHeld, SpawnFails, Starts
    <3>2. x = b
      BY <1>1, <3>1 DEF Starting, At
    <3>3. CASE e # pick_v2(tick.view, x)
      BY <2>2, <3>3 DEF Claims, WakesOnly
    <3>4. CASE e = pick_v2(tick.view, x)
      <4>1. eligible(tick.view, x, e)
        BY <3>1, <3>4, StartingTakes
      <4>2. h \in {None, x}
        BY <1>1, <4>1 DEF eligible
      <4>3. h = b
        BY <1>6, <3>2, <4>2, FleetV2Constants DEF HeldFor
      <4> QED BY <1>2, <4>3
    <3> QED BY <3>3, <3>4
  <2> QED BY <2>1, <2>2, TablesStep
<1>8. h # b => (rolled[h] = e => rolled'[h] = e)
  BY <1>4, <1>6 DEF HeldFor
<1>9. h = b => h \notin Range(tick'.todo)
  BY <1>2
<1> QED BY <1>1, <1>2, <1>3, <1>6, <1>7, <1>8, <1>9, HeldStays

LEMMA PausesHold ==
    ASSUME FullInv, Next, NEW b \in Agents, StartPauses(b),
           NEW a \in Agents, NEW e \in Entries, rolled'[a] = e, tick'.view.status[e] = "active"
    PROVE  HeldFor(e)'
<1>1. /\ tick.pc = "start" /\ UNCHANGED tick /\ rolled[b] \in Entries
      /\ pause_v2_entry(rolled[b], b) /\ rolled' = [rolled EXCEPT ![b] = None]
  BY DEF StartPauses, At, FullInv, IInv, LoopInv
<1>2. \A x \in Agents : x # b => rolled'[x] = rolled[x]
  BY <1>1 DEF FullInv, IInv, LoopInv
<1>3. rolled'[b] = None
  BY <1>1 DEF FullInv, IInv, LoopInv
<1>4. rolled[a] = e
  BY <1>2, <1>3, QueueConstants
<1>5. HeldFor(e)
  BY <1>1, <1>4 DEF FullInv, KeptInv
<1>6. /\ WakesOnly(None)
      /\ rows'[rolled[b]].status # "active" \/ toPause'[rolled[b]] = b
      /\ \A x \in Entries : x # rolled[b] => toPause'[x] = toPause[x]
  BY <1>1, PauseWakes DEF FullInv, IInv, LoopInv
<1>7. CASE e = rolled[b]
  BY <1>1, <1>5, <1>6, <1>7, HeldStays, FleetV2Constants
<1>8. CASE e # rolled[b]
  <2> DEFINE h == tick.view.holder[e]
  <2>1. h \in Agents
    BY <1>5 DEF HeldFor
  <2>2. rolled[h] = e => rolled'[h] = e
    BY <1>2, <1>8, <2>1
  <2>3. rows[e].status # "active" => rows'[e].status # "active"
    BY <1>6, QueueConstants DEF WakesOnly
  <2>4. toPause'[e] = toPause[e]
    BY <1>6, <1>8
  <2> QED BY <1>1, <1>5, <2>2, <2>3, <2>4, HeldStays
<1> QED BY <1>7, <1>8

(* The overlay holds every entry handed off for a member that pauses it, or
   that has handed it off. *)
LEMMA OverlayHolds ==
    ASSUME FullInv, NEW members \in SUBSET Agents, Rerolls(members),
           NEW a \in Agents, NEW e \in Entries, rolled'[a] = e, tick'.view.status[e] = "active"
    PROVE  HeldFor(e)'
<1> DEFINE by == Pausers
           v == tick.view
           h == Holder(v, by, e)
<1>1. /\ tick'.view = apply_v2_overlay(by)
      /\ UNCHANGED <<rolled, toPause>>
  BY RerollTick DEF Rerolls
<1>2. tick'.view.holder[e] = h /\ v.status[e] = "active" /\ rolled[a] = e
  <2> HIDE DEF by
  <2> QED BY <1>1 DEF apply_v2_overlay
<1>3. toPause[e] \in Agents \cup {None}
  BY DEF FullInv, IInv, LoopInv
<1>4. CASE toPause[e] # None
  <2>1. h = toPause[e]
    BY <1>2, <1>4 DEF Holder
  <2> QED BY <1>1, <1>2, <1>3, <1>4, <2>1 DEF HeldFor
<1>5. CASE toPause[e] = None
  <2>1. \E x \in Agents : rolled[x] = e
    BY <1>2
  <2>2. h = CHOOSE x \in Agents : rolled[x] = e
    BY <1>2, <1>5, <2>1 DEF Holder
  <2>3. h \in Agents /\ rolled[h] = e
    <3> HIDE DEF h
    <3> QED BY <2>1, <2>2
  <2> QED BY <1>1, <1>2, <2>3 DEF HeldFor
<1> QED BY <1>4, <1>5

LEMMA KeptStep ==
    ASSUME FullInv, Next
    PROVE  KeptInv'
<1> SUFFICES ASSUME tick'.pc = "start",
                    NEW a \in Agents, NEW e \in Entries, rolled'[a] = e,
                    tick'.view.status[e] = "active"
             PROVE  HeldFor(e)'
  BY DEF KeptInv
<1>1. ASSUME NEW b \in Agents, StartStep(b) PROVE HeldFor(e)'
  <2>1. StartPauses(b) \/ StartSkips(b) \/ ClaimingStep(b)
    BY <1>1 DEF StartStep, ClaimingStep
  <2> QED BY <2>1, StartsHold, PausesHold
<1>2. ASSUME NEW members \in SUBSET Agents, Rerolls(members) PROVE HeldFor(e)'
  BY <1>2, OverlayHolds
<1>3. ASSUME ~\E b \in Agents : StartStep(b),
             ~\E members \in SUBSET Agents : Rerolls(members)
      PROVE  HeldFor(e)'
  <2>1. UNCHANGED <<tick, rolled, toPause>>
    BY <1>3, OtherTick DEF FullInv
  <2>2. HeldFor(e)
    BY <2>1 DEF FullInv, KeptInv
  <2>3. ~\E b \in Agents : Claims(b)
    BY <1>3 DEF Claims, ClaimingStep, StartStep
  <2>4. rows[e].status # "active" => rows'[e].status # "active"
    BY <2>3, TablesStep, QueueConstants DEF Calm, WakesOnly
  <2> QED BY <2>1, <2>2, <2>4, HeldStays
<1> QED BY <1>1, <1>2, <1>3

LEMMA InitFullInv ==
    ASSUME Init
    PROVE  FullInv
<1>1. IInv
  BY InitIInv
<1>2. PendInv
  <2>1. \A e \in Entries : \E st \in Unstarted :
          rows[e] = [status |-> st, pending |-> None, ups |-> 0]
    BY DEF Init, QueueInit
  <2> SUFFICES ASSUME NEW e \in Entries PROVE rows[e].pending = None
    BY DEF PendInv
  <2>2. PICK st \in Unstarted : rows[e] = [status |-> st, pending |-> None, ups |-> 0]
    BY <2>1
  <2> QED BY <2>2
<1>3. ListsInv
  <2>1. items = [t \in {<<m>> : m \in Milestones} |-> NewList(Slices[Top(t)])]
    BY DEF Init, QueueInit
  <2> DEFINE D == {<<m>> : m \in Milestones}
  <2>2. DOMAIN items = D /\ \A t \in D : items[t] = NewList(Slices[Top(t)])
    BY <2>1
  <2>3. items = [t \in DOMAIN items |-> items[t]]
    BY <2>1
  <2>4. ASSUME NEW t \in D PROVE ListOk(items[t])
    <3>1. Slices[Top(t)] \in Range(Slices)
      BY DEF Top, Milestones, Range
    <3>2. Slices[Top(t)] \in Seq(Range(Slices[Top(t)])) /\ IsInjective(Slices[Top(t)])
      BY <3>1, SlicesDistinct
    <3> QED BY <2>2, <3>2, NewListOk
  <2> HIDE DEF D
  <2> QED BY <2>2, <2>3, <2>4 DEF ListsInv
<1>4. UnitInv
  BY DEF Init, UnitInv
<1>5. PlanInv
  BY DEF Init, PlanInv, PlanAt, NoHandoff
<1>7. KeptInv
  BY DEF Init, KeptInv, NewTick
<1> QED BY <1>1, <1>2, <1>3, <1>4, <1>5, <1>7 DEF FullInv

LEMMA FullInductive ==
    ASSUME FullInv, [Next]_vars
    PROVE  FullInv'
<1>1. IInv'
  BY Inductive DEF FullInv
<1>2. CASE Next
  <2>1. PendInv' /\ ListsInv'
    BY <1>2, TablesStep DEF Calm, Claims
  <2> QED BY <1>1, <1>2, <2>1, UnitStep, PlanStep, KeptStep DEF FullInv
<1>3. CASE UNCHANGED vars
  <2>1. UNCHANGED <<rows, items, asg, handoff, tick, rolled, toPause>>
    BY <1>3 DEF vars, queueVars, loopVars
  <2>2. PendInv' /\ ListsInv'
    BY <2>1, RowsAsleep, ListsStand DEF FullInv
  <2>3. UnitInv'
    BY <2>1 DEF FullInv, UnitInv
  <2>4. PlanInv'
    BY <2>1 DEF FullInv, PlanInv, PlanAt, PlanOk, WriteOk, QuietAt
  <2>5. KeptInv'
    <3> SUFFICES ASSUME tick'.pc = "start",
                        NEW a \in Agents, NEW e \in Entries, rolled'[a] = e,
                        tick'.view.status[e] = "active"
                 PROVE  HeldFor(e)'
      BY DEF KeptInv
    <3>1. HeldFor(e)
      BY <2>1 DEF FullInv, KeptInv
    <3> QED BY <2>1, <3>1, HeldStays
  <2> QED BY <1>1, <2>2, <2>3, <2>4, <2>5 DEF FullInv
<1> QED BY <1>2, <1>3

(* The whole invariant holds, for every fleet, every list and every play. *)
THEOREM FullInvariant == Spec => []FullInv
BY InitFullInv, FullInductive, PTL DEF Spec

(* An entry that a member has handed off and holds until its next pick is not
   started by another, while it is active in the list the tick read and at the
   claim: a pause that is still owed outranks the hold, and another member that
   has handed the entry off too may go on with it. *)
THEOREM HandedOffIsKept == Spec => KeptForItsMember
<1> DEFINE Kept(a, b, e) ==
      /\ a # b /\ rolled[a] = e /\ rolled[b] # e /\ toPause[e] = None
      /\ tick.view # None /\ tick.view.status[e] = "active" /\ rows[e].status = "active"
      /\ Holds(b, e)'
      => Holds(b, e)
<1>1. ASSUME FullInv, [Next]_vars
      PROVE  [\A a, b \in Agents, e \in Entries : Kept(a, b, e)]_vars
  <2> SUFFICES ASSUME Next, NEW a \in Agents, NEW b \in Agents, NEW e \in Entries,
                      a # b, rolled[a] = e, rolled[b] # e, toPause[e] = None,
                      tick.view.status[e] = "active", rows[e].status = "active",
                      asg'[b].entry = e
               PROVE  asg[b].entry = e
    BY <1>1 DEF Holds
  <2>1. CASE asg'[b] = asg[b]
    BY <2>1
  <2>2. CASE asg'[b] = NoAsg
    BY <2>2, QueueConstants DEF NoAsg
  <2>3. CASE Starts(b) /\ asg'[b] = [entry |-> pick_v2(tick.view, b),
                                     unit |-> next_unit(tick.view, pick_v2(tick.view, b))]
    <3>1. Starting(b) /\ e = pick_v2(tick.view, b)
      BY <2>3 DEF Starts
    <3>2. tick.pc = "start" /\ tick.todo # <<>> /\ Head(tick.todo) = b
      BY <3>1 DEF Starting, At
    <3>3. HeldFor(e)
      BY <1>1, <3>2 DEF FullInv, KeptInv
    <3>4. eligible(tick.view, b, e)
      BY <3>1, StartingTakes
    <3>5. tick.view.holder[e] = b
      BY <3>3, <3>4, FleetV2Constants DEF eligible, HeldFor
    <3>6. b \in Range(tick.todo)
      BY <1>1, <3>2 DEF FullInv, IInv, TodoInv, Range
    <3> QED BY <3>3, <3>5, <3>6 DEF HeldFor
  <2> QED BY <1>1, <2>1, <2>2, <2>3, AsgStep
<1> QED BY <1>1, FullInvariant, PTL DEF Spec, KeptForItsMember

(* What touches a slice list. *)
LEMMA ItemsStep ==
    ASSUME Next
    PROVE  \/ UNCHANGED items
           \/ UNCHANGED <<handoff, tick>>
           \/ \E a \in Agents : VerbWrites(a) /\ Lands(Head(handoff[a].ops))
           \/ \E b \in Agents :
                ClaimingStep(b) /\ LET u == next_unit(tick.view, pick_v2(tick.view, b))
                                   IN  queue_v2_claim(u.at, SliceId(u))
<1> DEFINE Goal ==
      \/ UNCHANGED items
      \/ UNCHANGED <<handoff, tick>>
      \/ \E a \in Agents : VerbWrites(a) /\ Lands(Head(handoff[a].ops))
      \/ \E b \in Agents :
           ClaimingStep(b) /\ LET u == next_unit(tick.view, pick_v2(tick.view, b))
                              IN  queue_v2_claim(u.at, SliceId(u))
<1>1. ASSUME NEW a \in Agents, ClaimingStep(a) PROVE Goal
  BY <1>1 DEF ClaimingStep, StartHeld, SpawnFails, Starts, queueVars
<1>2. ASSUME NEW a \in Agents, VerbWrites(a) PROVE Goal
  BY <1>2 DEF VerbWrites, queueVars
<1>3. ASSUME NEW a \in Agents, PollStep(a) PROVE Goal
  BY <1>3 DEF PollStep, PollQuiet, end_handed_off_session, PollDown, PollParked, PollLeaves,
              PollBlocks, PollRefused, park_entry_v2, pause_v2_entry, SetEntry, queueVars
<1>4. ASSUME NEW a \in Agents, StartSkips(a) \/ StartPauses(a) PROVE Goal
  BY <1>4 DEF StartSkips, StartPauses, pause_v2_entry, SetEntry, queueVars
<1>5. ASSUME NEW a \in Agents,
             VerbBegins(a) \/ VerbLogs(a) \/ VerbAborts(a) \/ VerbCommits(a) \/ RequestStop(a)
      PROVE  Goal
  BY <1>5 DEF VerbBegins, VerbLogs, VerbAborts, VerbCommits, RequestStop, queueVars
<1>6. ASSUME \/ \E open \in BOOLEAN : LoadsList(open)
             \/ LoadFails
             \/ \E e \in Entries : RetriesPause(e)
             \/ \E members \in SUBSET Agents : Rerolls(members)
             \/ GateShut \/ Publishes \/ Restart
      PROVE  Goal
  BY <1>6 DEF LoadsList, LoadFails, RetriesPause, Rerolls, GateShut, Publishes, Restart,
              pause_v2_entry, SetEntry, queueVars
<1>7. ASSUME \/ \E e \in Entries : HumanSetsEntry(e) \/ HumanDrops(e)
             \/ \E t \in DOMAIN items : HumanEditsSlices(t)
      PROVE  Goal
  BY <1>7 DEF HumanSetsEntry, HumanDrops, HumanEditsSlices
<1>8. ASSUME NEW a \in Agents, StartStep(a) PROVE Goal
  BY <1>1, <1>4, <1>8 DEF StartStep, ClaimingStep
<1>9. ASSUME LoopStep PROVE Goal
  BY <1>3, <1>6, <1>8, <1>9 DEF LoopStep
<1>10. Goal
  BY <1>2, <1>5, <1>6, <1>7, <1>9 DEF Next, VerbStep
<1> QED BY <1>10 DEF Goal

(* A claim of the unit that the walk of the list yields as it stands marks the
   item that decides. *)
LEMMA ClaimCoherent ==
    ASSUME FullInv, NEW b \in Agents, ClaimingStep(b),
           LET u == next_unit(tick.view, pick_v2(tick.view, b))
           IN  queue_v2_claim(u.at, SliceId(u)),
           NEW t \in DOMAIN items, Coherent(t), ~ClaimsDisplaced(t)
    PROVE  Coherent(t)'
<1> DEFINE e == pick_v2(tick.view, b)
           u == next_unit(tick.view, e)
<1>1. Starting(b)
  BY DEF ClaimingStep, StartHeld, SpawnFails, Starts
<1>2. u # NoUnit /\ Top(u.at) = e
  BY <1>1, StartingTakes
<1>3. queue_v2_claim(u.at, SliceId(u))
  OBVIOUS
<1>4. e \in Milestones => u = walk_tree(tick.view.items, e)
  BY DEF next_unit
<1>5. e \notin Milestones => SliceId(u) = None
  BY DEF next_unit, WholeEntry, SliceId
<1>6. tick.pc = "start" /\ tick' # tick
  <2>1. tick.pc = "start" /\ tick.todo # <<>> /\ tick'.todo = Tail(tick.todo)
    BY StartTick DEF ClaimingStep, FullInv
  <2>2. Head(tick.todo) \in Range(tick.todo) /\ Head(tick.todo) \notin Range(Tail(tick.todo))
    BY <2>1, TailTodo DEF FullInv, IInv, TodoInv, Range
  <2> QED BY <2>1, <2>2
<1> HIDE DEF u, e
<1>7. CASE t # u.at
  BY <1>3, <1>7, ClaimLists DEF FullInv
<1>8. CASE SliceId(u) = None
  BY <1>3, <1>8, ClaimLists DEF FullInv, CoherentKept
<1>9. CASE t = u.at /\ SliceId(u) # None
  <2>1. walk_tree(items, e) = u
    BY <1>2, <1>4, <1>5, <1>6, <1>9 DEF ClaimsDisplaced
  <2>2. u = UnitIn(items, t)
    BY <1>2, <1>9, <2>1, WalkUnit
  <2>3. Open(items[t]) # {} /\ u.id = Decider(items[t]).id
    <3>1. u # CloseOut(t)
      BY <1>9 DEF CloseOut, SliceId
    <3> QED BY <1>2, <2>2, <3>1 DEF UnitIn
  <2>4. ListOk(items[t])
    BY DEF FullInv, ListsInv
  <2> DEFINE i == Min(Open(items[t]))
  <2>5. i \in Open(items[t])
    <3>1. Open(items[t]) \in SUBSET Nat
      BY <2>4, ListDomain DEF Open
    <3> QED BY <2>3, <3>1, LeastMember
  <2>6. i \in DOMAIN items[t] /\ items[t][i].id = u.id
    BY <2>3, <2>5 DEF Open, Decider
  <2> HIDE DEF i
  <2>7. Pos(t, u.id) \in DOMAIN items[t] /\ items[t][Pos(t, u.id)].id = u.id
    BY <2>6 DEF Pos
  <2>8. Pos(t, u.id) = i
    BY <2>4, <2>6, <2>7 DEF ListOk
  <2>9. SliceId(u) = u.id
    BY <1>9 DEF SliceId
  <2>10. CoherentKept
    BY <1>3, <1>9, <2>3, <2>8, <2>9, ClaimLists DEF FullInv, i
  <2> QED BY <2>10 DEF CoherentKept
<1> QED BY <1>7, <1>8, <1>9

(* A write of a handoff is crossed off its plan, landed or not. *)
LEMMA WritesAdvance ==
    ASSUME FullInv, NEW a \in Agents, VerbWrites(a)
    PROVE  handoff'[a] # handoff[a] /\ handoff[a].ops # <<>>
<1> DEFINE ops == handoff[a].ops
<1>1. ops # <<>> /\ ops \in Seq(Range(ops))
  BY DEF VerbWrites, FullInv, IInv, HandoffInv, OwnOps
<1>2. Tail(ops) # ops
  <2> HIDE DEF ops
  <2>1. Len(Tail(ops)) = Len(ops) - 1 /\ Len(ops) \in Nat
    BY <1>1
  <2> QED BY <2>1
<1>3. handoff'[a].ops = Tail(ops)
  <2>1. PICK c, w : handoff' = [handoff EXCEPT ![a] =
          [state |-> "writes", ops |-> Tail(handoff[a].ops), asg |-> handoff[a].asg,
           continues |-> c, warned |-> w]]
    BY WritesShape DEF FullInv
  <2>2. DOMAIN handoff = Agents
    BY DEF FullInv, IInv, HandoffInv
  <2> QED BY <2>1, <2>2
<1> QED BY <1>1, <1>2, <1>3

(* An insert touches one list. *)
LEMMA InsertElsewhere ==
    ASSUME ListsInv, NEW o, Lands(o), o.op = "insert",
           NEW t \in DOMAIN items, t # o.at, Coherent(t)
    PROVE  Coherent(t)'
<1>1. slice_insert(o.at, Pos(o.at, o.id))
  BY DEF Lands
<1> DEFINE k == InsertAt(items[o.at], Pos(o.at, o.id),
                         SliceItem(CHOOSE id \in Unused(o.at) : TRUE))
<1>2. items' = [items EXCEPT ![o.at] = k]
  BY <1>1 DEF slice_insert
<1> HIDE DEF k
<1>3. items'[t] = items[t]
  BY <1>2 DEF ListsInv
<1> QED BY <1>3, CoherentIsList DEF Coherent, OpenItems

(* A list in which what is active comes first stays one, but for a human edit,
   a claim of a unit such an edit displaced since the tick read the list, and
   the one write of a handoff that trusts an earlier one, new_scope's insert in
   front of a slice that could not be put back: at each write of a plan, for
   every plan, every list, whichever writes fail and whenever it is cut short. *)
THEOREM HandoffsKeepOrder == Spec => HandoffsKeepListsCoherent
<1> DEFINE Kept(t) == Coherent(t) => \/ Coherent(t)'
                                     \/ UNCHANGED <<handoff, tick>>
                                     \/ ClaimsDisplaced(t)
                                     \/ InsertsPastActive(t)
<1>1. ASSUME FullInv, [Next]_vars PROVE [\A t \in DOMAIN items : Kept(t)]_vars
  <2> SUFFICES ASSUME Next, NEW t \in DOMAIN items, Coherent(t),
                      ~UNCHANGED <<handoff, tick>>, ~ClaimsDisplaced(t), ~InsertsPastActive(t)
               PROVE  Coherent(t)'
    BY <1>1
  <2>1. CASE UNCHANGED items
    BY <1>1, <2>1, ListsStand DEF FullInv, CoherentKept
  <2>2. ASSUME NEW a \in Agents, VerbWrites(a), Lands(Head(handoff[a].ops)) PROVE Coherent(t)'
    <3> DEFINE o == Head(handoff[a].ops)
    <3>1. WriteOk(handoff[a], 1) /\ o = handoff[a].ops[1]
      BY <1>1, <2>2, HeadWrite DEF VerbWrites
    <3>2. /\ o.op = "unit" => o.arg # "active"
          /\ o.op = "insert" => handoff[a].warned \/ QuietAt(o.at)
      BY <3>1 DEF WriteOk
    <3>3. Lands(o)
      BY <2>2
    <3>4. handoff'[a] # handoff[a] /\ handoff[a].ops # <<>>
      BY <1>1, <2>2, WritesAdvance
    <3> HIDE DEF o
    <3>5. CASE o.op = "insert" /\ ~QuietAt(o.at)
      <4>1. t # o.at
        BY <3>2, <3>4, <3>5 DEF InsertsPastActive, QuietAt, Quiet, o
      <4> QED BY <1>1, <3>3, <3>5, <4>1, InsertElsewhere DEF FullInv
    <3>6. CASE o.op # "insert" \/ QuietAt(o.at)
      BY <1>1, <3>2, <3>3, <3>6, LandsLists DEF FullInv, CoherentKept
    <3> QED BY <3>5, <3>6
  <2> QED BY <1>1, <2>1, <2>2, ItemsStep, ClaimCoherent
<1> QED BY <1>1, FullInvariant, PTL DEF Spec, HandoffsKeepListsCoherent
=============================================================================
