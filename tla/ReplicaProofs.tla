--------------------------- MODULE ReplicaProofs ---------------------------
(***************************************************************************)
(* Proofs about Replica for a chain of any length, any content graph, any  *)
(* number of overlapping connections and of faults.                        *)
(***************************************************************************)
EXTENDS Replica, WellFoundedInduction, TLAPS

(* A tree a thread has open: each child is stored, or the thread waits for it. *)
OpenInv(s) == \A t \in sess[s].open : Children[t] \subseteq Present \cup sess[s].pending[t]

(* The roots of the commits a thread will store next are stored or in its hands. *)
InHand(s, n) == n \in trees \cup sess[s].want \cup sess[s].got \cup sess[s].open
RootInv(s) ==
    sess[s].phase = "fetch" =>
        /\ sess[s].piped => \A c \in sess[s].missing : InHand(s, Root[c])
        /\ sess[s].missing # {} => InHand(s, Root[Min(sess[s].missing)])

(* What the walk gathered reaches from the base to the announced commit; while
   the thread stores it, each commit of the gap is missing or stored. *)
Gap(s) == sess[s].cur + 1 .. sess[s].ann
ChainInv(s) ==
    /\ sess[s].phase \in {"grant", "tip"} => sess[s].missing = {}
    /\ sess[s].phase \in {"walk", "base", "fetch"} => sess[s].cur <= sess[s].ann
    /\ sess[s].phase \in {"walk", "base"} => sess[s].missing = Gap(s)
    /\ sess[s].phase = "fetch" => /\ sess[s].missing \subseteq Gap(s)
                                  /\ \A k \in Gap(s) : k \in sess[s].missing \cup commits
    /\ sess[s].phase \in {"base", "fetch"} => sess[s].cur \in commits \cup {0}

SessInv(s) == OpenInv(s) /\ RootInv(s) /\ ChainInv(s)
MirrorInv == TypeOK /\ MirrorComplete /\ \A s \in Sessions : SessInv(s)

(* Without a fault there is one connection at a time, it works for the newest
   announce, and the mirror is the chain up to its tip with what the connection
   has stored above it. *)
QuietInv(s) ==
    sess[s].phase # "idle" =>
        /\ push = s /\ sess[s].ann = announced
        /\ sess[s].phase = "walk" => sess[s].cur >= mtip
        /\ sess[s].phase \in {"base", "fetch"} => sess[s].cur = mtip
        /\ sess[s].phase = "fetch" => commits = (1 .. mtip) \cup (Gap(s) \ sess[s].missing)
Undisturbed ==
    /\ mtip <= announced /\ announced <= tip
    /\ ended # "refused"
    /\ \A s \in Sessions : QuietInv(s)
    /\ (\A s \in Sessions : sess[s].phase # "fetch") => commits = 1 .. mtip
HonestInv == faults = 0 => Undisturbed

(* With faults or without: what became of the newest push. Its thread runs while
   it is served; the announces grow; one that ended well has left the mirror at
   what it announced, unless a thread has moved the tip that the owner had given
   up, and its commit is there in any case. *)
EndedInv ==
    /\ push # NoSession =>
         IF sess[push].phase = "idle" THEN ended \notin {"none", "running"}
         ELSE ended = "running" /\ sess[push].ann = announced
    /\ health = "ok" /\ push = NoSession => ended \notin {"none", "running"}
    /\ mtip <= announced /\ announced <= tip /\ \A s \in Sessions : sess[s].ann <= announced
    /\ ended = "done" => mtip = announced
    /\ ended \in {"done", "overtaken"} => announced \in commits \cup {0}
    /\ ended \in {"failed", "crashed"} => faults > 0

Others(s) == \A r \in Sessions : r # s => sess'[r] = sess[r]

(* The record of connection s by field. *)
LEMMA SessionFields ==
    ASSUME TypeOK, NEW s \in Sessions
    PROVE  /\ sess[s] \in SessionType
           /\ sess[s].phase \in {"idle", "grant", "tip", "walk", "base", "fetch"}
           /\ sess[s].piped \in BOOLEAN /\ sess[s].ann \in 0 .. MaxCommits
           /\ sess[s].cur \in 0 .. MaxCommits /\ sess[s].missing \subseteq Commits
           /\ sess[s].want \subseteq Nodes /\ sess[s].got \subseteq Nodes
           /\ sess[s].open \subseteq Trees /\ sess[s].pending \in [Trees -> SUBSET Nodes]
<1>1. sess[s] \in SessionType
  BY DEF TypeOK
<1> QED BY <1>1 DEF SessionType

LEMMA IdleFields ==
    /\ Idle \in SessionType /\ Idle.phase = "idle" /\ Idle.ann = 0 /\ Idle.cur = 0
    /\ Idle.missing = {} /\ Idle.want = {} /\ Idle.got = {} /\ Idle.open = {}
<1>1. 0 \in 0 .. MaxCommits
  BY ReplicaAssumption
<1>2. [t \in Trees |-> {}] \in [Trees -> SUBSET Nodes]
  OBVIOUS
<1> QED BY <1>1, <1>2 DEF Idle, SessionType

LEMMA SetSession ==
    ASSUME TypeOK, NEW s \in Sessions, NEW j \in SessionType, sess' = [sess EXCEPT ![s] = j]
    PROVE  sess' \in [Sessions -> SessionType] /\ sess'[s] = j /\ Others(s)
BY DEF TypeOK, Others

LEMMA StartEffect ==
    ASSUME TypeOK, NEW s \in Sessions, StartPush(s)
    PROVE  /\ sess' \in [Sessions -> SessionType] /\ Others(s)
           /\ sess'[s].phase = "grant" /\ sess'[s].ann = tip /\ sess'[s].missing = {}
           /\ sess'[s].open = {}
<1>1. PICK piped \in BOOLEAN :
        sess' = [sess EXCEPT ![s] = [Idle EXCEPT !.phase = "grant", !.ann = tip,
                                                 !.piped = piped]]
  BY DEF StartPush
<1> DEFINE j == [Idle EXCEPT !.phase = "grant", !.ann = tip, !.piped = piped]
<1>2. tip \in 0 .. MaxCommits
  BY DEF TypeOK
<1>3. /\ j \in SessionType /\ j.phase = "grant" /\ j.ann = tip /\ j.missing = {} /\ j.open = {}
  BY <1>2, IdleFields DEF SessionType
<1>4. sess' = [sess EXCEPT ![s] = j]
  BY <1>1
<1> HIDE DEF j
<1> QED BY <1>3, <1>4, SetSession

LEMMA ServeEffect ==
    ASSUME TypeOK, NEW s \in Sessions, Serve(s)
    PROVE  /\ sess' \in [Sessions -> SessionType] /\ Others(s)
           /\ sess'[s].phase = sess[s].phase /\ sess'[s].piped = sess[s].piped
           /\ sess'[s].ann = sess[s].ann /\ sess'[s].cur = sess[s].cur
           /\ sess'[s].missing = sess[s].missing
           /\ sess'[s].want \cup sess'[s].got = sess[s].want \cup sess[s].got
           /\ sess'[s].open = sess[s].open /\ sess'[s].pending = sess[s].pending
<1>1. PICK n \in sess[s].want :
        sess' = [sess EXCEPT ![s].want = sess[s].want \ {n}, ![s].got = sess[s].got \cup {n}]
  BY DEF Serve
<1> DEFINE w == sess[s].want \ {n}
           g == sess[s].got \cup {n}
           j == [sess[s] EXCEPT !.want = w, !.got = g]
<1>2. w \in SUBSET Nodes /\ g \in SUBSET Nodes /\ w \cup g = sess[s].want \cup sess[s].got
  BY SessionFields
<1>3. sess' = [sess EXCEPT ![s] = j]
  BY <1>1 DEF TypeOK
<1> HIDE DEF w, g
<1>4. sess[s] \in SessionType
  BY SessionFields
<1>5. /\ j \in SessionType /\ j.phase = sess[s].phase /\ j.piped = sess[s].piped
      /\ j.ann = sess[s].ann /\ j.cur = sess[s].cur /\ j.missing = sess[s].missing
      /\ j.want = w /\ j.got = g /\ j.open = sess[s].open /\ j.pending = sess[s].pending
  BY <1>2, <1>4 DEF SessionType
<1> HIDE DEF j
<1> QED BY <1>2, <1>3, <1>5, SetSession

LEMMA MinFacts ==
    ASSUME NEW S, S \subseteq Nat, S # {}
    PROVE  Min(S) \in S /\ \A x \in S : Min(S) <= x
<1>1. PICK m \in S : \A x \in S : ~(<<x, m>> \in OpToRel(<, Nat))
  BY NatLessThanWellFounded, WFMin
<1>2. \A x \in S : m <= x
  <2> TAKE x \in S
  <2>1. x \in Nat /\ m \in Nat
    OBVIOUS
  <2>2. ~(x < m)
    BY <1>1, <2>1 DEF OpToRel
  <2> QED BY <2>1, <2>2
<1> QED BY <1>2 DEF Min

(* The end of a thread's work. *)
LEMMA ClosesEffect ==
    ASSUME TypeOK, NEW s \in Sessions, NEW how, Closes(s, how)
    PROVE  /\ sess' \in [Sessions -> SessionType] /\ Others(s) /\ ingest' = how
           /\ sess'[s].phase = "idle" /\ sess'[s].open = {} /\ sess'[s].ann = 0
BY IdleFields, SetSession DEF Closes

LEMMA EndEffect ==
    ASSUME TypeOK, NEW s \in Sessions, NEW how, End(s, how)
    PROVE  /\ sess' \in [Sessions -> SessionType] /\ Others(s) /\ ingest' = how
           /\ sess'[s].phase = "idle" /\ sess'[s].open = {} /\ sess'[s].ann = 0
           /\ ended' = IF s = push THEN how ELSE ended
BY ClosesEffect DEF End

(* One field of the record changes. *)
LEMMA SetPhaseCur ==
    ASSUME TypeOK, NEW s \in Sessions, NEW p \in {"idle", "grant", "tip", "walk", "base", "fetch"},
           NEW k \in 0 .. MaxCommits,
           sess' = [sess EXCEPT ![s].phase = p, ![s].cur = k]
    PROVE  /\ sess' \in [Sessions -> SessionType] /\ Others(s)
           /\ sess'[s].phase = p /\ sess'[s].cur = k /\ sess'[s].ann = sess[s].ann
           /\ sess'[s].missing = sess[s].missing /\ sess'[s].open = sess[s].open
           /\ sess'[s].pending = sess[s].pending
<1> DEFINE j == [sess[s] EXCEPT !.phase = p, !.cur = k]
<1>1. sess' = [sess EXCEPT ![s] = j]
  BY DEF TypeOK
<1>2. sess[s] \in SessionType
  BY SessionFields
<1>3. /\ j \in SessionType /\ j.phase = p /\ j.cur = k /\ j.ann = sess[s].ann
      /\ j.missing = sess[s].missing /\ j.open = sess[s].open /\ j.pending = sess[s].pending
  BY <1>2 DEF SessionType
<1> HIDE DEF j
<1> QED BY <1>1, <1>3, SetSession

LEMMA AcceptEffect ==
    ASSUME TypeOK, NEW s \in Sessions, sess[s].phase = "grant",
           sess' = [sess EXCEPT ![s].phase = "tip"]
    PROVE  /\ sess' \in [Sessions -> SessionType] /\ Others(s)
           /\ sess'[s].phase = "tip" /\ sess'[s].ann = sess[s].ann
           /\ sess'[s].missing = sess[s].missing /\ sess'[s].open = sess[s].open
           /\ sess'[s].pending = sess[s].pending
<1> DEFINE j == [sess[s] EXCEPT !.phase = "tip"]
<1>1. sess' = [sess EXCEPT ![s] = j]
  BY DEF TypeOK
<1>2. sess[s] \in SessionType
  BY SessionFields
<1>3. /\ j \in SessionType /\ j.phase = "tip" /\ j.ann = sess[s].ann
      /\ j.missing = sess[s].missing /\ j.open = sess[s].open /\ j.pending = sess[s].pending
  BY <1>2 DEF SessionType
<1> HIDE DEF j
<1> QED BY <1>1, <1>3, SetSession

LEMMA GetTipEffect ==
    ASSUME TypeOK, NEW s \in Sessions, GetTip(s)
    PROVE  /\ sess' \in [Sessions -> SessionType] /\ Others(s)
           /\ sess[s].phase = "tip" /\ push = s
           /\ \/ /\ sess[s].ann \in {0, mtip} /\ ingest' = "done"
                 /\ sess'[s].phase = "idle" /\ sess'[s].open = {}
              \/ /\ sess[s].ann \notin {0, mtip} /\ ingest' = ingest
                 /\ sess'[s].phase = "walk" /\ sess'[s].cur = sess[s].ann
                 /\ sess'[s].ann = sess[s].ann
                 /\ sess'[s].missing = sess[s].missing /\ sess'[s].open = sess[s].open
                 /\ sess'[s].pending = sess[s].pending
<1>1. sess[s].phase = "tip" /\ push = s
  BY DEF GetTip
<1>2. CASE sess[s].ann \in {0, mtip} /\ End(s, "done")
  BY <1>1, <1>2, EndEffect
<1>3. CASE /\ sess[s].ann \notin {0, mtip} /\ ingest' = ingest
           /\ sess' = [sess EXCEPT ![s].phase = "walk", ![s].cur = sess[s].ann]
  <2> DEFINE k == sess[s].ann
  <2>1. k \in 0 .. MaxCommits
    BY SessionFields
  <2>2. sess' = [sess EXCEPT ![s].phase = "walk", ![s].cur = k]
    BY <1>3
  <2> HIDE DEF k
  <2>3. /\ sess' \in [Sessions -> SessionType] /\ Others(s)
        /\ sess'[s].phase = "walk" /\ sess'[s].cur = k /\ sess'[s].ann = sess[s].ann
        /\ sess'[s].missing = sess[s].missing /\ sess'[s].open = sess[s].open
        /\ sess'[s].pending = sess[s].pending
    BY <2>1, <2>2, SetPhaseCur
  <2> QED BY <1>1, <1>3, <2>3 DEF k
<1> QED BY <1>2, <1>3 DEF GetTip

LEMMA WalkEffect ==
    ASSUME TypeOK, NEW s \in Sessions, Walk(s)
    PROVE  /\ sess' \in [Sessions -> SessionType] /\ Others(s)
           /\ sess[s].phase = "walk" /\ sess'[s].ann = sess[s].ann
           /\ sess'[s].open = sess[s].open /\ sess'[s].pending = sess[s].pending
           /\ \/ /\ sess[s].cur \in commits \cup {0} /\ sess'[s].phase = "base"
                 /\ sess'[s].cur = sess[s].cur /\ sess'[s].missing = sess[s].missing
              \/ /\ sess[s].cur \notin commits \cup {0} /\ sess'[s].phase = "walk"
                 /\ sess'[s].cur = sess[s].cur - 1 /\ sess[s].cur \in Commits
                 /\ sess'[s].missing = sess[s].missing \cup {sess[s].cur}
<1>0. sess[s].phase = "walk"
  BY DEF Walk
<1>1. CASE AtBase(s) /\ sess' = [sess EXCEPT ![s].phase = "base"]
  <2> DEFINE j == [sess[s] EXCEPT !.phase = "base"]
  <2>1. sess' = [sess EXCEPT ![s] = j]
    BY <1>1 DEF TypeOK
  <2>2. sess[s] \in SessionType
    BY SessionFields
  <2>3. /\ j \in SessionType /\ j.phase = "base" /\ j.cur = sess[s].cur /\ j.ann = sess[s].ann
        /\ j.missing = sess[s].missing /\ j.open = sess[s].open /\ j.pending = sess[s].pending
    BY <2>2 DEF SessionType
  <2> HIDE DEF j
  <2> QED BY <1>0, <1>1, <2>1, <2>3, SetSession DEF AtBase
<1>2. CASE /\ ~AtBase(s)
           /\ sess' = [sess EXCEPT ![s].missing = sess[s].missing \cup {sess[s].cur},
                                   ![s].cur = sess[s].cur - 1]
  <2> DEFINE m == sess[s].missing \cup {sess[s].cur}
             k == sess[s].cur - 1
             j == [sess[s] EXCEPT !.missing = m, !.cur = k]
  <2>1. sess' = [sess EXCEPT ![s] = j]
    BY <1>2 DEF TypeOK
  <2>2. sess[s] \in SessionType /\ sess[s].cur \in 0 .. MaxCommits
        /\ sess[s].missing \subseteq Commits
    BY SessionFields
  <2>3. sess[s].cur # 0
    BY <1>2 DEF AtBase
  <2>4. m \in SUBSET Commits /\ k \in 0 .. MaxCommits /\ sess[s].cur \in Commits
    BY <2>2, <2>3, ReplicaAssumption DEF Commits
  <2> HIDE DEF m, k
  <2>5. /\ j \in SessionType /\ j.phase = sess[s].phase /\ j.cur = k /\ j.ann = sess[s].ann
        /\ j.missing = m /\ j.open = sess[s].open /\ j.pending = sess[s].pending
    BY <2>2, <2>4 DEF SessionType
  <2> HIDE DEF j
  <2>6. sess' \in [Sessions -> SessionType] /\ sess'[s] = j /\ Others(s)
    BY <2>1, <2>5, SetSession
  <2> QED BY <1>0, <1>2, <2>4, <2>5, <2>6 DEF AtBase, m, k
<1> QED BY <1>1, <1>2 DEF Walk

LEMMA SeedFacts ==
    ASSUME NEW piped, NEW missing, missing \subseteq Commits
    PROVE  /\ Seed(piped, missing) \subseteq Nodes
           /\ piped => \A c \in missing : Root[c] \in Seed(piped, missing)
           /\ missing # {} => Root[Min(missing)] \in Seed(piped, missing)
<1>1. \A c \in missing : Root[c] \in Nodes
  BY ReplicaAssumption DEF Nodes
<1>2. missing # {} => Min(missing) \in missing
  <2>1. missing \subseteq Nat
    BY ReplicaAssumption DEF Commits
  <2> QED BY <2>1, MinFacts
<1>3. CASE piped \/ missing = {}
  <2>1. Seed(piped, missing) = {Root[c] : c \in missing}
    BY <1>3 DEF Seed
  <2> QED BY <1>1, <1>2, <2>1
<1>4. CASE ~(piped \/ missing = {})
  <2>1. Seed(piped, missing) = {Root[Min(missing)]}
    BY <1>4 DEF Seed
  <2> QED BY <1>1, <1>2, <1>4, <2>1
<1> QED BY <1>3, <1>4

LEMMA CheckBaseEffect ==
    ASSUME TypeOK, NEW s \in Sessions, CheckBase(s)
    PROVE  /\ sess' \in [Sessions -> SessionType] /\ Others(s) /\ sess[s].phase = "base"
           /\ \/ /\ mtip = sess[s].cur /\ ingest' = ingest
                 /\ sess'[s].phase = "fetch" /\ sess'[s].piped = sess[s].piped
                 /\ sess'[s].ann = sess[s].ann /\ sess'[s].cur = sess[s].cur
                 /\ sess'[s].missing = sess[s].missing /\ sess'[s].open = sess[s].open
                 /\ sess'[s].pending = sess[s].pending
                 /\ sess'[s].want = Seed(sess[s].piped, sess[s].missing) \ trees
              \/ /\ mtip # sess[s].cur /\ ingest' = "refused"
                 /\ sess'[s].phase = "idle" /\ sess'[s].open = {}
<1>0. sess[s].phase = "base"
  BY DEF CheckBase
<1>1. CASE mtip # sess[s].cur /\ End(s, "refused")
  BY <1>0, <1>1, EndEffect
<1>2. CASE /\ mtip = sess[s].cur /\ ingest' = ingest
           /\ sess' = [sess EXCEPT
                         ![s].phase = "fetch",
                         ![s].want = Seed(sess[s].piped, sess[s].missing) \ trees]
  <2> DEFINE w == Seed(sess[s].piped, sess[s].missing) \ trees
             j == [sess[s] EXCEPT !.phase = "fetch", !.want = w]
  <2>1. sess' = [sess EXCEPT ![s] = j]
    BY <1>2 DEF TypeOK
  <2>2. sess[s] \in SessionType /\ sess[s].missing \subseteq Commits
    BY SessionFields
  <2>3. w \in SUBSET Nodes
    BY <2>2, SeedFacts
  <2> HIDE DEF w
  <2>4. /\ j \in SessionType /\ j.phase = "fetch" /\ j.piped = sess[s].piped
        /\ j.ann = sess[s].ann /\ j.cur = sess[s].cur /\ j.missing = sess[s].missing
        /\ j.want = w /\ j.open = sess[s].open /\ j.pending = sess[s].pending
    BY <2>2, <2>3 DEF SessionType
  <2> HIDE DEF j
  <2>5. sess' \in [Sessions -> SessionType] /\ sess'[s] = j /\ Others(s)
    BY <2>1, <2>4, SetSession
  <2> QED BY <1>0, <1>2, <2>4, <2>5 DEF w
<1> QED BY <1>1, <1>2 DEF CheckBase

LEMMA RecvTreeEffect ==
    ASSUME TypeOK, NEW s \in Sessions, RecvTree(s)
    PROVE  \E t \in Trees :
           /\ sess' \in [Sessions -> SessionType] /\ Others(s) /\ sess[s].phase = "fetch"
           /\ sess'[s].phase = "fetch" /\ sess'[s].piped = sess[s].piped
           /\ sess'[s].ann = sess[s].ann /\ sess'[s].cur = sess[s].cur
           /\ sess'[s].missing = sess[s].missing /\ sess'[s].open = sess[s].open \cup {t}
           /\ sess'[s].pending = [sess[s].pending EXCEPT ![t] = Children[t] \ Present]
           /\ sess'[s].got = sess[s].got \ {t} /\ sess[s].want \subseteq sess'[s].want
<1>1. PICK t \in sess[s].got \cap Trees :
        sess' = [sess EXCEPT ![s].got = sess[s].got \ {t},
                             ![s].open = sess[s].open \cup {t},
                             ![s].pending[t] = Children[t] \ Present,
                             ![s].want = sess[s].want \cup ((Children[t] \ Present) \
                                  (sess[s].want \cup sess[s].got \cup sess[s].open))]
  BY DEF RecvTree
<1> DEFINE g == sess[s].got \ {t}
           o == sess[s].open \cup {t}
           p == [sess[s].pending EXCEPT ![t] = Children[t] \ Present]
           w == sess[s].want \cup ((Children[t] \ Present) \
                    (sess[s].want \cup sess[s].got \cup sess[s].open))
           j == [sess[s] EXCEPT !.got = g, !.open = o, !.pending = p, !.want = w]
<1>2. sess[s] \in SessionType
  BY SessionFields
<1>3. sess' = [sess EXCEPT ![s] = j]
  BY <1>1, <1>2 DEF TypeOK, SessionType
<1>4. /\ g \in SUBSET Nodes /\ o \in SUBSET Trees /\ w \in SUBSET Nodes
      /\ p \in [Trees -> SUBSET Nodes] /\ sess[s].want \subseteq w
  BY SessionFields, ReplicaAssumption
<1> HIDE DEF g, o, p, w
<1>5. /\ j \in SessionType /\ j.phase = sess[s].phase /\ j.piped = sess[s].piped
      /\ j.ann = sess[s].ann /\ j.cur = sess[s].cur /\ j.missing = sess[s].missing
      /\ j.want = w /\ j.got = g /\ j.open = o /\ j.pending = p
  BY <1>2, <1>4 DEF SessionType
<1> HIDE DEF j
<1>6. sess' \in [Sessions -> SessionType] /\ sess'[s] = j /\ Others(s)
  BY <1>3, <1>5, SetSession
<1>7. sess[s].phase = "fetch"
  BY DEF RecvTree
<1> QED BY <1>4, <1>5, <1>6, <1>7 DEF g, o, p

LEMMA SatisfiedFacts ==
    ASSUME TypeOK, NEW s \in Sessions, NEW n
    PROVE  /\ Satisfied(s, n) \in [Trees -> SUBSET Nodes]
           /\ \A t \in Trees : Satisfied(s, n)[t] = sess[s].pending[t] \ {n}
BY SessionFields DEF Satisfied

LEMMA RecvObjectEffect ==
    ASSUME TypeOK, NEW s \in Sessions, RecvObject(s)
    PROVE  \E b \in Blobs :
           /\ sess' \in [Sessions -> SessionType] /\ Others(s) /\ sess[s].phase = "fetch"
           /\ sess'[s].phase = "fetch" /\ sess'[s].piped = sess[s].piped
           /\ sess'[s].ann = sess[s].ann /\ sess'[s].cur = sess[s].cur
           /\ sess'[s].missing = sess[s].missing /\ sess'[s].open = sess[s].open
           /\ sess'[s].pending = Satisfied(s, b) /\ blobs' = blobs \cup {b}
           /\ sess'[s].got = sess[s].got \ {b} /\ sess'[s].want = sess[s].want
<1>1. PICK b \in sess[s].got \cap Blobs :
        /\ blobs' = blobs \cup {b}
        /\ sess' = [sess EXCEPT ![s].got = sess[s].got \ {b}, ![s].pending = Satisfied(s, b)]
  BY DEF RecvObject
<1> DEFINE g == sess[s].got \ {b}
           p == Satisfied(s, b)
           j == [sess[s] EXCEPT !.got = g, !.pending = p]
<1>2. sess[s] \in SessionType
  BY SessionFields
<1>3. sess' = [sess EXCEPT ![s] = j]
  BY <1>1 DEF TypeOK
<1>4. g \in SUBSET Nodes /\ p \in [Trees -> SUBSET Nodes]
  BY SessionFields, SatisfiedFacts
<1> HIDE DEF g, p
<1>5. /\ j \in SessionType /\ j.phase = sess[s].phase /\ j.piped = sess[s].piped
      /\ j.ann = sess[s].ann /\ j.cur = sess[s].cur /\ j.missing = sess[s].missing
      /\ j.want = sess[s].want /\ j.got = g /\ j.open = sess[s].open /\ j.pending = p
  BY <1>2, <1>4 DEF SessionType
<1> HIDE DEF j
<1>6. sess' \in [Sessions -> SessionType] /\ sess'[s] = j /\ Others(s)
  BY <1>3, <1>5, SetSession
<1>7. sess[s].phase = "fetch"
  BY DEF RecvObject
<1> QED BY <1>1, <1>5, <1>6, <1>7 DEF g, p

LEMMA StoreTreeEffect ==
    ASSUME TypeOK, NEW s \in Sessions, StoreTree(s)
    PROVE  \E t \in sess[s].open :
           /\ sess' \in [Sessions -> SessionType] /\ Others(s) /\ sess[s].phase = "fetch"
           /\ sess'[s].phase = "fetch" /\ sess'[s].piped = sess[s].piped
           /\ sess'[s].ann = sess[s].ann /\ sess'[s].cur = sess[s].cur
           /\ sess'[s].missing = sess[s].missing /\ sess'[s].open = sess[s].open \ {t}
           /\ sess'[s].pending = Satisfied(s, t) /\ trees' = trees \cup {t}
           /\ sess'[s].got = sess[s].got /\ sess'[s].want = sess[s].want
           /\ sess[s].pending[t] = {} /\ t \in Trees
<1>1. PICK t \in Ready(s) :
        /\ trees' = trees \cup {t}
        /\ sess' = [sess EXCEPT ![s].open = sess[s].open \ {t}, ![s].pending = Satisfied(s, t)]
  BY DEF StoreTree
<1> DEFINE o == sess[s].open \ {t}
           p == Satisfied(s, t)
           j == [sess[s] EXCEPT !.open = o, !.pending = p]
<1>2. sess[s] \in SessionType
  BY SessionFields
<1>3. sess' = [sess EXCEPT ![s] = j]
  BY <1>1 DEF TypeOK
<1>4. /\ o \in SUBSET Trees /\ p \in [Trees -> SUBSET Nodes] /\ t \in sess[s].open
      /\ sess[s].pending[t] = {} /\ t \in Trees
  BY <1>1, SessionFields, SatisfiedFacts DEF Ready
<1> HIDE DEF o, p
<1>5. /\ j \in SessionType /\ j.phase = sess[s].phase /\ j.piped = sess[s].piped
      /\ j.ann = sess[s].ann /\ j.cur = sess[s].cur /\ j.missing = sess[s].missing
      /\ j.want = sess[s].want /\ j.got = sess[s].got /\ j.open = o /\ j.pending = p
  BY <1>2, <1>4 DEF SessionType
<1> HIDE DEF j
<1>6. sess' \in [Sessions -> SessionType] /\ sess'[s] = j /\ Others(s)
  BY <1>3, <1>5, SetSession
<1>7. sess[s].phase = "fetch"
  BY DEF StoreTree
<1> QED BY <1>1, <1>4, <1>5, <1>6, <1>7 DEF o, p

LEMMA StoreCommitEffect ==
    ASSUME TypeOK, NEW s \in Sessions, StoreCommit(s)
    PROVE  /\ sess' \in [Sessions -> SessionType] /\ Others(s) /\ Drained(s)
           /\ sess'[s].phase = "fetch" /\ sess'[s].piped = sess[s].piped
           /\ sess'[s].ann = sess[s].ann /\ sess'[s].cur = sess[s].cur
           /\ sess[s].missing # {}
           /\ sess'[s].missing = sess[s].missing \ {Min(sess[s].missing)}
           /\ commits' = commits \cup {Min(sess[s].missing)}
           /\ sess'[s].open = sess[s].open /\ sess'[s].pending = sess[s].pending
           /\ sess'[s].want = IF sess[s].piped THEN {}
                              ELSE Seed(FALSE, sess[s].missing \ {Min(sess[s].missing)}) \ trees
<1> DEFINE m == sess[s].missing \ {Min(sess[s].missing)}
           w == IF sess[s].piped THEN {} ELSE Seed(FALSE, m) \ trees
           j == [sess[s] EXCEPT !.missing = m, !.want = w]
<1>1. /\ Drained(s) /\ sess[s].missing # {} /\ commits' = commits \cup {Min(sess[s].missing)}
      /\ sess' = [sess EXCEPT ![s].missing = m, ![s].want = w]
  BY DEF StoreCommit
<1>2. sess[s] \in SessionType /\ sess[s].missing \subseteq Commits
  BY SessionFields
<1>3. sess' = [sess EXCEPT ![s] = j]
  BY <1>1 DEF TypeOK
<1>4. m \in SUBSET Commits
  BY <1>2
<1>5. w \in SUBSET Nodes
  BY <1>4, SeedFacts
<1> HIDE DEF m, w
<1>6. /\ j \in SessionType /\ j.phase = sess[s].phase /\ j.piped = sess[s].piped
      /\ j.ann = sess[s].ann /\ j.cur = sess[s].cur /\ j.missing = m
      /\ j.want = w /\ j.open = sess[s].open /\ j.pending = sess[s].pending
  BY <1>2, <1>4, <1>5 DEF SessionType
<1> HIDE DEF j
<1>7. sess' \in [Sessions -> SessionType] /\ sess'[s] = j /\ Others(s)
  BY <1>3, <1>6, SetSession
<1> QED BY <1>1, <1>6, <1>7 DEF m, w, Drained

LEMMA FaultTypes ==
    ASSUME TypeOK, Fault \/ UNCHANGED faults
    PROVE  faults' \in 0 .. MaxFaults
BY ReplicaAssumption DEF TypeOK, Fault

LEMMA TypeStep ==
    ASSUME TypeOK, [Next]_vars
    PROVE  TypeOK'
<1>1. CASE Commit
  <2>1. tip' \in 0 .. MaxCommits
    BY <1>1, ReplicaAssumption DEF Commit, TypeOK
  <2> QED BY <1>1, <2>1 DEF Commit, TypeOK, mirror
<1>2. CASE PushEnds
  BY <1>2 DEF PushEnds, TypeOK, mirror
<1>3. CASE HangUp
  <2>1. faults' \in 0 .. MaxFaults
    BY <1>3, FaultTypes DEF HangUp
  <2> QED BY <1>3, <2>1 DEF HangUp, TypeOK, mirror
<1>4. CASE HostCrash
  <2>1. faults' \in 0 .. MaxFaults
    BY <1>4, FaultTypes DEF HostCrash
  <2>2. sess' \in [Sessions -> SessionType]
    BY <1>4, IdleFields DEF HostCrash
  <2> QED BY <1>4, <2>1, <2>2 DEF HostCrash, TypeOK, mirror, owner
<1>5. ASSUME NEW o \in {"noroute", "error"}, PushFails(o) PROVE TypeOK'
  <2>1. faults' \in 0 .. MaxFaults
    BY <1>5, FaultTypes DEF PushFails
  <2> QED BY <1>5, <2>1 DEF PushFails, TypeOK, mirror
<1>6. ASSUME NEW s \in Sessions, StartPush(s) PROVE TypeOK'
  <2>1. sess' \in [Sessions -> SessionType]
    BY <1>6, StartEffect
  <2> QED BY <1>6, <2>1 DEF StartPush, TypeOK, mirror
<1>7. ASSUME NEW s \in Sessions, Serve(s) PROVE TypeOK'
  <2>1. sess' \in [Sessions -> SessionType]
    BY <1>7, ServeEffect
  <2> QED BY <1>7, <2>1 DEF Serve, TypeOK, mirror, owner
<1>8. ASSUME NEW s \in Sessions, StoreFails(s) PROVE TypeOK'
  <2>1. /\ sess' \in [Sessions -> SessionType] /\ ingest' = "failed"
        /\ ended' \in {ended, "failed"}
    BY <1>8, EndEffect DEF StoreFails
  <2>2. faults' \in 0 .. MaxFaults
    BY <1>8, FaultTypes DEF StoreFails
  <2> QED BY <1>8, <2>1, <2>2 DEF StoreFails, TypeOK, mirror, owner
<1>9. ASSUME NEW s \in Sessions, Ingest(s) PROVE TypeOK'
  <2>1. CASE GetTip(s)
    <3>1. /\ sess' \in [Sessions -> SessionType] /\ ingest' \in {ingest, "done"}
          /\ ended' \in {ended, "done"}
      BY <1>9, <2>1, GetTipEffect, EndEffect DEF GetTip
    <3> QED BY <2>1, <3>1 DEF GetTip, TypeOK, mirror, owner
  <2>2. CASE Walk(s)
    <3>1. sess' \in [Sessions -> SessionType]
      BY <1>9, <2>2, WalkEffect
    <3> QED BY <2>2, <3>1 DEF Walk, TypeOK, mirror, owner
  <2>3. CASE CheckBase(s)
    <3>1. /\ sess' \in [Sessions -> SessionType] /\ ingest' \in {ingest, "refused"}
          /\ ended' \in {ended, "refused"}
      BY <1>9, <2>3, CheckBaseEffect, EndEffect DEF CheckBase
    <3> QED BY <2>3, <3>1 DEF CheckBase, TypeOK, mirror, owner
  <2>4. CASE RecvTree(s)
    <3>1. sess' \in [Sessions -> SessionType]
      BY <1>9, <2>4, RecvTreeEffect
    <3> QED BY <2>4, <3>1 DEF RecvTree, TypeOK, mirror, owner
  <2>5. CASE RecvObject(s)
    <3>1. sess' \in [Sessions -> SessionType] /\ \E b \in Blobs : blobs' = blobs \cup {b}
      BY <1>9, <2>5, RecvObjectEffect
    <3> QED BY <2>5, <3>1 DEF RecvObject, TypeOK, owner
  <2>6. CASE StoreTree(s)
    <3>1. sess' \in [Sessions -> SessionType] /\ \E t \in Trees : trees' = trees \cup {t}
      BY <1>9, <2>6, StoreTreeEffect
    <3> QED BY <2>6, <3>1 DEF StoreTree, TypeOK, owner
  <2>7. CASE StoreCommit(s)
    <3>1. /\ sess' \in [Sessions -> SessionType] /\ sess[s].missing # {}
          /\ commits' = commits \cup {Min(sess[s].missing)}
      BY <1>9, <2>7, StoreCommitEffect
    <3>2. sess[s].missing \subseteq Nat /\ sess[s].missing \subseteq Commits
      BY <1>9, SessionFields, ReplicaAssumption DEF Commits
    <3>3. Min(sess[s].missing) \in Commits
      BY <3>1, <3>2, MinFacts
    <3> QED BY <2>7, <3>1, <3>3 DEF StoreCommit, TypeOK, owner
  <2>8. CASE AdvanceTip(s)
    <3>1. /\ sess' \in [Sessions -> SessionType] /\ ingest' \in {"done", "failed"}
          /\ ended' \in {ended, ingest', "overtaken"}
      BY <1>9, <2>8, ClosesEffect DEF AdvanceTip
    <3>2. mtip' = sess[s].ann /\ sess[s].ann \in 0 .. MaxCommits
      BY <1>9, <2>8, SessionFields DEF AdvanceTip
    <3>3. faults' \in 0 .. MaxFaults
      BY <2>8, FaultTypes DEF AdvanceTip
    <3> QED BY <2>8, <3>1, <3>2, <3>3 DEF AdvanceTip, TypeOK, owner
  <2>9. CASE ReadFails(s)
    <3>1. /\ sess' \in [Sessions -> SessionType] /\ ingest' = "failed"
          /\ ended' \in {ended, "failed"}
      BY <1>9, <2>9, EndEffect DEF ReadFails
    <3> QED BY <2>9, <3>1 DEF ReadFails, TypeOK, mirror, owner
  <2>10. CASE IgnoresGrant(s)
    <3>1. /\ sess' \in [Sessions -> SessionType] /\ ingest' = "ignored"
          /\ ended' \in {ended, "ignored"}
      BY <1>9, <2>10, EndEffect DEF IgnoresGrant
    <3> QED BY <2>10, <3>1 DEF IgnoresGrant, TypeOK, mirror, owner
  <2>11. CASE AcceptsGrant(s)
    <3>1. /\ sess' \in [Sessions -> SessionType] /\ ingest' \in {ingest, "failed"}
          /\ ended' \in {ended, "failed"}
      BY <1>9, <2>11, AcceptEffect, EndEffect DEF AcceptsGrant
    <3>2. faults' \in 0 .. MaxFaults
      BY <2>11, FaultTypes DEF AcceptsGrant
    <3> QED BY <2>11, <3>1, <3>2 DEF AcceptsGrant, TypeOK, mirror, owner
  <2> QED BY <1>9, <2>1, <2>2, <2>3, <2>4, <2>5, <2>6, <2>7, <2>8, <2>9, <2>10, <2>11 DEF Ingest
<1>10. CASE UNCHANGED vars
  BY <1>10 DEF vars, TypeOK, mirror, owner
<1> QED BY <1>1, <1>2, <1>3, <1>4, <1>5, <1>6, <1>7, <1>8, <1>9, <1>10 DEF Next

LEMMA TypeInit ==
    Init => TypeOK
<1> SUFFICES ASSUME Init PROVE TypeOK
  OBVIOUS
<1>1. sess \in [Sessions -> SessionType]
  BY IdleFields DEF Init
<1> QED BY <1>1, ReplicaAssumption DEF Init, TypeOK

(* Spec => []TypeOK: every variable of the push loop, the connections and the
   mirror keeps its type. *)
THEOREM TypeCorrect == Spec => []TypeOK
BY TypeInit, TypeStep, PTL DEF Spec

----------------------------------------------------------------------------
(* The mirror is complete. *)

Grows == commits \subseteq commits' /\ trees \subseteq trees' /\ blobs \subseteq blobs'

(* A thread that does not move, while others store more. *)
LEMMA SessKept ==
    ASSUME NEW r \in Sessions, SessInv(r), sess'[r] = sess[r], Grows
    PROVE  SessInv(r)'
<1>1. OpenInv(r)'
  BY DEF SessInv, OpenInv, Grows, Present
<1>2. RootInv(r)'
  BY DEF SessInv, RootInv, InHand, Grows
<1>3. ChainInv(r)'
  BY DEF SessInv, ChainInv, Gap, Grows
<1> QED BY <1>1, <1>2, <1>3 DEF SessInv

LEMMA SessIdle ==
    ASSUME NEW s \in Sessions, sess'[s].phase = "idle", sess'[s].open = {}
    PROVE  SessInv(s)'
BY DEF SessInv, OpenInv, RootInv, ChainInv

LEMMA SessStart ==
    ASSUME TypeOK, NEW s \in Sessions, StartPush(s)
    PROVE  SessInv(s)'
<1>1. sess'[s].phase = "grant" /\ sess'[s].missing = {} /\ sess'[s].open = {}
  BY StartEffect
<1> QED BY <1>1 DEF SessInv, OpenInv, RootInv, ChainInv

LEMMA SessServe ==
    ASSUME TypeOK, NEW s \in Sessions, SessInv(s), Serve(s)
    PROVE  SessInv(s)'
<1>1. /\ sess'[s].phase = sess[s].phase /\ sess'[s].piped = sess[s].piped
      /\ sess'[s].ann = sess[s].ann /\ sess'[s].cur = sess[s].cur
      /\ sess'[s].missing = sess[s].missing
      /\ sess'[s].want \cup sess'[s].got = sess[s].want \cup sess[s].got
      /\ sess'[s].open = sess[s].open /\ sess'[s].pending = sess[s].pending
  BY ServeEffect
<1>2. UNCHANGED <<commits, trees, blobs>>
  BY DEF Serve, mirror
<1>3. OpenInv(s)'
  BY <1>1, <1>2 DEF SessInv, OpenInv, Present
<1>4. RootInv(s)'
  <2>1. \A c : InHand(s, Root[c]) => InHand(s, Root[c])'
    BY <1>1, <1>2 DEF InHand
  <2>2. InHand(s, Root[Min(sess[s].missing)]) => InHand(s, Root[Min(sess[s].missing)])'
    BY <1>1, <1>2 DEF InHand
  <2> QED BY <1>1, <2>1, <2>2 DEF SessInv, RootInv
<1>5. ChainInv(s)'
  BY <1>1, <1>2 DEF SessInv, ChainInv, Gap
<1> QED BY <1>3, <1>4, <1>5 DEF SessInv

LEMMA SessGetTip ==
    ASSUME TypeOK, NEW s \in Sessions, SessInv(s), GetTip(s)
    PROVE  SessInv(s)'
<1>1. sess[s].missing = {} /\ sess[s].ann \in Nat
  BY GetTipEffect, SessionFields, ReplicaAssumption DEF SessInv, ChainInv
<1>2. UNCHANGED <<commits, trees, blobs>>
  BY DEF GetTip, mirror
<1>3. CASE sess'[s].phase = "idle" /\ sess'[s].open = {}
  BY <1>3, SessIdle
<1>4. CASE /\ sess'[s].phase = "walk" /\ sess'[s].cur = sess[s].ann
           /\ sess'[s].ann = sess[s].ann
           /\ sess'[s].missing = sess[s].missing /\ sess'[s].open = sess[s].open
           /\ sess'[s].pending = sess[s].pending
  <2>1. OpenInv(s)'
    BY <1>2, <1>4 DEF SessInv, OpenInv, Present
  <2>2. RootInv(s)'
    BY <1>4 DEF RootInv
  <2>3. Gap(s)' = {}
    BY <1>1, <1>4 DEF Gap
  <2>4. ChainInv(s)'
    BY <1>1, <1>4, <2>3 DEF ChainInv
  <2> QED BY <2>1, <2>2, <2>4 DEF SessInv
<1> QED BY <1>3, <1>4, GetTipEffect

LEMMA SessWalk ==
    ASSUME TypeOK, NEW s \in Sessions, SessInv(s), Walk(s)
    PROVE  SessInv(s)'
<1>1. /\ sess[s].phase = "walk" /\ sess'[s].ann = sess[s].ann
      /\ sess'[s].open = sess[s].open /\ sess'[s].pending = sess[s].pending
  BY WalkEffect
<1>2. UNCHANGED <<commits, trees, blobs>>
  BY DEF Walk, mirror
<1>3. OpenInv(s)'
  BY <1>1, <1>2 DEF SessInv, OpenInv, Present
<1>4. /\ sess[s].cur <= sess[s].ann /\ sess[s].missing = Gap(s)
      /\ sess[s].cur \in Nat /\ sess[s].ann \in Nat
  BY <1>1, SessionFields, ReplicaAssumption DEF SessInv, ChainInv
<1>5. CASE /\ sess[s].cur \in commits \cup {0} /\ sess'[s].phase = "base"
           /\ sess'[s].cur = sess[s].cur /\ sess'[s].missing = sess[s].missing
  <2>1. RootInv(s)'
    BY <1>5 DEF RootInv
  <2>2. ChainInv(s)'
    BY <1>1, <1>2, <1>4, <1>5 DEF ChainInv, Gap
  <2> QED BY <1>3, <2>1, <2>2 DEF SessInv
<1>6. CASE /\ sess'[s].phase = "walk" /\ sess'[s].cur = sess[s].cur - 1
           /\ sess[s].cur \in Commits
           /\ sess'[s].missing = sess[s].missing \cup {sess[s].cur}
  <2>1. RootInv(s)'
    BY <1>6 DEF RootInv
  <2>2. sess[s].cur >= 1
    BY <1>6, ReplicaAssumption DEF Commits
  <2>3. Gap(s)' = Gap(s) \cup {sess[s].cur} /\ sess'[s].cur <= sess'[s].ann
    BY <1>1, <1>4, <1>6, <2>2 DEF Gap
  <2>4. ChainInv(s)'
    BY <1>4, <1>6, <2>3 DEF ChainInv
  <2> QED BY <1>3, <2>1, <2>4 DEF SessInv
<1> QED BY <1>5, <1>6, WalkEffect

LEMMA SessCheckBase ==
    ASSUME TypeOK, NEW s \in Sessions, SessInv(s), CheckBase(s)
    PROVE  SessInv(s)'
<1>0. sess[s].phase = "base"
  BY CheckBaseEffect
<1>1. UNCHANGED <<commits, trees, blobs>>
  BY DEF CheckBase, mirror
<1>2. CASE sess'[s].phase = "idle" /\ sess'[s].open = {}
  BY <1>2, SessIdle
<1>3. CASE /\ sess'[s].phase = "fetch" /\ sess'[s].piped = sess[s].piped
           /\ sess'[s].ann = sess[s].ann /\ sess'[s].cur = sess[s].cur
           /\ sess'[s].missing = sess[s].missing /\ sess'[s].open = sess[s].open
           /\ sess'[s].pending = sess[s].pending
           /\ sess'[s].want = Seed(sess[s].piped, sess[s].missing) \ trees
  <2>1. OpenInv(s)'
    BY <1>1, <1>3 DEF SessInv, OpenInv, Present
  <2>2. sess[s].missing \subseteq Commits
    BY SessionFields
  <2>3. /\ sess[s].piped => \A c \in sess[s].missing : Root[c] \in Seed(sess[s].piped, sess[s].missing)
        /\ sess[s].missing # {} => Root[Min(sess[s].missing)] \in Seed(sess[s].piped, sess[s].missing)
    BY <2>2, SeedFacts
  <2>4. RootInv(s)'
    BY <1>3, <1>1, <2>3 DEF RootInv, InHand
  <2>5. ChainInv(s)'
    BY <1>0, <1>1, <1>3 DEF SessInv, ChainInv, Gap
  <2> QED BY <2>1, <2>4, <2>5 DEF SessInv
<1> QED BY <1>2, <1>3, CheckBaseEffect

(* A tree arrives or a node is stored: what the thread has to hand stays so. *)
LEMMA RootsKept ==
    ASSUME NEW s \in Sessions, RootInv(s), sess[s].phase = "fetch",
           sess'[s].piped = sess[s].piped, sess'[s].missing = sess[s].missing,
           sess[s].missing \subseteq Commits,
           \A t \in Trees : InHand(s, t) => InHand(s, t)'
    PROVE  RootInv(s)'
<1>1. \A c \in sess[s].missing : Root[c] \in Trees
  BY ReplicaAssumption
<1>2. sess[s].missing # {} => Min(sess[s].missing) \in sess[s].missing
  <2>1. sess[s].missing \subseteq Nat
    BY ReplicaAssumption DEF Commits
  <2> QED BY <2>1, MinFacts
<1> SUFFICES ASSUME NEW c \in sess'[s].missing,
                    sess'[s].piped \/ c = Min(sess'[s].missing)
             PROVE  InHand(s, Root[c])'
  <2>1. sess'[s].missing # {} => Min(sess'[s].missing) \in sess'[s].missing
    BY <1>2
  <2> QED BY <2>1 DEF RootInv
<1>3. InHand(s, Root[c])
  BY DEF RootInv
<1> QED BY <1>1, <1>3

LEMMA SessRecvTree ==
    ASSUME TypeOK, NEW s \in Sessions, SessInv(s), RecvTree(s)
    PROVE  SessInv(s)'
<1>1. PICK t \in Trees :
      /\ sess[s].phase = "fetch"
      /\ sess'[s].phase = "fetch" /\ sess'[s].piped = sess[s].piped
      /\ sess'[s].ann = sess[s].ann /\ sess'[s].cur = sess[s].cur
      /\ sess'[s].missing = sess[s].missing /\ sess'[s].open = sess[s].open \cup {t}
      /\ sess'[s].pending = [sess[s].pending EXCEPT ![t] = Children[t] \ Present]
      /\ sess'[s].got = sess[s].got \ {t} /\ sess[s].want \subseteq sess'[s].want
  BY RecvTreeEffect
<1>2. UNCHANGED <<commits, trees, blobs>>
  BY DEF RecvTree, mirror
<1>3. OpenInv(s)'
  <2>1. sess[s].pending \in [Trees -> SUBSET Nodes] /\ sess[s].open \subseteq Trees
    BY SessionFields
  <2>2. ASSUME NEW x \in sess'[s].open
        PROVE  Children[x] \subseteq (Present \cup sess'[s].pending[x])
    <3>1. CASE x = t
      <4>1. sess'[s].pending[x] = Children[t] \ Present
        BY <1>1, <2>1, <3>1
      <4> QED BY <3>1, <4>1
    <3>2. CASE x # t
      <4>1. x \in sess[s].open /\ sess'[s].pending[x] = sess[s].pending[x]
        BY <1>1, <2>1, <2>2, <3>2
      <4> QED BY <4>1 DEF SessInv, OpenInv
    <3> QED BY <3>1, <3>2
  <2>3. Present' = Present
    BY <1>2 DEF Present
  <2> QED BY <2>2, <2>3 DEF OpenInv
<1>4. RootInv(s)'
  <2>1. sess[s].missing \subseteq Commits
    BY SessionFields
  <2>2. \A x \in Trees : InHand(s, x) => InHand(s, x)'
    BY <1>1, <1>2 DEF InHand
  <2> QED BY <1>1, <2>1, <2>2, RootsKept DEF SessInv
<1>5. ChainInv(s)'
  BY <1>1, <1>2 DEF SessInv, ChainInv, Gap
<1> QED BY <1>3, <1>4, <1>5 DEF SessInv

LEMMA SessRecvObject ==
    ASSUME TypeOK, NEW s \in Sessions, SessInv(s), RecvObject(s)
    PROVE  SessInv(s)' /\ Grows
<1>1. PICK b \in Blobs :
      /\ sess[s].phase = "fetch"
      /\ sess'[s].phase = "fetch" /\ sess'[s].piped = sess[s].piped
      /\ sess'[s].ann = sess[s].ann /\ sess'[s].cur = sess[s].cur
      /\ sess'[s].missing = sess[s].missing /\ sess'[s].open = sess[s].open
      /\ sess'[s].pending = Satisfied(s, b) /\ blobs' = blobs \cup {b}
      /\ sess'[s].got = sess[s].got \ {b} /\ sess'[s].want = sess[s].want
  BY RecvObjectEffect
<1>2. UNCHANGED <<commits, trees>>
  BY DEF RecvObject
<1>3. OpenInv(s)'
  <2>1. \A t \in Trees : Satisfied(s, b)[t] = sess[s].pending[t] \ {b}
    BY SatisfiedFacts
  <2>2. sess[s].open \subseteq Trees
    BY SessionFields
  <2>3. Present' = Present \cup {b}
    BY <1>1, <1>2 DEF Present
  <2> QED BY <1>1, <2>1, <2>2, <2>3 DEF SessInv, OpenInv
<1>4. RootInv(s)'
  <2>1. sess[s].missing \subseteq Commits
    BY SessionFields
  <2>2. b \notin Trees
    BY ReplicaAssumption
  <2>3. \A x \in Trees : InHand(s, x) => InHand(s, x)'
    BY <1>1, <1>2, <2>2 DEF InHand
  <2> QED BY <1>1, <2>1, <2>3, RootsKept DEF SessInv
<1>5. ChainInv(s)'
  BY <1>1, <1>2 DEF SessInv, ChainInv, Gap
<1>6. Grows
  BY <1>1, <1>2 DEF Grows
<1> QED BY <1>3, <1>4, <1>5, <1>6 DEF SessInv

(* A stored tree has its children: an open tree with nothing pending has. *)
LEMMA SessStoreTree ==
    ASSUME TypeOK, NEW s \in Sessions, SessInv(s), StoreTree(s)
    PROVE  /\ SessInv(s)' /\ Grows
           /\ \E t : trees' = trees \cup {t} /\ Children[t] \subseteq Present
<1>1. PICK t \in sess[s].open :
      /\ sess[s].phase = "fetch"
      /\ sess'[s].phase = "fetch" /\ sess'[s].piped = sess[s].piped
      /\ sess'[s].ann = sess[s].ann /\ sess'[s].cur = sess[s].cur
      /\ sess'[s].missing = sess[s].missing /\ sess'[s].open = sess[s].open \ {t}
      /\ sess'[s].pending = Satisfied(s, t) /\ trees' = trees \cup {t}
      /\ sess'[s].got = sess[s].got /\ sess'[s].want = sess[s].want
      /\ sess[s].pending[t] = {} /\ t \in Trees
  BY StoreTreeEffect
<1>2. UNCHANGED <<commits, blobs>>
  BY DEF StoreTree
<1>3. OpenInv(s)'
  <2>1. \A x \in Trees : Satisfied(s, t)[x] = sess[s].pending[x] \ {t}
    BY SatisfiedFacts
  <2>2. sess[s].open \subseteq Trees
    BY SessionFields
  <2>3. Present' = Present \cup {t}
    BY <1>1, <1>2 DEF Present
  <2> QED BY <1>1, <2>1, <2>2, <2>3 DEF SessInv, OpenInv
<1>4. RootInv(s)'
  <2>1. sess[s].missing \subseteq Commits
    BY SessionFields
  <2>2. \A x \in Trees : InHand(s, x) => InHand(s, x)'
    BY <1>1 DEF InHand
  <2> QED BY <1>1, <2>1, <2>2, RootsKept DEF SessInv
<1>5. ChainInv(s)'
  BY <1>1, <1>2 DEF SessInv, ChainInv, Gap
<1>6. Grows
  BY <1>1, <1>2 DEF Grows
<1>7. Children[t] \subseteq Present
  BY <1>1 DEF SessInv, OpenInv
<1> QED BY <1>1, <1>3, <1>4, <1>5, <1>6, <1>7 DEF SessInv

(* A stored commit has its root and its parent: the thread is drained, and below
   the oldest missing commit is the base or a stored one. *)
LEMMA SessStoreCommit ==
    ASSUME TypeOK, NEW s \in Sessions, SessInv(s), StoreCommit(s)
    PROVE  /\ SessInv(s)' /\ Grows
           /\ \E c \in Gap(s) :
                /\ c = Min(sess[s].missing) /\ c \in sess[s].missing
                /\ commits' = commits \cup {c} /\ sess'[s].missing = sess[s].missing \ {c}
                /\ Root[c] \in trees /\ c - 1 \in commits \cup {0}
<1> DEFINE c == Min(sess[s].missing)
<1>1. /\ Drained(s) /\ sess[s].phase = "fetch"
      /\ sess'[s].phase = "fetch" /\ sess'[s].piped = sess[s].piped
      /\ sess'[s].ann = sess[s].ann /\ sess'[s].cur = sess[s].cur
      /\ sess[s].missing # {} /\ sess'[s].missing = sess[s].missing \ {c}
      /\ commits' = commits \cup {c}
      /\ sess'[s].open = sess[s].open /\ sess'[s].pending = sess[s].pending
      /\ sess'[s].want = IF sess[s].piped THEN {} ELSE Seed(FALSE, sess[s].missing \ {c}) \ trees
  BY StoreCommitEffect DEF Drained
<1>2. UNCHANGED <<trees, blobs>>
  BY DEF StoreCommit
<1>3. sess[s].missing \subseteq Commits /\ sess[s].missing \subseteq Nat
      /\ sess[s].cur \in Nat /\ sess[s].ann \in Nat
  BY SessionFields, ReplicaAssumption DEF Commits
<1>4. c \in sess[s].missing /\ \A x \in sess[s].missing : c <= x
  BY <1>1, <1>3, MinFacts
<1> HIDE DEF c
<1>5. /\ sess[s].missing \subseteq Gap(s) /\ \A k \in Gap(s) : k \in sess[s].missing \cup commits
      /\ sess[s].cur <= sess[s].ann /\ sess[s].cur \in commits \cup {0}
  BY <1>1 DEF SessInv, ChainInv
<1>6. c - 1 \in commits \cup {0} /\ c \in Gap(s)
  <2>1. c \in Gap(s) /\ c \in Nat
    BY <1>3, <1>4, <1>5
  <2>2. CASE c = sess[s].cur + 1
    BY <1>3, <1>5, <2>1, <2>2
  <2>3. CASE c # sess[s].cur + 1
    <3>1. c - 1 \in Gap(s) /\ ~(c <= c - 1)
      BY <1>3, <2>1, <2>3 DEF Gap
    <3> QED BY <1>4, <1>5, <2>1, <3>1
  <2> QED BY <2>1, <2>2, <2>3
<1>7. \A n : InHand(s, n) => n \in trees
  BY <1>1 DEF InHand, Drained
<1>8. Root[c] \in trees
  BY <1>1, <1>7 DEF SessInv, RootInv, c
<1>9. OpenInv(s)'
  BY <1>1, <1>2 DEF OpenInv, Drained
<1>10. RootInv(s)'
  <2>1. CASE sess[s].piped
    <3>1. \A x \in sess[s].missing : Root[x] \in trees
      BY <1>1, <1>7, <2>1 DEF SessInv, RootInv
    <3>2. sess'[s].missing \subseteq Nat /\ sess'[s].missing \subseteq sess[s].missing
      BY <1>1, <1>3
    <3>3. sess'[s].missing # {} => Min(sess'[s].missing) \in sess'[s].missing
      BY <3>2, MinFacts
    <3>4. \A x \in sess'[s].missing : Root[x] \in trees'
      BY <1>2, <3>1, <3>2
    <3> QED BY <3>3, <3>4 DEF RootInv, InHand
  <2>2. CASE ~sess[s].piped
    <3>1. sess[s].missing \ {c} \subseteq Commits
      BY <1>3
    <3>2. sess[s].missing \ {c} # {} =>
            Root[Min(sess[s].missing \ {c})] \in Seed(FALSE, sess[s].missing \ {c})
      BY <3>1, SeedFacts
    <3>3. sess'[s].missing # {} => InHand(s, Root[Min(sess[s].missing)])'
      BY <1>1, <1>2, <2>2, <3>2 DEF InHand
    <3> QED BY <1>1, <2>2, <3>3 DEF RootInv
  <2> QED BY <2>1, <2>2
<1>11. ChainInv(s)'
  <2>1. Gap(s)' = Gap(s)
    BY <1>1 DEF Gap
  <2> QED BY <1>1, <1>5, <2>1 DEF ChainInv
<1>12. Grows
  BY <1>1, <1>2 DEF Grows
<1> QED BY <1>1, <1>4, <1>6, <1>8, <1>9, <1>10, <1>11, <1>12 DEF SessInv, c

(* Steps of one thread, with the others where they were. *)
LEMMA AllSessions ==
    ASSUME \A r \in Sessions : SessInv(r), NEW s \in Sessions, Others(s), Grows, SessInv(s)'
    PROVE  \A r \in Sessions : SessInv(r)'
<1> SUFFICES ASSUME NEW r \in Sessions, r # s PROVE SessInv(r)'
  OBVIOUS
<1>1. SessInv(r) /\ sess'[r] = sess[r]
  BY DEF Others
<1> QED BY <1>1, SessKept

LEMMA MirrorSame ==
    ASSUME MirrorComplete, UNCHANGED mirror
    PROVE  MirrorComplete' /\ Grows
BY DEF MirrorComplete, Present, Grows, mirror

(* Once the gap is stored the announced commit is. *)
LEMMA AdvanceFacts ==
    ASSUME TypeOK, NEW s \in Sessions, SessInv(s), AdvanceTip(s)
    PROVE  /\ sess[s].ann \in commits \cup {0} /\ sess[s].missing = {}
           /\ sess[s].phase = "fetch"
<1>1. sess[s].phase = "fetch" /\ sess[s].missing = {}
  BY DEF AdvanceTip, Drained
<1>2. /\ sess[s].cur <= sess[s].ann /\ \A k \in Gap(s) : k \in commits
      /\ sess[s].cur \in commits \cup {0}
  BY <1>1 DEF SessInv, ChainInv
<1>3. sess[s].cur \in Nat /\ sess[s].ann \in Nat
  BY SessionFields, ReplicaAssumption
<1>4. sess[s].ann = sess[s].cur \/ sess[s].ann \in Gap(s)
  BY <1>2, <1>3 DEF Gap
<1> QED BY <1>1, <1>2, <1>4

LEMMA IngestMirror ==
    ASSUME MirrorInv, NEW s \in Sessions, Ingest(s)
    PROVE  MirrorComplete' /\ \A r \in Sessions : SessInv(r)'
<1>0. TypeOK /\ MirrorComplete /\ SessInv(s) /\ \A r \in Sessions : SessInv(r)
  BY DEF MirrorInv
<1>1. CASE GetTip(s)
  <2>1. Others(s) /\ SessInv(s)' /\ UNCHANGED mirror
    BY <1>0, <1>1, GetTipEffect, SessGetTip DEF GetTip
  <2> QED BY <1>0, <2>1, MirrorSame, AllSessions
<1>2. CASE Walk(s)
  <2>1. Others(s) /\ SessInv(s)' /\ UNCHANGED mirror
    BY <1>0, <1>2, WalkEffect, SessWalk DEF Walk
  <2> QED BY <1>0, <2>1, MirrorSame, AllSessions
<1>3. CASE CheckBase(s)
  <2>1. Others(s) /\ SessInv(s)' /\ UNCHANGED mirror
    BY <1>0, <1>3, CheckBaseEffect, SessCheckBase DEF CheckBase
  <2> QED BY <1>0, <2>1, MirrorSame, AllSessions
<1>4. CASE RecvTree(s)
  <2>1. Others(s) /\ SessInv(s)' /\ UNCHANGED mirror
    BY <1>0, <1>4, RecvTreeEffect, SessRecvTree DEF RecvTree
  <2> QED BY <1>0, <2>1, MirrorSame, AllSessions
<1>5. CASE RecvObject(s)
  <2>1. Others(s) /\ SessInv(s)' /\ Grows /\ UNCHANGED <<commits, trees, mtip>>
    BY <1>0, <1>5, RecvObjectEffect, SessRecvObject DEF RecvObject
  <2>2. MirrorComplete'
    BY <1>0, <2>1 DEF MirrorComplete, Present, Grows
  <2> QED BY <1>0, <2>1, <2>2, AllSessions
<1>6. CASE StoreTree(s)
  <2>1. /\ Others(s) /\ SessInv(s)' /\ Grows /\ UNCHANGED <<commits, blobs, mtip>>
        /\ \E t : trees' = trees \cup {t} /\ Children[t] \subseteq Present
    BY <1>0, <1>6, StoreTreeEffect, SessStoreTree DEF StoreTree
  <2>2. MirrorComplete'
    BY <1>0, <2>1 DEF MirrorComplete, Present, Grows
  <2> QED BY <1>0, <2>1, <2>2, AllSessions
<1>7. CASE StoreCommit(s)
  <2>1. /\ Others(s) /\ SessInv(s)' /\ Grows /\ UNCHANGED <<trees, blobs, mtip>>
        /\ \E c : commits' = commits \cup {c} /\ Root[c] \in trees /\ c - 1 \in commits \cup {0}
    BY <1>0, <1>7, StoreCommitEffect, SessStoreCommit DEF StoreCommit
  <2>2. MirrorComplete'
    BY <1>0, <2>1 DEF MirrorComplete, Present
  <2> QED BY <1>0, <2>1, <2>2, AllSessions
<1>8. CASE AdvanceTip(s)
  <2>1. Others(s) /\ sess'[s].phase = "idle" /\ sess'[s].open = {}
    BY <1>0, <1>8, ClosesEffect DEF AdvanceTip
  <2>2. UNCHANGED <<commits, trees, blobs>> /\ mtip' = sess[s].ann
    BY <1>8 DEF AdvanceTip
  <2>3. sess[s].ann \in commits \cup {0}
    BY <1>0, <1>8, AdvanceFacts
  <2>4. MirrorComplete' /\ Grows
    BY <1>0, <2>2, <2>3 DEF MirrorComplete, Present, Grows
  <2> QED BY <1>0, <2>1, <2>4, SessIdle, AllSessions
<1>9. CASE ReadFails(s)
  <2>1. Others(s) /\ sess'[s].phase = "idle" /\ sess'[s].open = {}
    BY <1>0, <1>9, EndEffect DEF ReadFails
  <2>2. UNCHANGED mirror
    BY <1>9 DEF ReadFails
  <2> QED BY <1>0, <2>1, <2>2, MirrorSame, SessIdle, AllSessions
<1>10. CASE IgnoresGrant(s) \/ AcceptsGrant(s)
  <2>1. UNCHANGED mirror
    BY <1>10 DEF IgnoresGrant, AcceptsGrant
  <2>2. Others(s) /\ SessInv(s)'
    <3>1. CASE \E how : End(s, how)
      BY <1>0, <3>1, EndEffect, SessIdle
    <3>2. CASE sess[s].phase = "grant" /\ sess' = [sess EXCEPT ![s].phase = "tip"]
      <4>1. /\ Others(s) /\ sess'[s].phase = "tip" /\ sess'[s].missing = {}
            /\ sess'[s].open = sess[s].open /\ sess'[s].pending = sess[s].pending
        BY <1>0, <3>2, AcceptEffect DEF SessInv, ChainInv
      <4>2. OpenInv(s)'
        BY <1>0, <2>1, <4>1 DEF SessInv, OpenInv, Present, mirror
      <4> QED BY <4>1, <4>2 DEF SessInv, RootInv, ChainInv
    <3> QED BY <1>10, <3>1, <3>2 DEF IgnoresGrant, AcceptsGrant
  <2> QED BY <1>0, <2>1, <2>2, MirrorSame, AllSessions
<1> QED BY <1>1, <1>2, <1>3, <1>4, <1>5, <1>6, <1>7, <1>8, <1>9, <1>10 DEF Ingest

LEMMA MirrorStep ==
    ASSUME MirrorInv, [Next]_vars
    PROVE  MirrorInv'
<1>0. TypeOK /\ MirrorComplete /\ \A r \in Sessions : SessInv(r)
  BY DEF MirrorInv
<1>1. TypeOK'
  BY <1>0, TypeStep
<1> SUFFICES MirrorComplete' /\ \A r \in Sessions : SessInv(r)'
  BY <1>1 DEF MirrorInv
<1>2. CASE Commit \/ PushEnds \/ HangUp \/ (\E o \in {"noroute", "error"} : PushFails(o))
           \/ UNCHANGED vars
  <2>1. UNCHANGED mirror /\ sess' = sess
    BY <1>2 DEF Commit, PushEnds, HangUp, PushFails, vars
  <2>2. MirrorComplete' /\ Grows
    BY <1>0, <2>1, MirrorSame
  <2>3. ASSUME NEW r \in Sessions PROVE SessInv(r)'
    BY <1>0, <2>1, <2>2, <2>3, SessKept
  <2> QED BY <2>2, <2>3
<1>3. CASE HostCrash
  <2>1. UNCHANGED mirror /\ sess' = [s \in Sessions |-> Idle]
    BY <1>3 DEF HostCrash
  <2>2. ASSUME NEW r \in Sessions PROVE SessInv(r)'
    BY <2>1, <2>2, IdleFields, SessIdle
  <2> QED BY <1>0, <2>1, <2>2, MirrorSame
<1>4. ASSUME NEW s \in Sessions, StartPush(s)
      PROVE  MirrorComplete' /\ \A r \in Sessions : SessInv(r)'
  <2>1. Others(s) /\ SessInv(s)' /\ UNCHANGED mirror
    BY <1>0, <1>4, StartEffect, SessStart DEF StartPush
  <2> QED BY <1>0, <1>4, <2>1, MirrorSame, AllSessions
<1>5. ASSUME NEW s \in Sessions, Serve(s)
      PROVE  MirrorComplete' /\ \A r \in Sessions : SessInv(r)'
  <2>1. Others(s) /\ SessInv(s)' /\ UNCHANGED mirror
    BY <1>0, <1>5, ServeEffect, SessServe DEF Serve
  <2> QED BY <1>0, <1>5, <2>1, MirrorSame, AllSessions
<1>6. ASSUME NEW s \in Sessions, Ingest(s)
      PROVE  MirrorComplete' /\ \A r \in Sessions : SessInv(r)'
  BY <1>6, IngestMirror
<1>7. ASSUME NEW s \in Sessions, StoreFails(s)
      PROVE  MirrorComplete' /\ \A r \in Sessions : SessInv(r)'
  <2>1. Others(s) /\ sess'[s].phase = "idle" /\ sess'[s].open = {}
    BY <1>0, <1>7, EndEffect DEF StoreFails
  <2>2. UNCHANGED mirror
    BY <1>7 DEF StoreFails
  <2> QED BY <1>0, <1>7, <2>1, <2>2, MirrorSame, SessIdle, AllSessions
<1> QED BY <1>2, <1>3, <1>4, <1>5, <1>6, <1>7 DEF Next

LEMMA MirrorInit ==
    Init => MirrorInv
<1> SUFFICES ASSUME Init PROVE MirrorInv
  OBVIOUS
<1>1. \A s \in Sessions : sess[s] = Idle
  BY DEF Init
<1>2. \A s \in Sessions : SessInv(s)
  BY <1>1, IdleFields DEF SessInv, OpenInv, RootInv, ChainInv
<1>3. MirrorComplete
  BY DEF Init, MirrorComplete
<1> QED BY <1>2, <1>3, TypeInit DEF MirrorInv

(* Spec => []MirrorInv: the mirror with the pulls that are filling it. *)
THEOREM MirrorInvariant == Spec => []MirrorInv
BY MirrorInit, MirrorStep, PTL DEF Spec

(* Spec => []MirrorComplete: between any two rows the host stores, with pulls
   that overlap, break off or are cut by a crash, every stored tree has its
   children, every stored commit its root and its parent, and the tip is stored. *)
THEOREM MirrorIsComplete == Spec => []MirrorComplete
<1>1. MirrorInv => MirrorComplete
  BY DEF MirrorInv
<1> QED BY <1>1, MirrorInvariant, PTL

----------------------------------------------------------------------------
(* Without faults no honest push is refused, and a good one mirrors its announce. *)

LEMMA NoFaultYet ==
    ASSUME TypeOK, faults' = 0
    PROVE  ~Fault
BY ReplicaAssumption DEF TypeOK, Fault

LEMMA OneConnection ==
    ASSUME Undisturbed, NEW s \in Sessions, NEW r \in Sessions, r # s,
           push \in {s, NoSession}
    PROVE  sess[r].phase = "idle"
BY ReplicaAssumption DEF Undisturbed, QuietInv

(* A step of the one connection that is served. *)
LEMMA HonestOne ==
    ASSUME Undisturbed, NEW s \in Sessions, push = s, UNCHANGED owner, Others(s),
           mtip' <= announced, ended' # "refused",
           QuietInv(s)', sess'[s].phase # "fetch" => commits' = 1 .. mtip'
    PROVE  Undisturbed'
<1>1. push' = s /\ push' # NoSession /\ UNCHANGED <<tip, announced, health>>
  BY ReplicaAssumption DEF owner
<1>2. ASSUME NEW r \in Sessions, r # s PROVE sess'[r].phase = "idle"
  BY <1>2, OneConnection DEF Others
<1>3. \A r \in Sessions : QuietInv(r)'
  BY <1>2 DEF QuietInv
<1>4. announced' <= tip' /\ mtip' <= announced'
  BY <1>1 DEF Undisturbed
<1> QED BY <1>1, <1>3, <1>4 DEF Undisturbed

LEMMA HonestIngest ==
    ASSUME MirrorInv, Undisturbed, NEW s \in Sessions, Ingest(s), UNCHANGED faults, ~Fault
    PROVE  Undisturbed'
<1>0. TypeOK /\ SessInv(s) /\ QuietInv(s)
  BY DEF MirrorInv, Undisturbed
<1>1. /\ sess[s].ann \in Nat /\ sess[s].cur \in Nat /\ mtip \in Nat /\ announced \in Nat
      /\ mtip <= announced /\ ended # "refused"
  BY <1>0, SessionFields, ReplicaAssumption DEF TypeOK, Undisturbed
<1>2. sess[s].phase # "idle"
  BY DEF Ingest, IgnoresGrant, AcceptsGrant, GetTip, Walk, CheckBase, RecvTree, RecvObject, StoreTree, StoreCommit,
         AdvanceTip, ReadFails, Drained
<1>3. push = s /\ sess[s].ann = announced
  BY <1>0, <1>2 DEF QuietInv
<1>4. sess[s].phase # "fetch" => commits = 1 .. mtip
  <2>1. \A r \in Sessions : r # s => sess[r].phase = "idle"
    BY <1>3, OneConnection
  <2> QED BY <2>1 DEF Undisturbed
<1>5. CASE GetTip(s)
  <2>1. UNCHANGED <<owner, mirror>>
    BY <1>5 DEF GetTip
  <2>2. UNCHANGED <<push, announced, mtip, commits>>
    BY <2>1 DEF owner, mirror
  <2>3. Others(s) /\ sess[s].phase = "tip"
    BY <1>0, <1>5, GetTipEffect
  <2>6. ended' # "refused"
    BY <1>1, <1>5 DEF GetTip, End
  <2>4. CASE sess[s].ann \in {0, mtip} /\ sess'[s].phase = "idle"
    <3>1. QuietInv(s)'
      BY <2>4 DEF QuietInv
    <3> QED BY <1>1, <1>3, <1>4, <2>1, <2>2, <2>3, <2>4, <2>6, <3>1, HonestOne
  <2>5. CASE /\ sess'[s].phase = "walk" /\ sess'[s].cur = sess[s].ann
             /\ sess'[s].ann = sess[s].ann
    <3>1. QuietInv(s)'
      BY <1>1, <1>3, <2>2, <2>5 DEF QuietInv
    <3> QED BY <1>1, <1>3, <1>4, <2>1, <2>2, <2>3, <2>5, <2>6, <3>1, HonestOne
  <2> QED BY <1>0, <1>5, <2>4, <2>5, GetTipEffect
<1>6. CASE Walk(s)
  <2>1. UNCHANGED <<owner, mirror, ended>>
    BY <1>6 DEF Walk
  <2>2. UNCHANGED <<push, announced, mtip, commits>>
    BY <2>1 DEF owner, mirror
  <2>3. Others(s) /\ sess[s].phase = "walk" /\ sess'[s].ann = sess[s].ann
    BY <1>0, <1>6, WalkEffect
  <2>4. sess[s].cur >= mtip /\ commits = 1 .. mtip
    BY <1>0, <1>4, <2>3 DEF QuietInv
  <2>5. CASE /\ sess[s].cur \in commits \cup {0} /\ sess'[s].phase = "base"
             /\ sess'[s].cur = sess[s].cur
    <3>1. sess[s].cur = mtip
      BY <1>1, <2>4, <2>5
    <3>2. QuietInv(s)'
      BY <1>3, <2>2, <2>3, <2>5, <3>1 DEF QuietInv
    <3> QED BY <1>1, <1>3, <2>1, <2>2, <2>3, <2>4, <2>5, <3>2, HonestOne
  <2>6. CASE /\ sess[s].cur \notin commits \cup {0} /\ sess'[s].phase = "walk"
             /\ sess'[s].cur = sess[s].cur - 1
    <3>1. sess[s].cur - 1 >= mtip
      BY <1>1, <2>4, <2>6
    <3>2. QuietInv(s)'
      BY <1>3, <2>2, <2>3, <2>6, <3>1 DEF QuietInv
    <3> QED BY <1>1, <1>3, <2>1, <2>2, <2>3, <2>4, <2>6, <3>2, HonestOne
  <2> QED BY <1>0, <1>6, <2>5, <2>6, WalkEffect
<1>7. CASE CheckBase(s)
  <2>1. UNCHANGED <<owner, mirror>>
    BY <1>7 DEF CheckBase
  <2>2. UNCHANGED <<push, announced, mtip, commits>>
    BY <2>1 DEF owner, mirror
  <2>3. Others(s) /\ sess[s].phase = "base"
    BY <1>0, <1>7, CheckBaseEffect
  <2>4. sess[s].cur = mtip /\ commits = 1 .. mtip /\ sess[s].missing = Gap(s)
    BY <1>0, <1>4, <2>3 DEF QuietInv, SessInv, ChainInv
  <2>5. /\ ended' = ended /\ sess'[s].phase = "fetch"
        /\ sess'[s].ann = sess[s].ann /\ sess'[s].cur = sess[s].cur
        /\ sess'[s].missing = sess[s].missing
    BY <1>0, <1>7, <2>4, CheckBaseEffect DEF CheckBase
  <2>6. Gap(s)' = Gap(s)
    BY <2>5 DEF Gap
  <2>7. QuietInv(s)'
    BY <1>3, <2>2, <2>4, <2>5, <2>6 DEF QuietInv
  <2> QED BY <1>1, <1>3, <2>1, <2>2, <2>3, <2>5, <2>7, HonestOne
<1>8. CASE RecvTree(s) \/ RecvObject(s) \/ StoreTree(s)
  <2>1. UNCHANGED <<owner, commits, mtip, ended>>
    BY <1>8 DEF RecvTree, RecvObject, StoreTree, mirror
  <2>2. UNCHANGED <<push, announced>>
    BY <2>1 DEF owner
  <2>3. /\ Others(s) /\ sess[s].phase = "fetch" /\ sess'[s].phase = "fetch"
        /\ sess'[s].ann = sess[s].ann /\ sess'[s].cur = sess[s].cur
        /\ sess'[s].missing = sess[s].missing
    BY <1>0, <1>8, RecvTreeEffect, RecvObjectEffect, StoreTreeEffect
  <2>4. Gap(s)' = Gap(s)
    BY <2>3 DEF Gap
  <2>5. QuietInv(s)'
    BY <1>0, <2>1, <2>2, <2>3, <2>4 DEF QuietInv
  <2> QED BY <1>1, <1>3, <2>1, <2>2, <2>3, <2>5, HonestOne
<1>9. CASE StoreCommit(s)
  <2>1. UNCHANGED <<owner, mtip, ended>>
    BY <1>9 DEF StoreCommit
  <2>2. UNCHANGED <<push, announced>>
    BY <2>1 DEF owner
  <2>3. /\ Others(s) /\ sess[s].phase = "fetch" /\ sess'[s].phase = "fetch"
        /\ sess'[s].ann = sess[s].ann /\ sess'[s].cur = sess[s].cur
    BY <1>0, <1>9, StoreCommitEffect DEF Drained
  <2>4. PICK c \in Gap(s) : /\ commits' = commits \cup {c}
                            /\ sess'[s].missing = sess[s].missing \ {c}
    BY <1>0, <1>9, SessStoreCommit
  <2>5. Gap(s)' = Gap(s)
    BY <2>3 DEF Gap
  <2>6. commits = (1 .. mtip) \cup (Gap(s) \ sess[s].missing)
    BY <1>0, <2>3 DEF QuietInv
  <2>7. commits' = (1 .. mtip) \cup (Gap(s) \ sess'[s].missing)
    BY <2>4, <2>6
  <2>8. QuietInv(s)'
    BY <1>0, <2>1, <2>2, <2>3, <2>5, <2>7 DEF QuietInv
  <2> QED BY <1>1, <1>3, <2>1, <2>2, <2>3, <2>8, HonestOne
<1>10. CASE AdvanceTip(s)
  <2>1. UNCHANGED <<owner, commits>> /\ mtip' = sess[s].ann
    BY <1>10 DEF AdvanceTip
  <2>2. UNCHANGED <<push, announced>>
    BY <2>1 DEF owner
  <2>3. Others(s) /\ sess'[s].phase = "idle" /\ ended' # "refused"
    BY <1>0, <1>1, <1>10, ClosesEffect DEF AdvanceTip
  <2>4. sess[s].missing = {} /\ sess[s].phase = "fetch"
    BY <1>0, <1>10, AdvanceFacts
  <2>5. commits = (1 .. mtip) \cup Gap(s) /\ sess[s].cur = mtip
    BY <1>0, <2>4 DEF QuietInv
  <2>6. commits = 1 .. sess[s].ann
    BY <1>1, <1>3, <2>5 DEF Gap
  <2>7. QuietInv(s)'
    BY <2>3 DEF QuietInv
  <2> QED BY <1>1, <1>3, <2>1, <2>2, <2>3, <2>6, <2>7, HonestOne
<1>11. CASE ReadFails(s)
  BY <1>3, <1>11 DEF ReadFails
<1>12. CASE IgnoresGrant(s) \/ AcceptsGrant(s)
  <2>1. UNCHANGED <<owner, mirror>> /\ sess[s].phase = "grant"
    BY <1>12 DEF IgnoresGrant, AcceptsGrant
  <2>2. UNCHANGED <<push, announced, mtip, commits>>
    BY <2>1 DEF owner, mirror
  <2>3. CASE End(s, "ignored")
    <3>1. Others(s) /\ sess'[s].phase = "idle" /\ ended' # "refused"
      BY <1>0, <1>1, <2>3, EndEffect
    <3>2. QuietInv(s)'
      BY <3>1 DEF QuietInv
    <3> QED BY <1>1, <1>3, <1>4, <2>1, <2>2, <3>1, <3>2, HonestOne
  <2>4. CASE sess' = [sess EXCEPT ![s].phase = "tip"] /\ UNCHANGED ended
    <3>1. Others(s) /\ sess'[s].phase = "tip" /\ sess'[s].ann = sess[s].ann
      BY <1>0, <2>1, <2>4, AcceptEffect
    <3>2. QuietInv(s)'
      BY <1>3, <2>2, <3>1 DEF QuietInv
    <3> QED BY <1>1, <1>3, <1>4, <2>1, <2>2, <2>4, <3>1, <3>2, HonestOne
  <2> QED BY <1>12, <2>3, <2>4 DEF IgnoresGrant, AcceptsGrant
<1> QED BY <1>5, <1>6, <1>7, <1>8, <1>9, <1>10, <1>11, <1>12 DEF Ingest

LEMMA HonestStep ==
    ASSUME MirrorInv, HonestInv, [Next]_vars
    PROVE  HonestInv'
<1> SUFFICES ASSUME faults' = 0 PROVE Undisturbed'
  BY DEF HonestInv
<1>0. TypeOK /\ ~Fault
  BY NoFaultYet DEF MirrorInv
<1>1. faults' = faults
  BY <1>0 DEF Next, Commit, PushEnds, HangUp, HostCrash, PushFails, StartPush, Serve, StoreFails,
         Ingest, IgnoresGrant, AcceptsGrant, GetTip, Walk, CheckBase, RecvTree, RecvObject, StoreTree, StoreCommit,
         AdvanceTip, ReadFails, vars
<1>2. Undisturbed
  BY <1>1 DEF HonestInv
<1>3. /\ mtip \in Nat /\ announced \in Nat /\ tip \in Nat
      /\ mtip <= announced /\ announced <= tip
  BY <1>0, <1>2, ReplicaAssumption DEF TypeOK, Undisturbed
<1>4. CASE Commit
  <2>1. tip' = tip + 1 /\ UNCHANGED <<push, announced, health, sess, ended>>
        /\ UNCHANGED <<commits, mtip>>
    BY <1>4 DEF Commit, mirror
  <2>2. announced <= tip'
    BY <1>3, <2>1
  <2> QED BY <1>2, <2>1, <2>2 DEF Undisturbed, QuietInv, Gap
<1>5. CASE PushEnds
  <2>1. /\ push \in Sessions /\ sess[push].phase = "idle" /\ push' = NoSession
        /\ UNCHANGED <<tip, announced, sess, ended, commits, mtip>>
    BY <1>0, <1>5 DEF PushEnds, mirror, TypeOK
  <2>3. \A r \in Sessions : sess[r].phase = "idle"
    BY <1>2, <2>1, OneConnection
  <2> QED BY <1>2, <2>1, <2>3 DEF Undisturbed, QuietInv
<1>6. ASSUME NEW s \in Sessions, StartPush(s) PROVE Undisturbed'
  <2>1. /\ push = NoSession /\ push' = s /\ announced' = tip /\ ended' = "running"
        /\ UNCHANGED <<tip, health, commits, mtip>>
    BY <1>6 DEF StartPush, mirror
  <2>2. Others(s) /\ sess'[s].phase = "grant" /\ sess'[s].ann = tip
    BY <1>0, <1>6, StartEffect
  <2>3. \A r \in Sessions : sess[r].phase = "idle"
    BY <1>2, <2>1, ReplicaAssumption DEF Undisturbed, QuietInv
  <2>4. \A r \in Sessions : r # s => sess'[r].phase = "idle"
    BY <2>2, <2>3 DEF Others
  <2>5. \A r \in Sessions : QuietInv(r)'
    BY <2>1, <2>2, <2>4 DEF QuietInv
  <2>6. commits' = 1 .. mtip' /\ ended' # "refused" /\ mtip' <= announced' /\ announced' <= tip'
    BY <1>2, <1>3, <2>1, <2>3 DEF Undisturbed
  <2> QED BY <2>5, <2>6 DEF Undisturbed
<1>7. ASSUME NEW s \in Sessions, Serve(s) PROVE Undisturbed'
  <2>1. push = s /\ UNCHANGED <<owner, mirror, ended>>
    BY <1>7 DEF Serve
  <2>2. UNCHANGED <<push, announced, mtip, commits>>
    BY <2>1 DEF owner, mirror
  <2>3. /\ Others(s) /\ sess'[s].phase = sess[s].phase
        /\ sess'[s].ann = sess[s].ann /\ sess'[s].cur = sess[s].cur
        /\ sess'[s].missing = sess[s].missing
    BY <1>0, <1>7, ServeEffect
  <2>4. Gap(s)' = Gap(s)
    BY <2>3 DEF Gap
  <2>5. QuietInv(s) /\ ended # "refused"
    BY <1>2, <1>7 DEF Undisturbed
  <2>6. sess[s].phase # "fetch" => commits = 1 .. mtip
    <3>1. \A r \in Sessions : r # s => sess[r].phase = "idle"
      BY <1>2, <1>7, <2>1, OneConnection
    <3> QED BY <1>2, <3>1 DEF Undisturbed
  <2>7. QuietInv(s)'
    BY <2>2, <2>3, <2>4, <2>5 DEF QuietInv
  <2> QED BY <1>2, <1>3, <1>7, <2>1, <2>2, <2>3, <2>5, <2>6, <2>7, HonestOne
<1>8. ASSUME NEW s \in Sessions, Ingest(s) PROVE Undisturbed'
  BY <1>0, <1>1, <1>2, <1>8, HonestIngest
<1>9. CASE UNCHANGED vars
  BY <1>2, <1>9 DEF vars, owner, mirror, Undisturbed, QuietInv, Gap
<1> QED BY <1>0, <1>4, <1>5, <1>6, <1>7, <1>8, <1>9
        DEF Next, HangUp, HostCrash, PushFails, StoreFails

LEMMA HonestInit ==
    Init => HonestInv
<1> SUFFICES ASSUME Init PROVE Undisturbed
  BY DEF HonestInv
<1>1. \A s \in Sessions : sess[s].phase = "idle"
  BY IdleFields DEF Init
<1>2. mtip = 0 /\ announced = 0 /\ tip = 0 /\ commits = {} /\ push = NoSession /\ ended = "none"
  BY DEF Init
<1> QED BY <1>1, <1>2 DEF Undisturbed, QuietInv

----------------------------------------------------------------------------
(* What became of the newest push, whatever fails. *)

(* A step of the thread of connection s, the newest or one given up: it goes on,
   or it ends. *)
GoesOn(s) ==
    /\ UNCHANGED <<mtip, ended>> /\ sess'[s].ann = sess[s].ann
    /\ sess'[s].phase = "idle" <=> sess[s].phase = "idle"
EndsLate == UNCHANGED <<mtip, ended>> \/ ended' = IF ended = "done" THEN "overtaken" ELSE ended
EndsNewest ==
    \/ ended' \in {"ignored", "refused"}
    \/ ended' = "failed" /\ faults' > 0
    \/ ended' = "done" /\ mtip' = announced /\ announced \in commits \cup {0}
Ends(s) ==
    /\ sess'[s].phase = "idle" /\ sess'[s].ann = 0
    /\ s # push => EndsLate
    /\ s = push => EndsNewest

LEMMA EndedThread ==
    ASSUME TypeOK, EndedInv, NEW s \in Sessions, GoesOn(s) \/ Ends(s), Others(s),
           UNCHANGED owner, commits \subseteq commits', mtip' <= announced,
           Fault \/ UNCHANGED faults
    PROVE  EndedInv'
<1>1. UNCHANGED <<tip, push, announced, health>>
  BY DEF owner
<1>2. /\ announced \in Nat /\ faults \in Nat /\ push \in Sessions \cup {NoSession}
      /\ faults' >= faults /\ faults' \in Nat
  BY ReplicaAssumption DEF TypeOK, Fault
<1>3. \A r \in Sessions : sess'[r].ann <= announced
  BY <1>2 DEF EndedInv, GoesOn, Ends, Others
<1>4. push # NoSession =>
        IF sess'[push].phase = "idle" THEN ended' \notin {"none", "running"}
        ELSE ended' = "running" /\ sess'[push].ann = announced
  <2>1. CASE push = s
    BY <2>1 DEF EndedInv, GoesOn, Ends, EndsNewest
  <2>2. CASE push # s /\ push \in Sessions
    BY <2>2 DEF EndedInv, GoesOn, Ends, EndsLate, Others
  <2> QED BY <1>2, <2>1, <2>2
<1>5. health = "ok" /\ push = NoSession => ended' \notin {"none", "running"}
  BY ReplicaAssumption DEF EndedInv, GoesOn, Ends, EndsLate
<1>6. /\ ended' = "done" => mtip' = announced
      /\ ended' \in {"done", "overtaken"} => announced \in commits' \cup {0}
  BY DEF EndedInv, GoesOn, Ends, EndsLate, EndsNewest
<1>7. ended' \in {"failed", "crashed"} => faults' > 0
  BY <1>2 DEF EndedInv, GoesOn, Ends, EndsLate, EndsNewest
<1> QED BY <1>1, <1>3, <1>4, <1>5, <1>6, <1>7 DEF EndedInv

LEMMA EndedIngest ==
    ASSUME MirrorInv, EndedInv, NEW s \in Sessions, Ingest(s)
    PROVE  EndedInv'
<1>0. TypeOK /\ SessInv(s)
  BY DEF MirrorInv
<1>1. /\ sess[s].ann \in Nat /\ mtip \in Nat /\ announced \in Nat
      /\ mtip <= announced /\ sess[s].ann <= announced /\ faults \in Nat
  BY <1>0, SessionFields, ReplicaAssumption DEF TypeOK, EndedInv
<1>2. sess[s].phase # "idle"
  BY DEF Ingest, IgnoresGrant, AcceptsGrant, GetTip, Walk, CheckBase, RecvTree, RecvObject,
         StoreTree, StoreCommit, AdvanceTip, ReadFails, Drained
<1>3. s = push => sess[s].ann = announced
  BY <1>2, ReplicaAssumption DEF EndedInv
<1>4. ASSUME UNCHANGED <<owner, mirror, faults>>, GoesOn(s), Others(s) PROVE EndedInv'
  BY <1>0, <1>1, <1>4, EndedThread DEF mirror
<1>5. ASSUME UNCHANGED <<owner, mirror>>, Fault \/ UNCHANGED faults, NEW how, End(s, how),
             s = push => \/ how \in {"ignored", "refused"}
                         \/ how = "failed" /\ faults' > 0
                         \/ how = "done" /\ mtip = announced
      PROVE  EndedInv'
  <2>1. Others(s) /\ sess'[s].phase = "idle" /\ sess'[s].ann = 0
        /\ ended' = IF s = push THEN how ELSE ended
    BY <1>0, <1>5, EndEffect
  <2>2. UNCHANGED <<mtip, commits>> /\ mtip \in commits \cup {0}
    BY <1>5 DEF mirror, MirrorInv, MirrorComplete
  <2>3. Ends(s)
    BY <1>5, <2>1, <2>2 DEF Ends, EndsLate, EndsNewest
  <2> QED BY <1>0, <1>1, <1>5, <2>1, <2>2, <2>3, EndedThread
<1>6. CASE IgnoresGrant(s)
  BY <1>5, <1>6 DEF IgnoresGrant
<1>7. CASE AcceptsGrant(s)
  <2>1. CASE End(s, "failed") /\ Fault
    <3>1. faults' > 0
      BY <1>1, <2>1 DEF Fault
    <3> QED BY <1>5, <1>7, <2>1, <3>1 DEF AcceptsGrant
  <2>2. CASE sess' = [sess EXCEPT ![s].phase = "tip"] /\ UNCHANGED <<ingest, ended, faults>>
    <3>1. Others(s) /\ sess'[s].phase = "tip" /\ sess'[s].ann = sess[s].ann
      BY <1>0, <1>7, <2>2, AcceptEffect DEF AcceptsGrant
    <3>2. UNCHANGED <<owner, mirror>>
      BY <1>7 DEF AcceptsGrant
    <3> QED BY <1>2, <1>4, <2>2, <3>1, <3>2 DEF GoesOn, mirror
  <2> QED BY <1>7, <2>1, <2>2 DEF AcceptsGrant
<1>8. CASE GetTip(s)
  <2>1. UNCHANGED <<owner, mirror, faults>> /\ push = s
    BY <1>8 DEF GetTip
  <2>2. CASE sess[s].ann \in {0, mtip} /\ End(s, "done")
    <3>1. mtip = announced
      BY <1>1, <1>3, <2>1, <2>2
    <3> QED BY <1>5, <2>1, <2>2, <3>1
  <2>3. CASE sess[s].ann \notin {0, mtip} /\ UNCHANGED ended
    <3>1. Others(s) /\ sess'[s].phase = "walk" /\ sess'[s].ann = sess[s].ann
      BY <1>0, <1>8, <2>3, GetTipEffect
    <3> QED BY <1>2, <1>4, <2>1, <2>3, <3>1 DEF GoesOn, mirror
  <2> QED BY <1>8, <2>2, <2>3 DEF GetTip
<1>9. CASE Walk(s)
  <2>1. UNCHANGED <<owner, mirror, ended, faults>>
    BY <1>9 DEF Walk
  <2>2. Others(s) /\ sess'[s].phase \in {"walk", "base"} /\ sess'[s].ann = sess[s].ann
    BY <1>0, <1>9, WalkEffect
  <2> QED BY <1>2, <1>4, <2>1, <2>2 DEF GoesOn, mirror
<1>10. CASE CheckBase(s)
  <2>1. UNCHANGED <<owner, mirror, faults>>
    BY <1>10 DEF CheckBase
  <2>2. CASE End(s, "refused")
    BY <1>5, <2>1, <2>2
  <2>3. CASE mtip = sess[s].cur /\ UNCHANGED ended
    <3>1. Others(s) /\ sess'[s].phase = "fetch" /\ sess'[s].ann = sess[s].ann
      BY <1>0, <1>10, <2>3, CheckBaseEffect
    <3> QED BY <1>2, <1>4, <2>1, <2>3, <3>1 DEF GoesOn, mirror
  <2> QED BY <1>10, <2>2, <2>3 DEF CheckBase
<1>11. CASE RecvTree(s) \/ RecvObject(s) \/ StoreTree(s) \/ StoreCommit(s)
  <2>1. UNCHANGED <<owner, mtip, ended, faults>> /\ commits \subseteq commits'
    BY <1>11 DEF RecvTree, RecvObject, StoreTree, StoreCommit, mirror
  <2>2. Others(s) /\ sess'[s].phase = "fetch" /\ sess'[s].ann = sess[s].ann
    BY <1>0, <1>11, RecvTreeEffect, RecvObjectEffect, StoreTreeEffect, StoreCommitEffect
  <2> QED BY <1>0, <1>1, <1>2, <2>1, <2>2, EndedThread DEF GoesOn
<1>12. CASE AdvanceTip(s)
  <2>1. /\ UNCHANGED <<owner, commits>> /\ mtip' = sess[s].ann
        /\ ended' = IF s = push THEN ingest'
                    ELSE IF ended = "done" THEN "overtaken" ELSE ended
        /\ Fault \/ UNCHANGED faults
    BY <1>12 DEF AdvanceTip
  <2>2. /\ Others(s) /\ sess'[s].phase = "idle" /\ sess'[s].ann = 0
        /\ ingest' = "done" \/ (ingest' = "failed" /\ Fault)
    BY <1>0, <1>12, ClosesEffect DEF AdvanceTip
  <2>3. sess[s].ann \in commits \cup {0}
    BY <1>0, <1>12, AdvanceFacts
  <2>4. ingest' = "failed" => faults' > 0
    BY <1>1, <2>2 DEF Fault
  <2>5. Ends(s)
    BY <1>3, <2>1, <2>2, <2>3, <2>4 DEF Ends, EndsLate, EndsNewest
  <2> QED BY <1>0, <1>1, <2>1, <2>2, <2>5, EndedThread
<1>13. CASE ReadFails(s)
  BY <1>5, <1>13 DEF ReadFails
<1> QED BY <1>6, <1>7, <1>8, <1>9, <1>10, <1>11, <1>12, <1>13 DEF Ingest

LEMMA EndedStep ==
    ASSUME MirrorInv, EndedInv, [Next]_vars
    PROVE  EndedInv'
<1>0. /\ TypeOK /\ push \in Sessions \cup {NoSession} /\ faults \in Nat
      /\ tip \in Nat /\ announced \in Nat /\ mtip \in Nat
  BY ReplicaAssumption DEF MirrorInv, TypeOK
<1>1. CASE Commit
  <2>1. tip' = tip + 1 /\ UNCHANGED <<push, announced, health, sess, ended, faults>>
        /\ UNCHANGED <<commits, mtip>>
    BY <1>1 DEF Commit, mirror
  <2>2. announced <= tip'
    BY <1>0, <2>1 DEF EndedInv
  <2> QED BY <2>1, <2>2 DEF EndedInv
<1>2. CASE PushEnds
  <2>1. /\ push # NoSession /\ sess[push].phase = "idle" /\ push' = NoSession
        /\ UNCHANGED <<tip, announced, sess, ended, faults, commits, mtip>>
    BY <1>2 DEF PushEnds, mirror
  <2> QED BY <2>1 DEF EndedInv
<1>3. CASE HangUp \/ \E o \in {"noroute", "error"} : PushFails(o)
  <2>1. /\ health' # "ok" /\ Fault /\ push' = NoSession
        /\ UNCHANGED <<tip, announced, sess, ended, commits, mtip>>
    BY <1>3 DEF HangUp, PushFails, mirror
  <2>2. faults' > 0
    BY <1>0, <2>1 DEF Fault
  <2> QED BY <2>1, <2>2 DEF EndedInv
<1>4. CASE HostCrash
  <2>1. /\ Fault /\ ended' = IF ended = "running" THEN "crashed" ELSE ended
        /\ UNCHANGED <<owner, commits, mtip>> /\ sess' = [s \in Sessions |-> Idle]
    BY <1>4 DEF HostCrash, mirror
  <2>2. faults' > 0
    BY <1>0, <2>1 DEF Fault
  <2>3. \A r \in Sessions : sess'[r].phase = "idle" /\ sess'[r].ann = 0
    BY <2>1, IdleFields
  <2>4. UNCHANGED <<tip, push, announced, health>>
    BY <2>1 DEF owner
  <2>5. push # NoSession => sess'[push].phase = "idle" /\ ended' \notin {"none", "running"}
    BY <1>0, <2>1, <2>3 DEF EndedInv
  <2> QED BY <1>0, <2>1, <2>2, <2>3, <2>4, <2>5 DEF EndedInv
<1>5. ASSUME NEW s \in Sessions, StartPush(s) PROVE EndedInv'
  <2>1. /\ push' = s /\ announced' = tip /\ ended' = "running"
        /\ UNCHANGED <<tip, health, faults, commits, mtip>>
    BY <1>5 DEF StartPush, mirror
  <2>2. Others(s) /\ sess'[s].phase = "grant" /\ sess'[s].ann = tip
    BY <1>0, <1>5, StartEffect
  <2>3. \A r \in Sessions : sess[r].ann \in Nat
    BY <1>0, SessionFields, ReplicaAssumption
  <2>4. \A r \in Sessions : sess'[r].ann <= announced'
    BY <1>0, <2>1, <2>2, <2>3 DEF EndedInv, Others
  <2>5. mtip' <= announced' /\ announced' <= tip'
    BY <1>0, <2>1 DEF EndedInv
  <2>6. push' # NoSession
    BY <1>5, <2>1, ReplicaAssumption
  <2> QED BY <2>1, <2>2, <2>4, <2>5, <2>6 DEF EndedInv
<1>6. ASSUME NEW s \in Sessions, Serve(s) PROVE EndedInv'
  <2>1. UNCHANGED <<owner, mirror, ended, faults>>
    BY <1>6 DEF Serve
  <2>2. Others(s) /\ sess'[s].phase = sess[s].phase /\ sess'[s].ann = sess[s].ann
    BY <1>0, <1>6, ServeEffect
  <2>3. mtip <= announced
    BY DEF EndedInv
  <2> QED BY <1>0, <1>6, <2>1, <2>2, <2>3, EndedThread DEF GoesOn, mirror
<1>7. ASSUME NEW s \in Sessions, Ingest(s) PROVE EndedInv'
  BY <1>7, EndedIngest
<1>8. ASSUME NEW s \in Sessions, StoreFails(s) PROVE EndedInv'
  <2>1. UNCHANGED <<owner, mirror>> /\ Fault /\ End(s, "failed")
    BY <1>8 DEF StoreFails
  <2>2. /\ Others(s) /\ sess'[s].phase = "idle" /\ sess'[s].ann = 0
        /\ ended' = IF s = push THEN "failed" ELSE ended
    BY <1>0, <1>8, <2>1, EndEffect
  <2>3. faults' > 0
    BY <1>0, <2>1 DEF Fault
  <2>4. Ends(s) /\ mtip' <= announced
    BY <2>1, <2>2, <2>3 DEF Ends, EndsLate, EndsNewest, mirror, EndedInv
  <2> QED BY <1>0, <1>8, <2>1, <2>2, <2>4, EndedThread DEF mirror
<1>9. CASE UNCHANGED vars
  BY <1>9 DEF vars, owner, mirror, EndedInv
<1> QED BY <1>1, <1>2, <1>3, <1>4, <1>5, <1>6, <1>7, <1>8, <1>9 DEF Next

LEMMA EndedInit ==
    Init => EndedInv
BY IdleFields DEF Init, EndedInv

(* Spec => []HonestPushMirrored: the tip of the mirror is what a push announced
   whose thread ended well, whatever failed or overlapped before, until the thread
   of a connection that was given up moves it, and the commit stays in any case;
   a pull is refused or cut short after a fault alone, so that without one a push
   the owner records as successful is mirrored, or the host ignored its grant. *)
THEOREM HonestPushes == Spec => []HonestPushMirrored
<1>1. MirrorInv /\ HonestInv /\ EndedInv /\ [Next]_vars => (MirrorInv /\ HonestInv /\ EndedInv)'
  BY MirrorStep, HonestStep, EndedStep
<1>2. TypeOK /\ HonestInv /\ EndedInv => HonestPushMirrored
  <2> SUFFICES ASSUME TypeOK, HonestInv, EndedInv, health = "ok", push = NoSession
               PROVE  \/ ended = "done" /\ mtip = announced
                      \/ ended = "overtaken" /\ announced \in commits \cup {0}
                      \/ ended = "ignored"
                      \/ ended \in {"refused", "failed", "crashed"} /\ faults > 0
    BY DEF HonestPushMirrored
  <2>1. ended \in {"done", "overtaken", "ignored", "refused", "failed", "crashed"}
    BY DEF TypeOK, EndedInv
  <2>2. ended = "refused" => faults > 0
    BY ReplicaAssumption DEF HonestInv, Undisturbed, TypeOK
  <2> QED BY <2>1, <2>2 DEF EndedInv
<1>3. MirrorInv => TypeOK
  BY DEF MirrorInv
<1> QED BY <1>1, <1>2, <1>3, MirrorInit, HonestInit, EndedInit, PTL DEF Spec
=============================================================================
