--------------------------- MODULE OpsEngineProofs ---------------------------
(***************************************************************************)
(* Proofs about OpsEngine, for any threads, devices, problems, records,    *)
(* Finders and environments.                                               *)
(*                                                                         *)
(* The invariant says what a search knows at each of its places. It is     *)
(* written with the policy as a parameter, so that what a step leaves      *)
(* alone stays true by itself, and so that the one step that concerns      *)
(* every thread and the whole cache at once -- a setting is read for the   *)
(* first time -- is a statement about two policies (section "Latching").   *)
(***************************************************************************)
EXTENDS OpsEngine, TLAPS

Settled(p) == Read(p, "enabled") /\ Read(p, "disabled")

FindersSettled(p) == NumFinders = 0 \/ Read(p, "finders")

\* No source before f contributes.
Earlier(p, r, f) == \A g \in 1 .. f - 1 : ~Contributes(p, r, g)

\* Every record among the first c - 1 candidates has been seen.
Covered(r, f, c, sn) ==
  \A x \in 1 .. c - 1 : Candidates(r, f)[x] \in Records => Candidates(r, f)[x] \in sn

\* A usable record that has been seen is selected.
Kept(p, r, sel, sn) == \A i \in sn : i \in Usable(p, r) => i \in Items(sel)

\* What is selected is usable, was seen and is among the first candidates.
Drawn(p, r, f, c, sel, sn) ==
  \A a \in 1 .. Len(sel) :
    /\ sel[a] \in sn
    /\ sel[a] \in Usable(p, r)
    /\ \E x \in 1 .. c - 1 : Candidates(r, f)[x] = sel[a]

Ordered(r, f, c, sel) ==
  \A a, b \in 1 .. Len(sel) :
    a < b => \E x \in 1 .. c - 1 :
               /\ Candidates(r, f)[x] = sel[a]
               /\ \A d \in 1 .. x : Candidates(r, f)[d] # sel[b]

Named(p, r, sn, rej) == rej = {i \in sn : Allowed(p, i) /\ i \notin Applicable[r]}

Fresh(f, c, sel, sn, rej) == f = 1 /\ c = 1 /\ sel = NoList /\ sn = {} /\ rej = {}

InFinder(p, r, f, c, sel, sn, rej) ==
  /\ c = 1 /\ sel = NoList
  /\ Earlier(p, r, f)
  /\ Kept(p, r, sel, sn)
  /\ Named(p, r, sn, rej)
  /\ sn # {} => Settled(p)
  /\ f > 1 => FindersSettled(p)

InOffer(p, r, f, c, sel, sn, rej) ==
  /\ Consulted(p, f)
  /\ c <= Len(Candidates(r, f)) + 1
  /\ Earlier(p, r, f)
  /\ Covered(r, f, c, sn)
  /\ Kept(p, r, sel, sn)
  /\ Drawn(p, r, f, c, sel, sn)
  /\ Ordered(r, f, c, sel)
  /\ Named(p, r, sn, rej)
  /\ sn # {} => Settled(p)
  /\ FindersSettled(p)

Chosen(p, r, sel) == IsSelection(p, sel, r) /\ Settled(p) /\ FindersSettled(p)

Refused(p, r, rej) ==
  /\ Usable(p, r) = {}
  /\ rej = {i \in Records : Allowed(p, i)}
  /\ Records # {} => Settled(p)

Sound(p, label, r, f, c, sel, sn, rej, out) ==
  /\ label \in {"idle", "validate", "lookup"} => Fresh(f, c, sel, sn, rej)
  /\ label = "finder" => InFinder(p, r, f, c, sel, sn, rej)
  /\ label = "offer" => InOffer(p, r, f, c, sel, sn, rej)
  /\ label \in {"publish", "configure"} => Chosen(p, r, sel)
  /\ out.status = "SUCCESS" => Chosen(p, r, out.records)
  /\ out.status = "UNSUPPORTED" => Refused(p, r, rej)
  /\ label # "done" => out = NoOutcome

StoreSound(p, s) ==
  \A r \in Requests : s[CacheKey(r)] # Absent => Chosen(p, r, s[CacheKey(r)])

ThreadSound(t) ==
  Sound(policy, pc[t], request[t], source[t], place[t], selected[t], seen[t],
        rejected[t], outcome[t])

\* The inductive invariant.
EngineInv ==
  /\ TypeOK
  /\ \A t \in Threads : ThreadSound(t)
  /\ StoreSound(policy, store)

-----------------------------------------------------------------------------
(* Data. *)

\* The candidates of every source are a sequence of numbers.
LEMMA CandidatesType ==
  ASSUME NEW r \in Requests, NEW f \in Sources
  PROVE  Candidates(r, f) \in Seq(Nat)
<1>1. RegistrationOrder \in Seq(Nat)
  BY EngineAssumption DEF RegistrationOrder
<1>2. f # NumFinders + 1 => f \in 1 .. NumFinders
  BY EngineAssumption DEF Sources
<1> QED  BY <1>1, <1>2, EngineAssumption DEF Candidates

\* The walk at the end of the sources offers every record.
LEMMA WalkOffersAll ==
  ASSUME NEW r
  PROVE  /\ Len(Candidates(r, NumFinders + 1)) = NumRecords
         /\ \A i \in Records : Candidates(r, NumFinders + 1)[i] = i
BY EngineAssumption DEF Candidates, RegistrationOrder, Records

LEMMA EmptyList ==
  /\ NoList \in Seq(Records)
  /\ Len(NoList) = 0
  /\ Items(NoList) = {}
<1>1. NoList \in Seq(Records) /\ Len(NoList) = 0  BY DEF NoList
<1> QED  BY <1>1 DEF Items

LEMMA NonEmptyList ==
  ASSUME NEW s \in Seq(Records), s # NoList
  PROVE  Len(s) >= 1
BY DEF NoList

\* What appending a record does to a list.
LEMMA AppendedList ==
  ASSUME NEW s \in Seq(Records), NEW i \in Records
  PROVE  /\ Append(s, i) \in Seq(Records)
         /\ Len(Append(s, i)) = Len(s) + 1
         /\ \A a \in 1 .. Len(s) : Append(s, i)[a] = s[a]
         /\ Append(s, i)[Len(s) + 1] = i
         /\ Items(Append(s, i)) = Items(s) \cup {i}
<1>1. /\ Append(s, i) \in Seq(Records)
      /\ Len(Append(s, i)) = Len(s) + 1
      /\ \A a \in 1 .. Len(s) : Append(s, i)[a] = s[a]
      /\ Append(s, i)[Len(s) + 1] = i
  OBVIOUS
<1>2. Len(s) \in Nat  OBVIOUS
<1>3. Items(Append(s, i)) = Items(s) \cup {i}
  <2>1. ASSUME NEW x \in Items(Append(s, i)) PROVE x \in Items(s) \cup {i}
    BY <1>1, <1>2, <2>1 DEF Items
  <2>2. ASSUME NEW x \in Items(s) PROVE x \in Items(Append(s, i))
    <3>1. PICK a \in 1 .. Len(s) : x = s[a]  BY DEF Items
    <3>2. a \in 1 .. Len(Append(s, i)) /\ x = Append(s, i)[a]  BY <1>1, <1>2, <3>1
    <3> QED  BY <3>2 DEF Items
  <2>3. i \in Items(Append(s, i))
    <3>1. Len(s) + 1 \in 1 .. Len(Append(s, i))  BY <1>1, <1>2
    <3> QED  BY <1>1, <3>1 DEF Items
  <2> QED  BY <2>1, <2>2, <2>3
<1> QED  BY <1>1, <1>3

\* Requests with one key have one selection.
LEMMA SameKeySameSelection ==
  ASSUME NEW r \in Requests, NEW q \in Requests, CacheKey(r) = CacheKey(q),
         NEW p, NEW sel, Chosen(p, r, sel)
  PROVE  Chosen(p, q, sel)
<1>1. Offers[r] = Offers[q] /\ Applicable[r] = Applicable[q]
  BY KeyContract DEF CacheKey
<1>2. \A f : Candidates(r, f) = Candidates(q, f)  BY <1>1 DEF Candidates
<1>3. Usable(p, r) = Usable(p, q)  BY <1>1 DEF Usable
<1>4. \A f : Contributes(p, r, f) <=> Contributes(p, q, f)
  BY <1>2, <1>3 DEF Contributes
<1>5. IsSelection(p, sel, q)
  <2>1. PICK f \in Sources : /\ Contributes(p, r, f)
                             /\ \A g \in 1 .. f - 1 : ~Contributes(p, r, g)
                             /\ Ranks(sel, Candidates(r, f), Usable(p, r))
    BY DEF Chosen, IsSelection
  <2>2. Ranks(sel, Candidates(q, f), Usable(p, q))  BY <2>1, <1>2, <1>3
  <2> QED  BY <2>1, <2>2, <1>4 DEF IsSelection
<1> QED  BY <1>5 DEF Chosen

-----------------------------------------------------------------------------
(* Latching: a setting is read for the first time. *)

\* q is p after variable v was latched to the setting x.
Latched(p, q, v, x) ==
  /\ DOMAIN p = Variables
  /\ v \in Variables
  /\ ~Read(p, v)
  /\ q = [p EXCEPT ![v] = x]

LEMMA LatchedReads ==
  ASSUME NEW p, NEW q, NEW v, NEW x, Latched(p, q, v, x)
  PROVE  \A u \in Variables : Read(p, u) => q[u] = p[u] /\ Read(q, u)
BY DEF Latched, Read

\* The first reading of a list can only take records away, and none once
\* both lists were read.
LEMMA LatchedAllowed ==
  ASSUME NEW p, NEW q, NEW v, NEW x, Latched(p, q, v, x)
  PROVE  /\ \A i : Allowed(q, i) => Allowed(p, i)
         /\ Settled(p) => Settled(q) /\ \A i : Allowed(q, i) <=> Allowed(p, i)
         /\ \A f : FinderDisabled(p, f) => FinderDisabled(q, f)
         /\ FindersSettled(p) =>
              /\ FindersSettled(q)
              /\ NumFinders # 0 => \A f : FinderDisabled(q, f) <=> FinderDisabled(p, f)
<1>1. \A u \in Variables : Read(p, u) => q[u] = p[u] /\ Read(q, u)  BY LatchedReads
<1>2. {"finders", "enabled", "disabled"} \subseteq Variables  BY DEF Variables
<1>3. \A i : Allowed(q, i) => Allowed(p, i)  BY <1>1, <1>2 DEF Allowed
<1>4. ASSUME Settled(p) PROVE Settled(q) /\ \A i : Allowed(q, i) <=> Allowed(p, i)
  BY <1>1, <1>2, <1>4 DEF Allowed, Settled
<1>5. \A f : FinderDisabled(p, f) => FinderDisabled(q, f)
  BY <1>1, <1>2 DEF FinderDisabled
<1>6. ASSUME FindersSettled(p)
      PROVE  /\ FindersSettled(q)
             /\ NumFinders # 0 => \A f : FinderDisabled(q, f) <=> FinderDisabled(p, f)
  BY <1>1, <1>2, <1>6 DEF FinderDisabled, FindersSettled
<1> QED  BY <1>3, <1>4, <1>5, <1>6

LEMMA LatchedUsable ==
  ASSUME NEW p, NEW q, NEW v, NEW x, Latched(p, q, v, x), NEW r
  PROVE  /\ Usable(q, r) \subseteq Usable(p, r)
         /\ Settled(p) => Usable(q, r) = Usable(p, r)
BY LatchedAllowed DEF Usable

\* A source that does not contribute does not come to contribute.
LEMMA LatchedEarlier ==
  ASSUME NEW p, NEW q, NEW v, NEW x, Latched(p, q, v, x), NEW r, NEW f, Earlier(p, r, f)
  PROVE  Earlier(q, r, f)
<1>1. ASSUME NEW g, Contributes(q, r, g) PROVE Contributes(p, r, g)
  <2>1. Consulted(p, g)  BY <1>1, LatchedAllowed DEF Contributes, Consulted
  <2>2. Usable(q, r) \subseteq Usable(p, r)  BY LatchedUsable
  <2> QED  BY <1>1, <2>1, <2>2 DEF Contributes
<1> QED  BY <1>1 DEF Earlier

\* A selection made under settled lists stays the selection.
LEMMA LatchedChosen ==
  ASSUME NEW p, NEW q, NEW v, NEW x, Latched(p, q, v, x),
         NEW r, NEW sel, Chosen(p, r, sel)
  PROVE  Chosen(q, r, sel)
<1>1. Settled(p) /\ FindersSettled(p)  BY DEF Chosen
<1>2. Settled(q) /\ FindersSettled(q)  BY <1>1, LatchedAllowed
<1>3. Usable(q, r) = Usable(p, r)  BY <1>1, LatchedUsable
<1>4. ASSUME NEW f \in Sources PROVE Consulted(q, f) <=> Consulted(p, f)
  <2>1. CASE NumFinders = 0
    <3>1. f = NumFinders + 1  BY <2>1 DEF Sources
    <3> QED  BY <3>1 DEF Consulted
  <2>2. CASE NumFinders # 0
    BY <2>2, <1>1, LatchedAllowed DEF Consulted
  <2> QED  BY <2>1, <2>2
<1>5. \A f \in Sources : Contributes(q, r, f) <=> Contributes(p, r, f)
  BY <1>3, <1>4 DEF Contributes
<1>6. PICK f \in Sources : /\ Contributes(p, r, f)
                           /\ \A g \in 1 .. f - 1 : ~Contributes(p, r, g)
                           /\ Ranks(sel, Candidates(r, f), Usable(p, r))
  BY DEF Chosen, IsSelection
<1>7. \A g \in 1 .. f - 1 : g \in Sources  BY EngineAssumption DEF Sources
<1>8. IsSelection(q, sel, r)  BY <1>3, <1>5, <1>6, <1>7 DEF IsSelection
<1> QED  BY <1>2, <1>8 DEF Chosen

LEMMA LatchedRefused ==
  ASSUME NEW p, NEW q, NEW v, NEW x, Latched(p, q, v, x),
         NEW r \in Requests, NEW rej, Refused(p, r, rej)
  PROVE  Refused(q, r, rej)
<1>1. Usable(q, r) = {}  BY LatchedUsable DEF Refused
<1>2. CASE Records = {}  BY <1>1, <1>2 DEF Refused
<1>3. CASE Records # {}
  <2>1. Settled(p)  BY <1>3 DEF Refused
  <2>2. Settled(q) /\ \A i : Allowed(q, i) <=> Allowed(p, i)  BY <2>1, LatchedAllowed
  <2> QED  BY <1>1, <2>2 DEF Refused
<1> QED  BY <1>2, <1>3

LEMMA LatchedFinder ==
  ASSUME NEW p, NEW q, NEW v, NEW x, Latched(p, q, v, x),
         NEW r, NEW f, NEW c, NEW sel, NEW sn, NEW rej, InFinder(p, r, f, c, sel, sn, rej)
  PROVE  InFinder(q, r, f, c, sel, sn, rej)
<1>1. Earlier(q, r, f)  BY LatchedEarlier DEF InFinder
<1>2. Usable(q, r) \subseteq Usable(p, r)  BY LatchedUsable
<1>3. Kept(q, r, sel, sn)  BY <1>2 DEF InFinder, Kept
<1>4. sn # {} => Settled(q)  BY LatchedAllowed DEF InFinder
<1>5. Named(q, r, sn, rej)
  <2>1. CASE sn = {}  BY <2>1 DEF InFinder, Named
  <2>2. CASE sn # {}
    <3>1. \A i : Allowed(q, i) <=> Allowed(p, i)  BY <2>2, LatchedAllowed DEF InFinder
    <3> QED  BY <3>1 DEF InFinder, Named
  <2> QED  BY <2>1, <2>2
<1>6. f > 1 => FindersSettled(q)  BY LatchedAllowed DEF InFinder
<1> QED  BY <1>1, <1>3, <1>4, <1>5, <1>6 DEF InFinder

LEMMA LatchedOffer ==
  ASSUME NEW p, NEW q, NEW v, NEW x, Latched(p, q, v, x),
         NEW r, NEW f \in Sources, NEW c, NEW sel \in Seq(Records), NEW sn, NEW rej,
         InOffer(p, r, f, c, sel, sn, rej)
  PROVE  InOffer(q, r, f, c, sel, sn, rej)
<1>1. Earlier(q, r, f)  BY LatchedEarlier DEF InOffer
<1>2. Usable(q, r) \subseteq Usable(p, r)  BY LatchedUsable
<1>3. Kept(q, r, sel, sn)  BY <1>2 DEF InOffer, Kept
<1>4. sn # {} => Settled(q)  BY LatchedAllowed DEF InOffer
<1>5. Named(q, r, sn, rej) /\ Drawn(q, r, f, c, sel, sn)
  <2>1. CASE sn = {}  BY <2>1 DEF InOffer, Named, Drawn
  <2>2. CASE sn # {}
    <3>1. Settled(p)  BY <2>2 DEF InOffer
    <3>2. \A i : Allowed(q, i) <=> Allowed(p, i)  BY <3>1, LatchedAllowed
    <3>3. Usable(q, r) = Usable(p, r)  BY <3>1, LatchedUsable
    <3> QED  BY <3>2, <3>3 DEF InOffer, Named, Drawn
  <2> QED  BY <2>1, <2>2
<1>6. FindersSettled(q)  BY LatchedAllowed DEF InOffer
<1>7. Consulted(q, f)
  <2>1. CASE NumFinders = 0
    <3>1. f = NumFinders + 1  BY <2>1 DEF Sources
    <3> QED  BY <3>1 DEF Consulted
  <2>2. CASE NumFinders # 0
    <3>1. FindersSettled(p) /\ Consulted(p, f)  BY DEF InOffer
    <3> QED  BY <2>2, <3>1, LatchedAllowed DEF Consulted
  <2> QED  BY <2>1, <2>2
<1> QED  BY <1>1, <1>3, <1>4, <1>5, <1>6, <1>7 DEF InOffer

\* What a thread knows survives the latching, wherever it is.
LEMMA LatchedSound ==
  ASSUME NEW p, NEW q, NEW v, NEW x, Latched(p, q, v, x),
         NEW label, NEW r \in Requests, NEW f \in Sources, NEW c, NEW sel \in Seq(Records),
         NEW sn, NEW rej, NEW out,
         Sound(p, label, r, f, c, sel, sn, rej, out)
  PROVE  Sound(q, label, r, f, c, sel, sn, rej, out)
<1>1. label = "finder" => InFinder(q, r, f, c, sel, sn, rej)  BY LatchedFinder DEF Sound
<1>2. label = "offer" => InOffer(q, r, f, c, sel, sn, rej)  BY LatchedOffer DEF Sound
<1>3. label \in {"publish", "configure"} => Chosen(q, r, sel)  BY LatchedChosen DEF Sound
<1>4. out.status = "SUCCESS" => Chosen(q, r, out.records)  BY LatchedChosen DEF Sound
<1>5. out.status = "UNSUPPORTED" => Refused(q, r, rej)  BY LatchedRefused DEF Sound
<1> QED  BY <1>1, <1>2, <1>3, <1>4, <1>5 DEF Sound

-----------------------------------------------------------------------------
(* Searching: what one step of a search adds. *)

LEMMA EnterInOffer ==
  ASSUME NEW p, NEW r \in Requests, NEW f \in Sources, NEW c, NEW sel, NEW sn, NEW rej,
         InFinder(p, r, f, c, sel, sn, rej), Consulted(p, f), FindersSettled(p)
  PROVE  InOffer(p, r, f, c, sel, sn, rej)
<1>1. Len(Candidates(r, f)) \in Nat  BY CandidatesType
<1>2. c = 1 /\ sel = NoList  BY DEF InFinder
<1>3. c <= Len(Candidates(r, f)) + 1  BY <1>1, <1>2
<1>4. Covered(r, f, c, sn)  BY <1>2 DEF Covered
<1>5. Drawn(p, r, f, c, sel, sn) /\ Ordered(r, f, c, sel)
  BY <1>2, EmptyList DEF Drawn, Ordered
<1> QED  BY <1>3, <1>4, <1>5 DEF InFinder, InOffer

\* What a search has found stays found at the next candidate.
LEMMA NextPlace ==
  ASSUME NEW p, NEW r, NEW f, NEW c \in Nat \ {0}, NEW sel, NEW sn,
         Drawn(p, r, f, c, sel, sn), Ordered(r, f, c, sel)
  PROVE  Drawn(p, r, f, c + 1, sel, sn) /\ Ordered(r, f, c + 1, sel)
<1>1. 1 .. c - 1 \subseteq 1 .. (c + 1) - 1  OBVIOUS
<1> QED  BY <1>1 DEF Drawn, Ordered

LEMMA SkipInOffer ==
  ASSUME NEW p, NEW r \in Requests, NEW f \in Sources, NEW c \in Nat \ {0}, NEW sel, NEW sn, NEW rej,
         InOffer(p, r, f, c, sel, sn, rej),
         c \in 1 .. Len(Candidates(r, f)),
         Candidates(r, f)[c] \notin Records \/ Candidates(r, f)[c] \in sn
  PROVE  InOffer(p, r, f, c + 1, sel, sn, rej)
<1>1. Len(Candidates(r, f)) \in Nat  BY CandidatesType
<1>2. c + 1 <= Len(Candidates(r, f)) + 1  BY <1>1
<1>3. Covered(r, f, c + 1, sn)
  <2>1. \A x \in 1 .. (c + 1) - 1 : x = c \/ x \in 1 .. c - 1  OBVIOUS
  <2> QED  BY <2>1 DEF InOffer, Covered
<1>4. Drawn(p, r, f, c + 1, sel, sn) /\ Ordered(r, f, c + 1, sel)
  BY NextPlace DEF InOffer
<1> QED  BY <1>2, <1>3, <1>4 DEF InOffer

\* A new record that is filtered out or does not apply.
LEMMA PassOverInOffer ==
  ASSUME NEW p, NEW r \in Requests, NEW f \in Sources, NEW c \in Nat \ {0}, NEW sel,
         NEW sn \in SUBSET Records, NEW rej, NEW i \in Records, NEW rej2,
         InOffer(p, r, f, c, sel, sn, rej), Settled(p),
         c \in 1 .. Len(Candidates(r, f)),
         i = Candidates(r, f)[c],
         i \notin Usable(p, r),
         rej2 = IF Allowed(p, i) THEN rej \cup {i} ELSE rej
  PROVE  InOffer(p, r, f, c + 1, sel, sn \cup {i}, rej2)
<1>1. Len(Candidates(r, f)) \in Nat  BY CandidatesType
<1>2. c + 1 <= Len(Candidates(r, f)) + 1  BY <1>1
<1>3. Covered(r, f, c + 1, sn \cup {i})
  <2>1. \A x \in 1 .. (c + 1) - 1 : x = c \/ x \in 1 .. c - 1  OBVIOUS
  <2> QED  BY <2>1 DEF InOffer, Covered
<1>4. Kept(p, r, sel, sn \cup {i})  BY DEF InOffer, Kept
<1>5. Drawn(p, r, f, c + 1, sel, sn) /\ Ordered(r, f, c + 1, sel)
  BY NextPlace DEF InOffer
<1>6. Drawn(p, r, f, c + 1, sel, sn \cup {i})  BY <1>5 DEF Drawn
<1>7. Allowed(p, i) => i \notin Applicable[r]  BY DEF Usable
<1>8. Named(p, r, sn \cup {i}, rej2)
  <2>1. rej = {j \in sn : Allowed(p, j) /\ j \notin Applicable[r]}  BY DEF InOffer, Named
  <2>2. CASE Allowed(p, i)
    <3>1. rej2 = rej \cup {i}  BY <2>2
    <3>2. rej \cup {i} = {j \in sn \cup {i} : Allowed(p, j) /\ j \notin Applicable[r]}
      BY <2>1, <2>2, <1>7
    <3> QED  BY <3>1, <3>2 DEF Named
  <2>3. CASE ~Allowed(p, i)
    <3>1. rej2 = rej  BY <2>3
    <3>2. rej = {j \in sn \cup {i} : Allowed(p, j) /\ j \notin Applicable[r]}
      BY <2>1, <2>3
    <3> QED  BY <3>1, <3>2 DEF Named
  <2> QED  BY <2>2, <2>3
<1> QED  BY <1>2, <1>3, <1>4, <1>5, <1>6, <1>8 DEF InOffer

\* A new usable record is appended.
LEMMA SelectInOffer ==
  ASSUME NEW p, NEW r \in Requests, NEW f \in Sources, NEW c \in Nat \ {0},
         NEW sel \in Seq(Records), NEW sn \in SUBSET Records, NEW rej, NEW i \in Records,
         InOffer(p, r, f, c, sel, sn, rej), Settled(p),
         c \in 1 .. Len(Candidates(r, f)),
         i = Candidates(r, f)[c],
         i \notin sn, i \in Usable(p, r)
  PROVE  InOffer(p, r, f, c + 1, Append(sel, i), sn \cup {i}, rej)
<1> DEFINE longer == Append(sel, i)
<1>1. Len(Candidates(r, f)) \in Nat  BY CandidatesType
<1>2. c + 1 <= Len(Candidates(r, f)) + 1  BY <1>1
<1>3. Covered(r, f, c + 1, sn \cup {i})
  <2>1. \A x \in 1 .. (c + 1) - 1 : x = c \/ x \in 1 .. c - 1  OBVIOUS
  <2> QED  BY <2>1 DEF InOffer, Covered
<1>4. /\ longer \in Seq(Records) /\ Len(longer) = Len(sel) + 1
      /\ \A a \in 1 .. Len(sel) : longer[a] = sel[a]
      /\ longer[Len(sel) + 1] = i
      /\ Items(longer) = Items(sel) \cup {i}
  BY AppendedList
<1> HIDE DEF longer
<1>5. Kept(p, r, longer, sn \cup {i})  BY <1>4 DEF InOffer, Kept
<1>6. Drawn(p, r, f, c + 1, sel, sn) /\ Ordered(r, f, c + 1, sel)
  BY NextPlace DEF InOffer
<1>7. Len(sel) \in Nat  OBVIOUS
<1>8. \A a \in 1 .. Len(longer) : a \in 1 .. Len(sel) \/ a = Len(sel) + 1
  BY <1>4, <1>7
<1>9. Drawn(p, r, f, c + 1, longer, sn \cup {i})
  <2>1. c \in 1 .. (c + 1) - 1  OBVIOUS
  <2> QED  BY <2>1, <1>4, <1>6, <1>8 DEF Drawn
<1>10. Ordered(r, f, c + 1, longer)
  <2> SUFFICES ASSUME NEW a \in 1 .. Len(longer), NEW b \in 1 .. Len(longer), a < b
               PROVE  \E x \in 1 .. (c + 1) - 1 :
                        /\ Candidates(r, f)[x] = longer[a]
                        /\ \A d \in 1 .. x : Candidates(r, f)[d] # longer[b]
    BY DEF Ordered
  <2>1. a \in 1 .. Len(sel)  BY <1>4, <1>7
  <2>2. CASE b \in 1 .. Len(sel)
    <3>1. PICK x \in 1 .. (c + 1) - 1 :
            /\ Candidates(r, f)[x] = sel[a]
            /\ \A d \in 1 .. x : Candidates(r, f)[d] # sel[b]
      BY <2>1, <2>2, <1>6 DEF Ordered
    <3>2. longer[a] = sel[a] /\ longer[b] = sel[b]  BY <2>1, <2>2, <1>4
    <3> QED  BY <3>1, <3>2
  <2>3. CASE b = Len(sel) + 1
    <3>1. PICK x \in 1 .. c - 1 : Candidates(r, f)[x] = sel[a]
      BY <2>1 DEF InOffer, Drawn
    <3>2. \A d \in 1 .. x : d \in 1 .. c - 1  BY <3>1
    <3>3. \A d \in 1 .. x : Candidates(r, f)[d] # i  BY <3>2 DEF InOffer, Covered
    <3>4. x \in 1 .. (c + 1) - 1  BY <3>1
    <3> QED  BY <3>1, <3>3, <3>4, <2>1, <2>3, <1>4
  <2> QED  BY <2>2, <2>3, <1>8
<1>11. Named(p, r, sn \cup {i}, rej)
  <2>1. i \in Applicable[r]  BY DEF Usable
  <2> QED  BY <2>1 DEF InOffer, Named
<1>12. InOffer(p, r, f, c + 1, longer, sn \cup {i}, rej)
  BY <1>2, <1>3, <1>5, <1>9, <1>10, <1>11 DEF InOffer
<1> QED  BY <1>12 DEF longer

\* A source that has contributed ends the search with the selection.
LEMMA ExhaustedChosen ==
  ASSUME NEW p, NEW r \in Requests, NEW f \in Sources, NEW c \in Nat \ {0},
         NEW sel \in Seq(Records), NEW sn \in SUBSET Records, NEW rej,
         InOffer(p, r, f, c, sel, sn, rej),
         c \notin 1 .. Len(Candidates(r, f)),
         sel # NoList
  PROVE  Chosen(p, r, sel)
<1>1. Len(Candidates(r, f)) \in Nat /\ Candidates(r, f) \in Seq(Nat)  BY CandidatesType
<1>2. c = Len(Candidates(r, f)) + 1  BY <1>1 DEF InOffer
<1>3. c - 1 = Len(Candidates(r, f))  BY <1>1, <1>2
<1>4. 1 \in 1 .. Len(sel)  BY NonEmptyList
<1>5. sn # {}  BY <1>4 DEF InOffer, Drawn
<1>6. Settled(p) /\ FindersSettled(p)  BY <1>5 DEF InOffer
<1>7. Contributes(p, r, f)
  BY <1>3, <1>4 DEF InOffer, Drawn, Contributes
<1>8. Items(sel) = Items(Candidates(r, f)) \cap Usable(p, r)
  <2>1. ASSUME NEW i \in Items(sel) PROVE i \in Items(Candidates(r, f)) /\ i \in Usable(p, r)
    <3>1. PICK a \in 1 .. Len(sel) : i = sel[a]  BY DEF Items
    <3> QED  BY <3>1, <1>3 DEF InOffer, Drawn, Items
  <2>2. ASSUME NEW i \in Items(Candidates(r, f)), i \in Usable(p, r) PROVE i \in Items(sel)
    <3>1. PICK x \in 1 .. Len(Candidates(r, f)) : i = Candidates(r, f)[x]  BY DEF Items
    <3>2. i \in Records  BY <2>2, EngineAssumption DEF Usable
    <3>3. i \in sn  BY <3>1, <3>2, <1>3 DEF InOffer, Covered
    <3> QED  BY <3>3, <2>2 DEF InOffer, Kept
  <2> QED  BY <2>1, <2>2
<1>9. Ranks(sel, Candidates(r, f), Usable(p, r))
  BY <1>3, <1>8 DEF InOffer, Ordered, Ranks
<1>10. IsSelection(p, sel, r)
  BY <1>7, <1>9 DEF InOffer, Earlier, IsSelection
<1> QED  BY <1>6, <1>10 DEF Chosen

\* A source that offered no usable record does not contribute.
LEMMA ExhaustedNone ==
  ASSUME NEW p, NEW r \in Requests, NEW f \in Sources, NEW c \in Nat \ {0}, NEW sn, NEW rej,
         InOffer(p, r, f, c, NoList, sn, rej),
         c \notin 1 .. Len(Candidates(r, f))
  PROVE  ~Contributes(p, r, f)
<1>1. Len(Candidates(r, f)) \in Nat  BY CandidatesType
<1>2. c - 1 = Len(Candidates(r, f))  BY <1>1 DEF InOffer
<1>3. ASSUME NEW x \in 1 .. Len(Candidates(r, f)), Candidates(r, f)[x] \in Usable(p, r)
      PROVE FALSE
  <2>1. Candidates(r, f)[x] \in Records  BY <1>3, EngineAssumption DEF Usable
  <2>2. Candidates(r, f)[x] \in sn  BY <2>1, <1>2 DEF InOffer, Covered
  <2> QED  BY <2>2, <1>3, EmptyList DEF InOffer, Kept
<1> QED  BY <1>3 DEF Contributes

\* No source before f + 1 contributes when none before f does and f does not.
LEMMA EarlierNext ==
  ASSUME NEW p, NEW r, NEW f \in Sources, Earlier(p, r, f), ~Contributes(p, r, f)
  PROVE  Earlier(p, r, f + 1)
<1>1. f \in Nat  BY EngineAssumption DEF Sources
<1>2. \A g \in 1 .. (f + 1) - 1 : g = f \/ g \in 1 .. f - 1  BY <1>1
<1> QED  BY <1>2 DEF Earlier

LEMMA ExhaustedNext ==
  ASSUME NEW p, NEW r \in Requests, NEW f \in Sources, NEW c \in Nat \ {0}, NEW sn, NEW rej,
         InOffer(p, r, f, c, NoList, sn, rej),
         c \notin 1 .. Len(Candidates(r, f))
  PROVE  InFinder(p, r, f + 1, 1, NoList, sn, rej)
<1>1. Earlier(p, r, f + 1)  BY ExhaustedNone, EarlierNext DEF InOffer
<1> QED  BY <1>1 DEF InOffer, InFinder

LEMMA ExhaustedRefused ==
  ASSUME NEW p, NEW r \in Requests, NEW c \in Nat \ {0}, NEW sn \in SUBSET Records, NEW rej,
         InOffer(p, r, NumFinders + 1, c, NoList, sn, rej),
         c \notin 1 .. Len(Candidates(r, NumFinders + 1))
  PROVE  Refused(p, r, rej)
<1>0. NumFinders + 1 \in Sources  BY EngineAssumption DEF Sources
<1>1. Len(Candidates(r, NumFinders + 1)) \in Nat  BY <1>0, CandidatesType
<1>2. c - 1 = NumRecords  BY <1>1, WalkOffersAll DEF InOffer
<1>3. Records \subseteq sn
  <2> SUFFICES ASSUME NEW i \in Records PROVE i \in sn  OBVIOUS
  <2>1. i \in 1 .. c - 1 /\ Candidates(r, NumFinders + 1)[i] = i
    BY <1>2, WalkOffersAll DEF Records
  <2> QED  BY <2>1 DEF InOffer, Covered
<1>4. Usable(p, r) = {}
  <2>1. ASSUME NEW i \in Usable(p, r) PROVE FALSE
    <3>1. i \in sn  BY <2>1, <1>3, EngineAssumption DEF Usable
    <3> QED  BY <2>1, <3>1, EmptyList DEF InOffer, Kept
  <2> QED  BY <2>1
<1>5. rej = {i \in Records : Allowed(p, i)}
  <2>1. sn = Records  BY <1>3
  <2>2. rej = {i \in Records : Allowed(p, i) /\ i \notin Applicable[r]}
    BY <2>1 DEF InOffer, Named
  <2>3. \A i \in Records : Allowed(p, i) => i \notin Applicable[r]  BY <1>4 DEF Usable
  <2> QED  BY <2>2, <2>3
<1>6. Records # {} => Settled(p)  BY <1>3 DEF InOffer
<1> QED  BY <1>4, <1>5, <1>6 DEF Refused

\* A disabled Finder is passed over.
LEMMA DisabledNext ==
  ASSUME NEW p, NEW r, NEW f \in Sources, NEW c, NEW sel, NEW sn, NEW rej,
         InFinder(p, r, f, c, sel, sn, rej),
         ~Consulted(p, f), FindersSettled(p)
  PROVE  InFinder(p, r, f + 1, c, sel, sn, rej)
<1>1. ~Contributes(p, r, f)  BY DEF Contributes
<1>2. Earlier(p, r, f + 1)  BY <1>1, EarlierNext DEF InFinder
<1> QED  BY <1>2 DEF InFinder

-----------------------------------------------------------------------------
(* Types. *)

LEMMA NoOutcomeType ==
  /\ NoOutcome \in [status : Statuses, records : Seq(Records)]
  /\ NoOutcome.status = "none"
BY EmptyList DEF NoOutcome, Outcome, Statuses

LEMMA OutcomeType ==
  ASSUME NEW status \in Statuses, NEW records \in Seq(Records)
  PROVE  /\ Outcome(status, records) \in [status : Statuses, records : Seq(Records)]
         /\ Outcome(status, records).status = status
         /\ Outcome(status, records).records = records
BY DEF Outcome

LEMMA KeyType ==
  ASSUME NEW r \in Requests
  PROVE  CacheKey(r) \in Keys
BY DEF Keys

LEMMA TypeInit == Init => TypeOK
<1> SUFFICES ASSUME Init PROVE TypeOK  OBVIOUS
<1>1. AnyRequest \in Requests  BY EngineAssumption DEF AnyRequest
<1>2. 1 \in Sources  BY EngineAssumption DEF Sources
<1>3. NoList \in Seq(Records)  BY EmptyList
<1>4. DOMAIN policy = Variables /\ policy["cache"] \in {NotRead, "on", "off"}
  BY DEF Init, Variables
<1> QED  BY <1>1, <1>2, <1>3, <1>4, NoOutcomeType DEF Init, TypeOK

LEMMA TypeStep == TypeOK /\ [Next]_vars => TypeOK'
<1> SUFFICES ASSUME TypeOK, [Next]_vars PROVE TypeOK'  OBVIOUS
<1> USE DEF TypeOK, Goto, searchVars
<1>e. NoList \in Seq(Records)  BY EmptyList
<1>s. /\ 1 \in Sources
      /\ \A f \in Sources : f # NumFinders + 1 => f + 1 \in Sources
  BY EngineAssumption DEF Sources
<1>o. \A status \in Statuses, records \in Seq(Records) :
        Outcome(status, records) \in [status : Statuses, records : Seq(Records)]
  BY OutcomeType
<1>1. ASSUME NEW t \in Threads, NEW r \in Requests, Call(t, r) PROVE TypeOK'
  BY <1>1 DEF Call, Working
<1>2. ASSUME NEW t \in Threads, Validate(t) PROVE TypeOK'
  <2>1. CASE Goto(t, "lookup") /\ UNCHANGED outcome
    BY <1>2, <2>1 DEF Validate, Working
  <2>2. ASSUME NEW status \in {"INTERNAL_ERROR", "INVALID_ARGUMENT", "OVERFLOW"},
               End(t, status, NoList)
        PROVE  TypeOK'
    <3>1. status \in Statuses  BY <2>2 DEF Statuses
    <3> QED  BY <1>2, <2>2, <3>1, <1>e, <1>o DEF Validate, End
  <2> QED  BY <1>2, <2>1, <2>2 DEF Validate
<1>3. ASSUME NEW t \in Threads, Lookup(t) PROVE TypeOK'
  <2>1. CacheKey(request[t]) \in Keys  BY KeyType
  <2>2. selected' \in [Threads -> Seq(Records)]  BY <1>3, <2>1 DEF Lookup
  <2>3. pc' \in [Threads -> Working \cup {"idle", "done"}]  BY <1>3 DEF Lookup, Working
  <2> QED  BY <1>3, <2>2, <2>3 DEF Lookup
<1>4. ASSUME NEW t \in Threads, EnterSource(t) PROVE TypeOK'
  <2>1. source' \in [Threads -> Sources]
    <3>1. source[t] # NumFinders + 1 => source[t] + 1 \in Sources  BY <1>s
    <3>2. \/ source[t] # NumFinders + 1 /\ source' = [source EXCEPT ![t] = source[t] + 1]
          \/ source' = source
      BY <1>4 DEF EnterSource
    <3> QED  BY <3>1, <3>2
  <2>2. pc' \in [Threads -> Working \cup {"idle", "done"}]  BY <1>4 DEF EnterSource, Working
  <2> QED  BY <1>4, <2>1, <2>2 DEF EnterSource
<1>5. ASSUME NEW t \in Threads, Offer(t) PROVE TypeOK'
  <2>1. place' \in [Threads -> Nat \ {0}]  BY <1>5 DEF Offer
  <2>2. CASE Skipped(t) /\ UNCHANGED <<selected, seen, rejected>>
    BY <1>5, <2>1, <2>2 DEF Offer
  <2>3. CASE ~Skipped(t) /\ Judge(t, Candidate(t))
    <3>1. Candidate(t) \in Records  BY <2>3 DEF Skipped
    <3>2. Append(selected[t], Candidate(t)) \in Seq(Records)  BY <3>1
    <3>3. selected' \in [Threads -> Seq(Records)]  BY <2>3, <3>2 DEF Judge
    <3>4. seen' \in [Threads -> SUBSET Records]  BY <2>3, <3>1 DEF Judge
    <3>5. rejected' \in [Threads -> SUBSET Records]
      <4>1. \/ rejected' = rejected
            \/ rejected' = [rejected EXCEPT ![t] = rejected[t] \cup {Candidate(t)}]
        BY <2>3 DEF Judge
      <4>2. rejected[t] \cup {Candidate(t)} \in SUBSET Records  BY <3>1
      <4> QED  BY <4>1, <4>2
    <3> QED  BY <1>5, <2>1, <3>3, <3>4, <3>5 DEF Offer
  <2> QED  BY <1>5, <2>2, <2>3 DEF Offer
<1>6. ASSUME NEW t \in Threads, Exhaust(t) PROVE TypeOK'
  <2>1. source' \in [Threads -> Sources]
    <3>1. source[t] # NumFinders + 1 => source[t] + 1 \in Sources  BY <1>s
    <3>2. \/ source[t] # NumFinders + 1 /\ source' = [source EXCEPT ![t] = source[t] + 1]
          \/ source' = source
      BY <1>6 DEF Exhaust
    <3> QED  BY <3>1, <3>2
  <2>2. pc' \in [Threads -> Working \cup {"idle", "done"}]  BY <1>6 DEF Exhaust, End, Working
  <2>3. outcome' \in [Threads -> [status : Statuses, records : Seq(Records)]]
    <3>1. Outcome("UNSUPPORTED", NoList) \in [status : Statuses, records : Seq(Records)]
      BY <1>e, <1>o DEF Statuses
    <3>2. \/ outcome' = [outcome EXCEPT ![t] = Outcome("UNSUPPORTED", NoList)]
          \/ outcome' = outcome
      BY <1>6 DEF Exhaust, End
    <3> QED  BY <3>1, <3>2
  <2>4. place' \in [Threads -> Nat \ {0}]  BY <1>6 DEF Exhaust
  <2> QED  BY <1>6, <2>1, <2>2, <2>3, <2>4 DEF Exhaust
<1>7. ASSUME NEW t \in Threads, Publish(t) PROVE TypeOK'
  <2>1. store' \in [Keys -> Seq(Records) \cup {Absent}]  BY <1>7, KeyType DEF Publish
  <2>2. pc' \in [Threads -> Working \cup {"idle", "done"}]  BY <1>7 DEF Publish, Working
  <2> QED  BY <1>7, <2>1, <2>2 DEF Publish
<1>8. ASSUME NEW t \in Threads, Configure(t) PROVE TypeOK'
  <2>1. /\ Outcome("SUCCESS", selected[t]) \in [status : Statuses, records : Seq(Records)]
        /\ Outcome("INTERNAL_ERROR", NoList) \in [status : Statuses, records : Seq(Records)]
    BY <1>e, <1>o DEF Statuses
  <2>2. outcome' \in [Threads -> [status : Statuses, records : Seq(Records)]]
    <3>1. \/ outcome' = [outcome EXCEPT ![t] = Outcome("SUCCESS", selected[t])]
          \/ outcome' = [outcome EXCEPT ![t] = Outcome("INTERNAL_ERROR", NoList)]
      BY <1>8 DEF Configure, End
    <3> QED  BY <2>1, <3>1
  <2>3. pc' \in [Threads -> Working \cup {"idle", "done"}]  BY <1>8 DEF Configure, End
  <2> QED  BY <1>8, <2>2, <2>3 DEF Configure
<1>9. ASSUME NEW t \in Threads, OutOfMemory(t) PROVE TypeOK'
  <2>1. "OUT_OF_MEMORY" \in Statuses  BY DEF Statuses
  <2> QED  BY <1>9, <2>1, <1>e, <1>o DEF OutOfMemory, End
<1>10. ASSUME NEW t \in Threads, Return(t) PROVE TypeOK'
  <2>1. AnyRequest \in Requests  BY EngineAssumption DEF AnyRequest
  <2> QED  BY <1>10, <2>1, <1>s, <1>e, NoOutcomeType DEF Return
<1>11. ASSUME NEW t \in Threads, NEW v \in Variables, Latch(t, v) PROVE TypeOK'
  <2>1. DOMAIN policy' = Variables  BY <1>11 DEF Latch
  <2>2. policy'["cache"] \in {NotRead, "on", "off"}
    <3>1. "cache" \in Variables  BY DEF Variables
    <3>2. Parse("cache", env["cache"]) \in {"on", "off"}  BY DEF Parse
    <3> QED  BY <1>11, <3>1, <3>2 DEF Latch
  <2> QED  BY <1>11, <2>1, <2>2 DEF Latch
<1>12. ASSUME NEW v \in Variables, NEW value \in RawValues[v], SetEnv(v, value) PROVE TypeOK'
  <2>1. env' \in Environments
    <3>1. value \in UNION {RawValues[w] : w \in Variables}  BY <1>12
    <3>2. /\ env \in [Variables -> UNION {RawValues[w] : w \in Variables}]
          /\ \A w \in Variables : env[w] \in RawValues[w]
      BY DEF Environments
    <3>3. env' \in [Variables -> UNION {RawValues[w] : w \in Variables}]
      BY <1>12, <3>1, <3>2 DEF SetEnv
    <3>4. \A w \in Variables : env'[w] \in RawValues[w]  BY <1>12, <3>2 DEF SetEnv
    <3> QED  BY <3>3, <3>4 DEF Environments
  <2> QED  BY <1>12, <2>1 DEF SetEnv
<1>13. ASSUME NEW K \in SUBSET Keys, DropEntries(K) PROVE TypeOK'
  BY <1>13 DEF DropEntries
<1>14. CASE UNCHANGED vars  BY <1>14 DEF vars
<1> QED
  BY <1>1, <1>2, <1>3, <1>4, <1>5, <1>6, <1>7, <1>8, <1>9, <1>10, <1>11, <1>12, <1>13, <1>14
  DEF Next, Step, StoredKeys

\* Every variable keeps its type: in particular every position handed to
\* configureRecords is the position of a record.
THEOREM TypeCorrect == Spec => []TypeOK
<1>1. TypeOK /\ [Next]_vars => TypeOK'  BY TypeStep
<1> QED  BY TypeInit, <1>1, PTL DEF Spec

-----------------------------------------------------------------------------
(* The invariant. *)

\* The local variables of thread u keep their values.
Untouched(u) ==
  /\ pc'[u] = pc[u] /\ request'[u] = request[u] /\ source'[u] = source[u]
  /\ place'[u] = place[u] /\ selected'[u] = selected[u] /\ seen'[u] = seen[u]
  /\ rejected'[u] = rejected[u] /\ outcome'[u] = outcome[u]

LEMMA UntouchedSound ==
  ASSUME NEW u, ThreadSound(u), policy' = policy, Untouched(u)
  PROVE  ThreadSound(u)'
BY DEF ThreadSound, Untouched

LEMMA SoundInit == Init => EngineInv
<1> SUFFICES ASSUME Init PROVE EngineInv  OBVIOUS
<1>1. TypeOK  BY TypeInit
<1>2. ASSUME NEW t \in Threads PROVE ThreadSound(t)
  <2>1. /\ pc[t] = "idle" /\ source[t] = 1 /\ place[t] = 1 /\ selected[t] = NoList
        /\ seen[t] = {} /\ rejected[t] = {} /\ outcome[t] = NoOutcome
    BY DEF Init
  <2> QED  BY <2>1, NoOutcomeType DEF ThreadSound, Sound, Fresh
<1>3. StoreSound(policy, store)
  <2>1. \A r \in Requests : store[CacheKey(r)] = Absent  BY KeyType DEF Init
  <2> QED  BY <2>1 DEF StoreSound
<1> QED  BY <1>1, <1>2, <1>3 DEF EngineInv

\* A thread that ends its call with neither of the two answers.
LEMMA EndedSound ==
  ASSUME NEW p, NEW r, NEW f, NEW c, NEW sel, NEW sn, NEW rej, NEW out,
         out.status \notin {"SUCCESS", "UNSUPPORTED"}
  PROVE  Sound(p, "done", r, f, c, sel, sn, rej, out)
BY DEF Sound

LEMMA CallSound ==
  ASSUME EngineInv, NEW t \in Threads, NEW r \in Requests, Call(t, r)
  PROVE  ThreadSound(t)'
<1> USE DEF EngineInv, TypeOK
<1>1. Fresh(source[t], place[t], selected[t], seen[t], rejected[t]) /\ outcome[t] = NoOutcome
  BY DEF Call, ThreadSound, Sound
<1>2. /\ pc'[t] = "validate" /\ source'[t] = source[t] /\ place'[t] = place[t]
      /\ selected'[t] = selected[t] /\ seen'[t] = seen[t] /\ rejected'[t] = rejected[t]
      /\ outcome'[t] = outcome[t]
  BY DEF Call, Goto
<1> QED  BY <1>1, <1>2, NoOutcomeType DEF ThreadSound, Sound

LEMMA ValidateSound ==
  ASSUME EngineInv, NEW t \in Threads, Validate(t)
  PROVE  ThreadSound(t)'
<1> USE DEF EngineInv, TypeOK
<1>1. Fresh(source[t], place[t], selected[t], seen[t], rejected[t]) /\ outcome[t] = NoOutcome
  BY DEF Validate, ThreadSound, Sound
<1>2. /\ source'[t] = source[t] /\ place'[t] = place[t]
      /\ selected'[t] = selected[t] /\ seen'[t] = seen[t] /\ rejected'[t] = rejected[t]
  BY DEF Validate, searchVars
<1>3. CASE Goto(t, "lookup") /\ UNCHANGED outcome
  <2>1. pc'[t] = "lookup" /\ outcome'[t] = outcome[t]  BY <1>3 DEF Goto
  <2> QED  BY <1>1, <1>2, <2>1, NoOutcomeType DEF ThreadSound, Sound
<1>4. ASSUME NEW status \in {"INTERNAL_ERROR", "INVALID_ARGUMENT", "OVERFLOW"},
             End(t, status, NoList)
      PROVE  ThreadSound(t)'
  <2>1. pc'[t] = "done" /\ outcome'[t] = Outcome(status, NoList)  BY <1>4 DEF End, Goto
  <2>2. outcome'[t].status \notin {"SUCCESS", "UNSUPPORTED"}  BY <2>1, <1>4 DEF Outcome
  <2> QED  BY <2>1, <2>2, EndedSound DEF ThreadSound
<1> QED  BY <1>3, <1>4 DEF Validate

LEMMA LookupSound ==
  ASSUME EngineInv, NEW t \in Threads, Lookup(t)
  PROVE  ThreadSound(t)'
<1> USE DEF EngineInv, TypeOK
<1>1. Fresh(source[t], place[t], selected[t], seen[t], rejected[t]) /\ outcome[t] = NoOutcome
  BY DEF Lookup, ThreadSound, Sound
<1>2. /\ policy' = policy /\ request'[t] = request[t]
      /\ source'[t] = source[t] /\ place'[t] = place[t]
      /\ seen'[t] = seen[t] /\ rejected'[t] = rejected[t] /\ outcome'[t] = outcome[t]
  BY DEF Lookup
<1>3. CASE /\ store[CacheKey(request[t])] # Absent
           /\ selected' = [selected EXCEPT ![t] = store[CacheKey(request[t])]]
           /\ Goto(t, "configure")
  <2>1. pc'[t] = "configure" /\ selected'[t] = store[CacheKey(request[t])]
    BY <1>3 DEF Goto
  <2>2. Chosen(policy, request[t], selected'[t])  BY <1>3, <2>1 DEF StoreSound
  <2> QED  BY <1>1, <1>2, <2>1, <2>2, NoOutcomeType DEF ThreadSound, Sound
<1>4. CASE Goto(t, "finder") /\ UNCHANGED selected
  <2>1. pc'[t] = "finder" /\ selected'[t] = selected[t]  BY <1>4 DEF Goto
  <2>2. InFinder(policy, request[t], source[t], place[t], selected[t], seen[t], rejected[t])
    BY <1>1 DEF Fresh, InFinder, Earlier, Kept, Named
  <2> QED  BY <1>1, <1>2, <2>1, <2>2, NoOutcomeType DEF ThreadSound, Sound
<1> QED  BY <1>3, <1>4 DEF Lookup

LEMMA EnterSourceSound ==
  ASSUME EngineInv, NEW t \in Threads, EnterSource(t)
  PROVE  ThreadSound(t)'
<1> USE DEF EngineInv, TypeOK
<1>1. /\ InFinder(policy, request[t], source[t], place[t], selected[t], seen[t], rejected[t])
      /\ outcome[t] = NoOutcome
  BY DEF EnterSource, ThreadSound, Sound
<1>2. /\ policy' = policy /\ request'[t] = request[t] /\ place'[t] = place[t]
      /\ selected'[t] = selected[t] /\ seen'[t] = seen[t] /\ rejected'[t] = rejected[t]
      /\ outcome'[t] = outcome[t]
  BY DEF EnterSource
<1>3. FindersSettled(policy)
  <2>1. CASE source[t] # NumFinders + 1
    BY <2>1 DEF EnterSource, Ready, Needed, FindersSettled
  <2>2. CASE source[t] = NumFinders + 1
    <3>1. source[t] > 1 \/ NumFinders = 0  BY <2>2, EngineAssumption
    <3> QED  BY <3>1, <1>1 DEF InFinder, FindersSettled
  <2> QED  BY <2>1, <2>2
<1>4. CASE /\ source[t] # NumFinders + 1
           /\ FinderDisabled(policy, source[t])
           /\ source' = [source EXCEPT ![t] = @ + 1]
           /\ UNCHANGED pc
  <2>1. ~Consulted(policy, source[t])  BY <1>4 DEF Consulted
  <2>2. InFinder(policy, request[t], source[t] + 1, place[t], selected[t], seen[t], rejected[t])
    BY <1>1, <1>3, <2>1, DisabledNext
  <2>3. source'[t] = source[t] + 1 /\ pc'[t] = "finder"  BY <1>4 DEF EnterSource
  <2> QED  BY <1>1, <1>2, <2>2, <2>3, NoOutcomeType DEF ThreadSound, Sound
<1>5. CASE /\ source[t] = NumFinders + 1 \/ ~FinderDisabled(policy, source[t])
           /\ Goto(t, "offer")
           /\ UNCHANGED source
  <2>1. Consulted(policy, source[t])  BY <1>5 DEF Consulted
  <2>2. InOffer(policy, request[t], source[t], place[t], selected[t], seen[t], rejected[t])
    BY <1>1, <1>3, <2>1, EnterInOffer
  <2>3. source'[t] = source[t] /\ pc'[t] = "offer"  BY <1>5 DEF Goto
  <2> QED  BY <1>1, <1>2, <2>2, <2>3, NoOutcomeType DEF ThreadSound, Sound
<1> QED  BY <1>4, <1>5 DEF EnterSource

LEMMA OfferSound ==
  ASSUME EngineInv, NEW t \in Threads, Offer(t)
  PROVE  ThreadSound(t)'
<1> USE DEF EngineInv, TypeOK
<1>1. /\ InOffer(policy, request[t], source[t], place[t], selected[t], seen[t], rejected[t])
      /\ outcome[t] = NoOutcome
  BY DEF Offer, AtCandidate, ThreadSound, Sound
<1>2. /\ policy' = policy /\ pc'[t] = "offer" /\ request'[t] = request[t]
      /\ source'[t] = source[t] /\ place'[t] = place[t] + 1 /\ outcome'[t] = outcome[t]
  BY DEF Offer, AtCandidate
<1>3. place[t] \in 1 .. Len(Candidates(request[t], source[t]))  BY DEF Offer, AtCandidate
<1>4. InOffer(policy, request[t], source[t], place[t] + 1, selected'[t], seen'[t], rejected'[t])
  <2>0. /\ request[t] \in Requests /\ source[t] \in Sources /\ place[t] \in Nat \ {0}
        /\ selected[t] \in Seq(Records) /\ seen[t] \in SUBSET Records
    OBVIOUS
  <2>1. CASE Skipped(t) /\ UNCHANGED <<selected, seen, rejected>>
    BY <1>1, <1>3, <2>1, SkipInOffer DEF Skipped, Candidate
  <2>2. CASE ~Skipped(t) /\ Judge(t, Candidate(t))
    <3>1. PICK i \in Records : i = Candidates(request[t], source[t])[place[t]]
      BY <2>2 DEF Skipped, Candidate
    <3>2. i = Candidate(t) /\ i \notin seen[t]  BY <2>2, <3>1 DEF Skipped, Candidate
    <3>3. Settled(policy)
      BY <2>2 DEF Offer, Ready, Needed, AtCandidate, Settled
    <3>4. seen'[t] = seen[t] \cup {i}  BY <2>2, <3>2 DEF Judge
    <3>5. CASE i \in Usable(policy, request[t])
      <4>1. Allowed(policy, i) /\ i \in Applicable[request[t]]  BY <3>5 DEF Usable
      <4>2. selected'[t] = Append(selected[t], i) /\ rejected'[t] = rejected[t]
        BY <2>2, <3>2, <4>1 DEF Judge
      <4>3. InOffer(policy, request[t], source[t], place[t] + 1, Append(selected[t], i),
                    seen[t] \cup {i}, rejected[t])
        BY <1>1, <1>3, <2>0, <3>1, <3>2, <3>3, <3>5, SelectInOffer
      <4> QED  BY <3>4, <4>2, <4>3
    <3>6. CASE i \notin Usable(policy, request[t])
      <4>1. ~Allowed(policy, i) \/ i \notin Applicable[request[t]]  BY <3>6 DEF Usable
      <4>2. /\ selected'[t] = selected[t]
            /\ rejected'[t] = IF Allowed(policy, i) THEN rejected[t] \cup {i} ELSE rejected[t]
        BY <2>2, <3>2, <4>1 DEF Judge
      <4>3. InOffer(policy, request[t], source[t], place[t] + 1, selected[t], seen[t] \cup {i},
                    IF Allowed(policy, i) THEN rejected[t] \cup {i} ELSE rejected[t])
        BY <1>1, <1>3, <2>0, <3>1, <3>3, <3>6, PassOverInOffer
      <4> QED  BY <3>4, <4>2, <4>3
    <3> QED  BY <3>5, <3>6
  <2> QED  BY <2>1, <2>2 DEF Offer
<1> QED  BY <1>1, <1>2, <1>4, NoOutcomeType DEF ThreadSound, Sound

LEMMA ExhaustSound ==
  ASSUME EngineInv, NEW t \in Threads, Exhaust(t)
  PROVE  ThreadSound(t)'
<1> USE DEF EngineInv, TypeOK
<1>1. /\ InOffer(policy, request[t], source[t], place[t], selected[t], seen[t], rejected[t])
      /\ outcome[t] = NoOutcome
  BY DEF Exhaust, ThreadSound, Sound
<1>2. /\ policy' = policy /\ request'[t] = request[t] /\ place'[t] = 1
      /\ selected'[t] = selected[t] /\ seen'[t] = seen[t] /\ rejected'[t] = rejected[t]
  BY DEF Exhaust
<1>3. place[t] \notin 1 .. Len(Candidates(request[t], source[t]))
  BY DEF Exhaust, AtCandidate
<1>4. CASE /\ selected[t] # NoList
           /\ Goto(t, "publish")
           /\ UNCHANGED <<source, outcome>>
  <2>1. Chosen(policy, request[t], selected[t])  BY <1>1, <1>3, <1>4, ExhaustedChosen
  <2>2. pc'[t] = "publish" /\ outcome'[t] = outcome[t]  BY <1>4 DEF Goto
  <2> QED  BY <1>1, <1>2, <2>1, <2>2, NoOutcomeType DEF ThreadSound, Sound
<1>5. CASE /\ selected[t] = NoList
           /\ source[t] # NumFinders + 1
           /\ source' = [source EXCEPT ![t] = @ + 1]
           /\ Goto(t, "finder")
           /\ UNCHANGED outcome
  <2>1. InFinder(policy, request[t], source[t] + 1, 1, NoList, seen[t], rejected[t])
    BY <1>1, <1>3, <1>5, ExhaustedNext
  <2>2. pc'[t] = "finder" /\ source'[t] = source[t] + 1 /\ outcome'[t] = outcome[t]
    BY <1>5 DEF Goto
  <2> QED  BY <1>1, <1>2, <1>5, <2>1, <2>2, NoOutcomeType DEF ThreadSound, Sound
<1>6. CASE /\ selected[t] = NoList
           /\ source[t] = NumFinders + 1
           /\ End(t, "UNSUPPORTED", NoList)
  <2>1. Refused(policy, request[t], rejected[t])  BY <1>1, <1>3, <1>6, ExhaustedRefused
  <2>2. pc'[t] = "done" /\ outcome'[t] = Outcome("UNSUPPORTED", NoList)
    BY <1>6 DEF End, Goto
  <2>3. outcome'[t].status = "UNSUPPORTED"  BY <2>2 DEF Outcome
  <2> QED  BY <1>2, <2>1, <2>2, <2>3 DEF ThreadSound, Sound
<1> QED  BY <1>4, <1>5, <1>6 DEF Exhaust

LEMMA PublishSound ==
  ASSUME EngineInv, NEW t \in Threads, Publish(t)
  PROVE  ThreadSound(t)' /\ StoreSound(policy', store')
<1> USE DEF EngineInv, TypeOK
<1>1. Chosen(policy, request[t], selected[t]) /\ outcome[t] = NoOutcome
  BY DEF Publish, ThreadSound, Sound
<1>2. /\ policy' = policy /\ pc'[t] = "configure" /\ request'[t] = request[t]
      /\ selected'[t] = selected[t] /\ outcome'[t] = outcome[t]
  BY DEF Publish, searchVars, Goto
<1>3. ThreadSound(t)'  BY <1>1, <1>2, NoOutcomeType DEF ThreadSound, Sound
<1>4. StoreSound(policy, store')
  <2> SUFFICES ASSUME NEW q \in Requests, store'[CacheKey(q)] # Absent
               PROVE  Chosen(policy, q, store'[CacheKey(q)])
    BY DEF StoreSound
  <2>1. CASE store'[CacheKey(q)] = store[CacheKey(q)]
    BY <2>1 DEF StoreSound
  <2>2. CASE store'[CacheKey(q)] # store[CacheKey(q)]
    <3>1. CacheKey(request[t]) = CacheKey(q) /\ store'[CacheKey(q)] = selected[t]
      BY <2>2, KeyType DEF Publish
    <3> QED  BY <1>1, <3>1, SameKeySameSelection
  <2> QED  BY <2>1, <2>2
<1> QED  BY <1>2, <1>3, <1>4

LEMMA ConfigureSound ==
  ASSUME EngineInv, NEW t \in Threads, Configure(t)
  PROVE  ThreadSound(t)'
<1> USE DEF EngineInv, TypeOK
<1>1. Chosen(policy, request[t], selected[t])  BY DEF Configure, ThreadSound, Sound
<1>2. policy' = policy /\ request'[t] = request[t]  BY DEF Configure, searchVars
<1>3. CASE End(t, "SUCCESS", selected[t])
  <2>1. pc'[t] = "done" /\ outcome'[t] = Outcome("SUCCESS", selected[t])
    BY <1>3 DEF End, Goto
  <2>2. outcome'[t].status = "SUCCESS" /\ outcome'[t].records = selected[t]
    BY <2>1 DEF Outcome
  <2> QED  BY <1>1, <1>2, <2>1, <2>2 DEF ThreadSound, Sound
<1>4. CASE End(t, "INTERNAL_ERROR", NoList)
  <2>1. pc'[t] = "done" /\ outcome'[t] = Outcome("INTERNAL_ERROR", NoList)
    BY <1>4 DEF End, Goto
  <2>2. outcome'[t].status \notin {"SUCCESS", "UNSUPPORTED"}  BY <2>1 DEF Outcome
  <2> QED  BY <2>1, <2>2, EndedSound DEF ThreadSound
<1> QED  BY <1>3, <1>4 DEF Configure

LEMMA OutOfMemorySound ==
  ASSUME EngineInv, NEW t \in Threads, OutOfMemory(t)
  PROVE  ThreadSound(t)'
<1> USE DEF EngineInv, TypeOK
<1>1. pc'[t] = "done" /\ outcome'[t] = Outcome("OUT_OF_MEMORY", NoList)
  BY DEF OutOfMemory, End, Goto
<1>2. outcome'[t].status \notin {"SUCCESS", "UNSUPPORTED"}  BY <1>1 DEF Outcome
<1> QED  BY <1>1, <1>2, EndedSound DEF ThreadSound

LEMMA ReturnSound ==
  ASSUME EngineInv, NEW t \in Threads, Return(t)
  PROVE  ThreadSound(t)'
<1> USE DEF EngineInv, TypeOK
<1>1. /\ pc'[t] = "idle" /\ source'[t] = 1 /\ place'[t] = 1 /\ selected'[t] = NoList
      /\ seen'[t] = {} /\ rejected'[t] = {} /\ outcome'[t] = NoOutcome
  BY DEF Return, Goto
<1> QED  BY <1>1, NoOutcomeType DEF ThreadSound, Sound, Fresh

LEMMA LatchSound ==
  ASSUME EngineInv, NEW t \in Threads, NEW v \in Variables, Latch(t, v)
  PROVE  (\A u \in Threads : ThreadSound(u)') /\ StoreSound(policy', store')
<1> USE DEF EngineInv, TypeOK
<1>1. Latched(policy, policy', v, Parse(v, env[v]))  BY DEF Latch, Latched
<1>2. UNCHANGED <<pc, request, source, place, selected, seen, rejected, outcome, store>>
  BY DEF Latch, searchVars
<1>3. ASSUME NEW u \in Threads PROVE ThreadSound(u)'
  <2>1. Sound(policy, pc[u], request[u], source[u], place[u], selected[u], seen[u],
              rejected[u], outcome[u])
    BY DEF ThreadSound
  <2>2. Sound(policy', pc[u], request[u], source[u], place[u], selected[u], seen[u],
              rejected[u], outcome[u])
    BY <1>1, <2>1, LatchedSound
  <2> QED  BY <1>2, <2>2 DEF ThreadSound
<1>4. StoreSound(policy', store)  BY <1>1, LatchedChosen DEF StoreSound
<1> QED  BY <1>2, <1>3, <1>4

LEMMA EngineStep == EngineInv /\ [Next]_vars => EngineInv'
<1> SUFFICES ASSUME EngineInv, [Next]_vars PROVE EngineInv'  OBVIOUS
<1>0. TypeOK'  BY TypeStep DEF EngineInv
\* A step of t that leaves the policy alone: what t knows and, for a
\* publication, the store are the only things to show.
<1>a. ASSUME NEW t \in Threads, policy' = policy,
             \A u \in Threads \ {t} : Untouched(u),
             ThreadSound(t)', StoreSound(policy', store')
      PROVE  EngineInv'
  <2>1. ASSUME NEW u \in Threads PROVE ThreadSound(u)'
    <3>1. CASE u = t  BY <3>1, <1>a
    <3>2. CASE u # t  BY <3>2, <1>a, UntouchedSound DEF EngineInv
    <3> QED  BY <3>1, <3>2
  <2> QED  BY <1>0, <1>a, <2>1 DEF EngineInv
<1>b. ASSUME policy' = policy, store' = store PROVE StoreSound(policy', store')
  BY <1>b DEF EngineInv
<1> USE DEF EngineInv, TypeOK, Untouched, Goto, searchVars
<1>1. ASSUME NEW t \in Threads, NEW r \in Requests, Call(t, r) PROVE EngineInv'
  <2>1. policy' = policy /\ store' = store /\ \A u \in Threads \ {t} : Untouched(u)
    BY <1>1 DEF Call
  <2> QED  BY <1>1, <2>1, <1>a, <1>b, CallSound
<1>2. ASSUME NEW t \in Threads, Validate(t) PROVE EngineInv'
  <2>1. policy' = policy /\ store' = store /\ \A u \in Threads \ {t} : Untouched(u)
    BY <1>2 DEF Validate, End
  <2> QED  BY <1>2, <2>1, <1>a, <1>b, ValidateSound
<1>3. ASSUME NEW t \in Threads, Lookup(t) PROVE EngineInv'
  <2>1. policy' = policy /\ store' = store /\ \A u \in Threads \ {t} : Untouched(u)
    BY <1>3 DEF Lookup
  <2> QED  BY <1>3, <2>1, <1>a, <1>b, LookupSound
<1>4. ASSUME NEW t \in Threads, EnterSource(t) PROVE EngineInv'
  <2>1. policy' = policy /\ store' = store /\ \A u \in Threads \ {t} : Untouched(u)
    BY <1>4 DEF EnterSource
  <2> QED  BY <1>4, <2>1, <1>a, <1>b, EnterSourceSound
<1>5. ASSUME NEW t \in Threads, Offer(t) PROVE EngineInv'
  <2>1. policy' = policy /\ store' = store /\ \A u \in Threads \ {t} : Untouched(u)
    BY <1>5 DEF Offer, Judge
  <2> QED  BY <1>5, <2>1, <1>a, <1>b, OfferSound
<1>6. ASSUME NEW t \in Threads, Exhaust(t) PROVE EngineInv'
  <2>1. policy' = policy /\ store' = store /\ \A u \in Threads \ {t} : Untouched(u)
    BY <1>6 DEF Exhaust, End
  <2> QED  BY <1>6, <2>1, <1>a, <1>b, ExhaustSound
<1>7. ASSUME NEW t \in Threads, Publish(t) PROVE EngineInv'
  <2>1. policy' = policy /\ \A u \in Threads \ {t} : Untouched(u)
    BY <1>7 DEF Publish
  <2> QED  BY <1>7, <2>1, <1>a, PublishSound
<1>8. ASSUME NEW t \in Threads, Configure(t) PROVE EngineInv'
  <2>1. policy' = policy /\ store' = store /\ \A u \in Threads \ {t} : Untouched(u)
    BY <1>8 DEF Configure, End
  <2> QED  BY <1>8, <2>1, <1>a, <1>b, ConfigureSound
<1>9. ASSUME NEW t \in Threads, OutOfMemory(t) PROVE EngineInv'
  <2>1. policy' = policy /\ store' = store /\ \A u \in Threads \ {t} : Untouched(u)
    BY <1>9 DEF OutOfMemory, End
  <2> QED  BY <1>9, <2>1, <1>a, <1>b, OutOfMemorySound
<1>10. ASSUME NEW t \in Threads, Return(t) PROVE EngineInv'
  <2>1. policy' = policy /\ store' = store /\ \A u \in Threads \ {t} : Untouched(u)
    BY <1>10 DEF Return
  <2> QED  BY <1>10, <2>1, <1>a, <1>b, ReturnSound
<1>11. ASSUME NEW t \in Threads, NEW v \in Variables, Latch(t, v) PROVE EngineInv'
  BY <1>0, <1>11, LatchSound
<1>12. ASSUME NEW v \in Variables, NEW value \in RawValues[v], SetEnv(v, value) PROVE EngineInv'
  <2>1. policy' = policy /\ store' = store /\ \A u \in Threads : Untouched(u)
    BY <1>12 DEF SetEnv
  <2> QED  BY <1>0, <2>1, <1>b, UntouchedSound
<1>13. ASSUME NEW K \in SUBSET Keys, DropEntries(K) PROVE EngineInv'
  <2>1. policy' = policy /\ \A u \in Threads : Untouched(u)
    BY <1>13 DEF DropEntries
  <2>2. \A k \in Keys : store'[k] = Absent \/ store'[k] = store[k]  BY <1>13 DEF DropEntries
  <2>3. StoreSound(policy', store')  BY <2>1, <2>2, KeyType DEF StoreSound
  <2> QED  BY <1>0, <2>1, <2>3, UntouchedSound
<1>14. CASE UNCHANGED vars
  <2>1. policy' = policy /\ store' = store /\ \A u \in Threads : Untouched(u)
    BY <1>14 DEF vars
  <2> QED  BY <1>0, <2>1, <1>b, UntouchedSound
<1> QED
  BY <1>1, <1>2, <1>3, <1>4, <1>5, <1>6, <1>7, <1>8, <1>9, <1>10, <1>11, <1>12, <1>13, <1>14
  DEF Next, Step, StoredKeys

LEMMA EngineInvariant == Spec => []EngineInv
BY SoundInit, EngineStep, PTL DEF Spec

-----------------------------------------------------------------------------
(* The theorems. *)

\* Every list in the cache is the selection of every request with its key:
\* a hit answers exactly what the search would have answered.
THEOREM CacheHitsRight == Spec => []CachedSelectionsRight
<1>1. EngineInv => CachedSelectionsRight
  BY DEF EngineInv, StoreSound, Chosen, CachedSelectionsRight
<1> QED  BY <1>1, EngineInvariant, PTL

\* Every successful call answers with the selection of its own request,
\* whatever the other threads do and whenever the settings were read.
THEOREM AnswersCorrect == Spec => []AnswersRight
<1>1. EngineInv => AnswersRight
  BY DEF EngineInv, ThreadSound, Sound, Chosen, AnswersRight
<1> QED  BY <1>1, EngineInvariant, PTL

\* UNSUPPORTED means that no record is usable, and that every record the
\* environment lets through is named.
THEOREM RefusalsCorrect == Spec => []UnsupportedRight
<1>1. EngineInv => UnsupportedRight
  BY DEF EngineInv, ThreadSound, Sound, Refused, UnsupportedRight
<1> QED  BY <1>1, EngineInvariant, PTL
==============================================================================
