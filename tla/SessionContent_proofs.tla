------------------------- MODULE SessionContent_proofs -------------------------
(***************************************************************************)
(* The entries of sessions: accepted entries survive, branches read, and   *)
(* work goes on where it was, for any sets of documents, Sessions and ids. *)
(*                                                                         *)
(* The path to the root is a recursive function.  That it is well defined, *)
(* and what it returns, is proved by induction over the rounds of its      *)
(* loop, which the lemma Induction reduces to the least element of a set.  *)
(***************************************************************************)
EXTENDS SessionContent, TLAPS, FiniteSetTheorems, SequenceTheorems, WellFoundedInduction

(* What the proofs say of entries *)

Parents(entries) == {entries[i].parent : i \in DOMAIN entries}

Unique(entries) == \A i, j \in DOMAIN entries : entries[i].id = entries[j].id => i = j

\* Parents stand before their children; that of the first entry, which a fork may
\* have left behind, nowhere.
Backwards(entries) ==
    /\ \A i \in DOMAIN entries :
          \/ i = 1
          \/ entries[i].parent = None
          \/ \E j \in 1 .. i - 1 : entries[j].id = entries[i].parent
    /\ \A i \in DOMAIN entries : entries[i].id # entries[1].parent

WellFormed(entries) == Unique(entries) /\ Backwards(entries)

Parsed(d) == Torn \notin ToSet(file[d])

(* The invariant *)

\* The types of the variables.  That ids in the caches are unique follows from Shown.
Typed ==
    /\ status \in [Document -> {"unused", "exists", "deleted"}]
    /\ file \in [Document -> Seq(Entry \union {Torn})]
    /\ unended \in [Document -> BOOLEAN]
    /\ cache \in [Document -> Seq(Entry) \union {None}]
    /\ session \in [Session -> Object]
    /\ accepted \in [Document -> Seq(Entry)]
    /\ torn \in [Document -> BOOLEAN]
    /\ unseen \in [Document -> BOOLEAN]
    /\ events \in 0 .. MaxEvents

\* Documents that do not exist have nothing.
Absent(d) == status[d] # "exists" =>
    /\ cache[d] = None /\ accepted[d] = <<>> /\ file[d] = <<>>
    /\ ~unended[d] /\ ~torn[d]

\* Lines are joined only after a failure was noted.
Untorn(d) == ~torn[d] => Parsed(d) /\ ~unended[d]

\* A file that parses is a tree, and has what was accepted.
Kept(d) == Parsed(d) =>
    /\ WellFormed(file[d])
    /\ KeepsOrder(file[d], accepted[d])
    /\ Len(accepted[d]) <= Len(file[d])

\* The caches show a tree, and nothing that a file that parses has not.
Shown(d) == cache[d] # None =>
    /\ WellFormed(cache[d])
    /\ Parsed(d) =>
          /\ ToSet(cache[d]) \subseteq ToSet(file[d])
          /\ ~unseen[d] => cache[d] = file[d]
          /\ file[d] = accepted[d] => cache[d] = file[d]

\* A document about to be written is nobody else's.  The fork of a branch is one.
Copying(s) ==
    /\ session[s].pc = "copied" =>
          /\ session[s].doc \in Document /\ status[session[s].doc] = "unused"
          /\ \A u \in Session \ {s} : session[u].doc # session[s].doc
          /\ WellFormed(session[s].copy)
    /\ session[s].pc # "copied" => ~session[s].branch
    /\ session[s].branch /\ session[s].copy # <<>> /\ Last(session[s].copy).kind # "leaf" =>
          Path(session[s].copy, LeafOf(session[s].copy)) = session[s].copy

\* A Session that is open knows its document while that exists, and its leaf is an
\* entry, as will be the one it moves to.
Located(s) ==
    LET d == session[s].doc
    IN  /\ session[s].pc \in {"opening", "open"} =>
              /\ d \in Document
              /\ status[d] # "unused"
              /\ status[d] = "exists" => cache[d] # None
        /\ session[s].pc # "open" => session[s].tasks = <<>> /\ session[s].id = None
        /\ session[s].pc = "closed" => d = None
        /\ session[s].pc = "open" /\ cache[d] # None =>
              /\ session[s].leaf \in Ids(cache[d]) \union {None}
              /\ \A i \in DOMAIN session[s].tasks : session[s].tasks[i].kind = "leaf" =>
                    session[s].tasks[i].target \in Ids(cache[d]) \union {None}

\* An id that was drawn is new in the file as long as it is new in the caches.
Drawn(s) == session[s].id # None =>
    /\ session[s].tasks # <<>>
    /\ LET d == session[s].doc
       IN  cache[d] # None /\ session[s].id \notin Ids(cache[d]) =>
              /\ session[s].id \notin Parents(cache[d])
              /\ Parsed(d) => session[s].id \notin Ids(file[d]) \union Parents(file[d])

\* The only open Session of a document is where the file ends.
InPlace(s) ==
    LET d == session[s].doc
    IN  /\ session[s].pc = "open" /\ status[d] = "exists"
        /\ file[d] = accepted[d]
        /\ \A u \in Session \ {s} : session[u].pc = "open" => session[u].doc # d
        => LeafOf(file[d]) = session[s].leaf

DocumentInv(d) == Absent(d) /\ Untorn(d) /\ Kept(d) /\ Shown(d)
SessionInv(s) == Copying(s) /\ Located(s) /\ Drawn(s) /\ InPlace(s)

IInv == (\A d \in Document : DocumentInv(d)) /\ (\A s \in Session : SessionInv(s))
Inv == Typed /\ IInv

-----------------------------------------------------------------------------
(* Induction *)

Below == {pair \in Nat \X Nat : pair[1] < pair[2]}

\* The naturals are well ordered.
LEMMA Least ==
    ASSUME NEW T, T \subseteq Nat, T # {}
    PROVE  \E m \in T : \A n \in T : m <= n
<1>1. IsWellFoundedOn(Below, Nat)
  BY NatLessThanWellFounded DEF OpToRel, Below
<1>2. PICK m \in T : \A n \in T : <<n, m>> \notin Below
  BY <1>1, WFMin
<1>3. \A n \in T : ~(n < m)
  BY <1>2 DEF Below
<1> QED
  BY <1>3

\* A set with zero and every successor up to a bound has all of them.
LEMMA Induction ==
    ASSUME NEW bound \in Nat, NEW T, 0 \in T,
           \A n \in Nat : n \in T /\ n < bound => n + 1 \in T
    PROVE  0 .. bound \subseteq T
<1> SUFFICES ASSUME (0 .. bound) \ T # {} PROVE FALSE
  OBVIOUS
<1>1. PICK m \in (0 .. bound) \ T : \A n \in (0 .. bound) \ T : m <= n
  <2> DEFINE S == (0 .. bound) \ T
  <2>1. S \subseteq Nat /\ S # {}
    OBVIOUS
  <2> HIDE DEF S
  <2>2. \E m \in S : \A n \in S : m <= n
    BY <2>1, Least
  <2> QED
    BY <2>2 DEF S
<1>2. m # 0 /\ m - 1 \in Nat /\ m - 1 < bound /\ m - 1 \in 0 .. bound
  BY <1>1
<1>3. m - 1 \in T
  BY <1>1, <1>2
<1> QED
  BY <1>1, <1>2, <1>3

-----------------------------------------------------------------------------
(* The walk to the root *)

\* One round of the loop, behind the rounds before.
Round(entries, n, before) ==
    [id \in Id \union {None} |-> [stop \in Id \union {None} |->
        IF n = 0 \/ id \notin Ids(entries) THEN <<Torn>>
        ELSE IF Ends(ById(entries, id), stop) THEN <<ById(entries, id)>>
             ELSE Append(before[ById(entries, id).parent][StopAfter(ById(entries, id), stop)],
                         ById(entries, id))]]

LEMMA RoundZero == ASSUME NEW entries, NEW x, NEW y
                   PROVE  Round(entries, 0, x) = Round(entries, 0, y)
  BY DEF Round

\* The recursive function is what its definition says.
LEMMA WalkRounds ==
    ASSUME NEW entries, Len(entries) \in Nat
    PROVE  Walk(entries) =
               [n \in 0 .. Len(entries) |-> Round(entries, n, Walk(entries)[n - 1])]
<1> DEFINE Rounds(n, w) == w = [k \in 0 .. n |-> Round(entries, k, w[k - 1])]
           T == {n \in Nat : \E w : Rounds(n, w)}
<1>1. 0 \in T
  <2> DEFINE w == [k \in 0 .. 0 |-> Round(entries, k, 0)]
  <2>1. \A k \in 0 .. 0 : k = 0
    OBVIOUS
  <2>2. \A k \in 0 .. 0 : Round(entries, k, 0) = Round(entries, k, w[k - 1])
    BY <2>1, RoundZero
  <2>3. Rounds(0, w)
    BY <2>2
  <2> QED
    BY <2>3
<1>2. ASSUME NEW n \in Nat, n \in T PROVE n + 1 \in T
  <2>1. PICK v : Rounds(n, v)
    BY <1>2
  <2> DEFINE w == [k \in 0 .. n + 1 |-> IF k = n + 1 THEN Round(entries, n + 1, v[n]) ELSE v[k]]
  <2>2. ASSUME NEW k \in 0 .. n + 1 PROVE w[k] = Round(entries, k, w[k - 1])
    <3>1. CASE k = n + 1
      <4>1. k - 1 = n /\ n \in 0 .. n + 1 /\ n # n + 1
        BY <3>1
      <4>2. w[n] = v[n]
        BY <4>1
      <4> QED
        BY <3>1, <4>1, <4>2
    <3>2. CASE k = 0
      <4>1. w[0] = v[0]
        BY <3>2
      <4>2. v[0] = Round(entries, 0, v[0 - 1])
        BY <2>1
      <4>3. Round(entries, 0, v[0 - 1]) = Round(entries, 0, w[0 - 1])
        BY RoundZero
      <4> QED
        BY <3>2, <4>1, <4>2, <4>3
    <3>3. CASE k \in 1 .. n
      <4>1. k \in 0 .. n /\ k - 1 \in 0 .. n + 1 /\ k - 1 # n + 1 /\ k # n + 1
        BY <3>3
      <4>2. w[k] = v[k] /\ w[k - 1] = v[k - 1]
        BY <4>1
      <4>3. v[k] = Round(entries, k, v[k - 1])
        BY <2>1, <4>1
      <4> QED
        BY <4>2, <4>3
    <3> QED
      BY <3>1, <3>2, <3>3
  <2> HIDE DEF w
  <2>3. DOMAIN w = 0 .. n + 1 /\ w = [k \in 0 .. n + 1 |-> w[k]]
    BY DEF w
  <2>4. Rounds(n + 1, w)
    BY <2>2, <2>3
  <2> QED
    BY <2>4
<1> HIDE DEF Rounds
<1>3. 0 .. Len(entries) \subseteq T
  <2> HIDE DEF T
  <2> QED
    BY <1>1, <1>2, Induction
<1>4. \E w : Rounds(Len(entries), w)
  BY <1>3
<1> QED
  BY <1>4 DEF Rounds, Walk, Round

LEMMA Chosen ==
    ASSUME NEW entries \in Seq(Entry), NEW id \in Ids(entries)
    PROVE  \E i \in DOMAIN entries : entries[i] = ById(entries, id) /\ entries[i].id = id
  BY DEF Ids, ById

LEMMA ChosenTyped ==
    ASSUME NEW entries \in Seq(Entry), NEW id \in Ids(entries)
    PROVE  /\ ById(entries, id) \in Entry
           /\ ById(entries, id) \in ToSet(entries)
           /\ ById(entries, id).id = id
           /\ ById(entries, id).parent \in Id \union {None}
           /\ \A stop \in Id \union {None} :
                 StopAfter(ById(entries, id), stop) \in Id \union {None}
<1>1. PICK i \in DOMAIN entries : entries[i] = ById(entries, id) /\ entries[i].id = id
  BY Chosen
<1>2. entries[i] \in Entry
  BY <1>1
<1>3. ById(entries, id) \in Entry /\ ById(entries, id).id = id
  BY <1>1, <1>2
<1>4. ById(entries, id) \in ToSet(entries)
  BY <1>1 DEF ToSet
<1> QED
  BY <1>3, <1>4 DEF Entry, StopAfter

LEMMA WalkStep ==
    ASSUME NEW entries \in Seq(Entry), NEW n \in 0 .. Len(entries),
           NEW id \in Id \union {None}, NEW stop \in Id \union {None}
    PROVE  Walk(entries)[n][id][stop] =
               IF n = 0 \/ id \notin Ids(entries) THEN <<Torn>>
               ELSE IF Ends(ById(entries, id), stop) THEN <<ById(entries, id)>>
                    ELSE Append(Walk(entries)[n - 1][ById(entries, id).parent]
                                    [StopAfter(ById(entries, id), stop)], ById(entries, id))
<1>1. Walk(entries)[n] = Round(entries, n, Walk(entries)[n - 1])
  BY WalkRounds
<1> QED
  BY <1>1 DEF Round

LEMMA WalkZero ==
    ASSUME NEW entries \in Seq(Entry)
    PROVE  /\ 0 \in 0 .. Len(entries)
           /\ \A x, y \in Id \union {None} : Walk(entries)[0][x][y] = <<Torn>>
<1>1. 0 \in 0 .. Len(entries)
  OBVIOUS
<1> QED
  BY <1>1, WalkStep

\* The found way to an entry: from parent to child, and forwards in the file.
Found(entries, path, id) ==
    /\ path \in Seq(Entry) /\ path # <<>> /\ path[Len(path)].id = id
    /\ ToSet(path) \subseteq ToSet(entries)
    /\ \A i \in DOMAIN path : i = 1 \/ path[i].parent = path[i - 1].id
    /\ \A i, j \in DOMAIN path, k, m \in DOMAIN entries :
          i < j /\ path[i] = entries[k] /\ path[j] = entries[m] => k < m

LEMMA FoundOne ==
    ASSUME NEW entries \in Seq(Entry), Unique(entries), NEW id \in Ids(entries)
    PROVE  Found(entries, <<ById(entries, id)>>, id)
  BY ChosenTyped DEF Found, ToSet

LEMMA ParentBefore ==
    ASSUME NEW entries \in Seq(Entry), WellFormed(entries),
           NEW k \in DOMAIN entries, NEW c \in DOMAIN entries,
           entries[k].id = entries[c].parent
    PROVE  k < c
<1>1. entries[k].id # None /\ c # 1
  <2>1. entries[k] \in Entry
    OBVIOUS
  <2> QED
    BY <2>1, ContentAssumption DEF Entry, WellFormed, Backwards
<1>2. PICK j \in 1 .. c - 1 : entries[j].id = entries[c].parent
  BY <1>1 DEF WellFormed, Backwards
<1>3. j = k
  BY <1>2 DEF WellFormed, Unique
<1> QED
  BY <1>2, <1>3

LEMMA FoundMore ==
    ASSUME NEW entries \in Seq(Entry), WellFormed(entries),
           NEW id \in Ids(entries), NEW path,
           Found(entries, path, ById(entries, id).parent)
    PROVE  Found(entries, Append(path, ById(entries, id)), id)
<1> DEFINE e == ById(entries, id)
           q == Append(path, e)
<1>1. e \in Entry /\ e \in ToSet(entries) /\ e.id = id
  BY ChosenTyped
<1>2. PICK c \in DOMAIN entries : entries[c] = e
  BY Chosen
<1>3. path \in Seq(Entry) /\ path # <<>> /\ path[Len(path)].id = e.parent
  BY DEF Found
<1> HIDE DEF e
<1>4. /\ q \in Seq(Entry) /\ Len(q) = Len(path) + 1 /\ q[Len(q)] = e
      /\ DOMAIN q = 1 .. Len(path) + 1 /\ DOMAIN path = 1 .. Len(path)
      /\ \A i \in DOMAIN path : q[i] = path[i]
      /\ Len(path) \in Nat /\ Len(path) > 0
  BY <1>1, <1>3
<1> HIDE DEF q
<1>5. q # <<>> /\ q[Len(q)].id = id
  BY <1>1, <1>4
<1>6. ToSet(q) \subseteq ToSet(entries)
  <2>1. \A i \in DOMAIN path : path[i] \in ToSet(entries)
    BY DEF Found, ToSet
  <2>2. \A i \in DOMAIN q : q[i] \in ToSet(entries)
    <3> SUFFICES ASSUME NEW i \in DOMAIN q PROVE q[i] \in ToSet(entries)
      OBVIOUS
    <3>1. CASE i = Len(q)
      BY <3>1, <1>1, <1>4
    <3>2. CASE i \in DOMAIN path
      BY <3>2, <1>4, <2>1
    <3> QED
      BY <3>1, <3>2, <1>4
  <2> QED
    BY <2>2 DEF ToSet
<1>7. \A i \in DOMAIN q : i = 1 \/ q[i].parent = q[i - 1].id
  <2> SUFFICES ASSUME NEW i \in DOMAIN q, i # 1 PROVE q[i].parent = q[i - 1].id
    OBVIOUS
  <2>1. CASE i = Len(path) + 1
    <3>1. i - 1 = Len(path) /\ Len(path) \in DOMAIN path
      BY <2>1, <1>4
    <3> QED
      BY <2>1, <3>1, <1>3, <1>4
  <2>2. CASE i # Len(path) + 1
    <3>1. i \in DOMAIN path /\ i - 1 \in DOMAIN path
      BY <2>2, <1>4
    <3> QED
      BY <3>1, <1>4 DEF Found
  <2> QED
    BY <2>1, <2>2
<1>8. \A k \in DOMAIN entries : entries[k].id = e.parent => k < c
  BY <1>2, ParentBefore
<1>9. ASSUME NEW i \in DOMAIN q, NEW j \in DOMAIN q, NEW k \in DOMAIN entries,
             NEW m \in DOMAIN entries, i < j, q[i] = entries[k], q[j] = entries[m]
      PROVE  k < m
  <2>1. i \in DOMAIN path /\ q[i] = path[i]
    BY <1>9, <1>4
  <2>2. CASE j \in DOMAIN path
    BY <1>9, <2>1, <2>2, <1>4 DEF Found
  <2>3. CASE j = Len(path) + 1
    <3>1. m = c
      BY <1>9, <2>3, <1>4, <1>2 DEF WellFormed, Unique
    <3>2. path[Len(path)] \in ToSet(entries)
      <4>1. Len(path) \in DOMAIN path
        BY <1>4
      <4> QED
        BY <4>1 DEF Found, ToSet
    <3>3. PICK l \in DOMAIN entries : path[Len(path)] = entries[l]
      BY <3>2 DEF ToSet
    <3>4. l < c
      BY <3>3, <1>3, <1>8
    <3>5. CASE i = Len(path)
      BY <3>1, <1>9, <2>1, <3>5, <1>3, <1>8
    <3>6. CASE i < Len(path)
      <4>1. k < l
        BY <3>6, <3>3, <2>1, <1>9, <1>4 DEF Found
      <4> QED
        BY <4>1, <3>4, <3>1
    <3> QED
      BY <3>5, <3>6, <2>1, <1>4
  <2> QED
    BY <2>2, <2>3, <1>4
<1> QED
  BY <1>4, <1>5, <1>6, <1>7, <1>9 DEF Found, q, e

LEMMA AppendReads ==
    ASSUME NEW S, NEW path \in Seq(S), NEW e
    PROVE  ToSet(Append(path, e)) = ToSet(path) \union {e}
<1> DEFINE q == Append(path, e)
<1>1. /\ DOMAIN q = 1 .. Len(path) + 1 /\ DOMAIN path = 1 .. Len(path)
      /\ q[Len(path) + 1] = e
      /\ \A i \in DOMAIN path : q[i] = path[i]
      /\ Len(path) \in Nat
  OBVIOUS
<1> HIDE DEF q
<1>2. \A i \in DOMAIN q : q[i] \in ToSet(path) \union {e}
  BY <1>1 DEF ToSet
<1>3. e \in ToSet(q)
  BY <1>1 DEF ToSet
<1>4. \A i \in DOMAIN path : path[i] \in ToSet(q)
  BY <1>1 DEF ToSet
<1>5. ToSet(q) = ToSet(path) \union {e}
  BY <1>2, <1>3, <1>4 DEF ToSet
<1> QED
  BY <1>5 DEF q

\* Whatever the walk returns without Torn is the way to the entry it was given.
LEMMA WalkFinds ==
    ASSUME NEW entries \in Seq(Entry), WellFormed(entries),
           NEW n \in 0 .. Len(entries),
           NEW id \in Id \union {None}, NEW stop \in Id \union {None}
    PROVE  /\ Walk(entries)[n][id][stop] \in Seq(Entry \union {Torn})
           /\ Torn \notin ToSet(Walk(entries)[n][id][stop]) =>
                 Found(entries, Walk(entries)[n][id][stop], id)
<1> DEFINE Finds(path, x) == /\ path \in Seq(Entry \union {Torn})
                             /\ Torn \notin ToSet(path) => Found(entries, path, x)
           T == {m \in 0 .. Len(entries) : \A x, y \in Id \union {None} :
                    Finds(Walk(entries)[m][x][y], x)}
<1>1. \A x : Finds(<<Torn>>, x)
  <2>1. <<Torn>>[1] = Torn /\ 1 \in DOMAIN <<Torn>>
    OBVIOUS
  <2>2. Torn \in ToSet(<<Torn>>)
    BY <2>1 DEF ToSet
  <2> QED
    BY <2>2
<1>2. 0 \in T
  <2>1. 0 \in 0 .. Len(entries) /\ \A x, y \in Id \union {None} : Walk(entries)[0][x][y] = <<Torn>>
    BY WalkZero
  <2> HIDE DEF Finds
  <2> QED
    BY <2>1, <1>1
<1>3. ASSUME NEW m \in Nat, m \in T, m < Len(entries) PROVE m + 1 \in T
  <2> SUFFICES ASSUME NEW x \in Id \union {None}, NEW y \in Id \union {None}
               PROVE  Finds(Walk(entries)[m + 1][x][y], x)
    BY <1>3
  <2> DEFINE w == Walk(entries)[m + 1][x][y]
             e == ById(entries, x)
             before == Walk(entries)[m][e.parent][StopAfter(e, y)]
  <2>1. w = IF x \notin Ids(entries) THEN <<Torn>>
            ELSE IF Ends(e, y) THEN <<e>> ELSE Append(before, e)
    <3>1. m + 1 # 0 /\ m + 1 - 1 = m /\ m + 1 \in 0 .. Len(entries)
      BY <1>3
    <3>2. w = IF m + 1 = 0 \/ x \notin Ids(entries) THEN <<Torn>>
              ELSE IF Ends(e, y) THEN <<e>>
                   ELSE Append(Walk(entries)[m + 1 - 1][e.parent][StopAfter(e, y)], e)
      BY <3>1, WalkStep
    <3> QED
      BY <3>1, <3>2
  <2>2. CASE x \notin Ids(entries)
    BY <2>1, <2>2, <1>1
  <2>3. CASE x \in Ids(entries)
    <3>1. /\ e \in Entry /\ e.parent \in Id \union {None}
          /\ StopAfter(e, y) \in Id \union {None}
      BY <2>3, ChosenTyped
    <3>2. CASE Ends(e, y)
      <4>1. w = <<e>>
        BY <2>1, <2>3, <3>2
      <4>2. Found(entries, w, x)
        BY <4>1, <2>3, FoundOne DEF WellFormed
      <4> HIDE DEF w, e
      <4>3. w \in Seq(Entry \union {Torn})
        BY <4>1, <3>1
      <4> QED
        BY <4>2, <4>3 DEF w
    <3>3. CASE ~Ends(e, y)
      <4>1. Finds(before, e.parent)
        BY <3>1, <1>3
      <4>2. w = Append(before, e)
        BY <2>1, <2>3, <3>3
      <4> HIDE DEF before
      <4>3. Torn \notin ToSet(w) => Torn \notin ToSet(before)
        BY <4>1, <4>2, AppendReads
      <4>4. Torn \notin ToSet(before) => Found(entries, w, x)
        BY <4>1, <4>2, <2>3, FoundMore
      <4> HIDE DEF w, e
      <4>5. w \in Seq(Entry \union {Torn})
        BY <4>1, <4>2, <3>1
      <4> QED
        BY <4>3, <4>4, <4>5 DEF w
    <3> QED
      BY <3>2, <3>3
  <2> QED
    BY <2>2, <2>3
<1> HIDE DEF Finds
<1>4. 0 .. Len(entries) \subseteq T
  <2>1. Len(entries) \in Nat
    OBVIOUS
  <2> HIDE DEF T
  <2> QED
    BY <1>2, <1>3, <2>1, Induction
<1>5. Finds(Walk(entries)[n][id][stop], id)
  BY <1>4
<1> QED
  BY <1>5 DEF Finds

\* A walk that reads goes the same way through any entries that have the path.
LEMMA WalkAgain ==
    ASSUME NEW entries \in Seq(Entry), WellFormed(entries),
           NEW copy \in Seq(Entry), Unique(copy),
           NEW n \in 0 .. Len(entries),
           NEW id \in Id \union {None}, NEW stop \in Id \union {None},
           Torn \notin ToSet(Walk(entries)[n][id][stop]),
           ToSet(Walk(entries)[n][id][stop]) \subseteq ToSet(copy),
           NEW k \in 0 .. Len(copy), Len(Walk(entries)[n][id][stop]) <= k
    PROVE  Walk(copy)[k][id][stop] = Walk(entries)[n][id][stop]
<1> DEFINE Agrees(path, x, y) ==
               Torn \notin ToSet(path) /\ ToSet(path) \subseteq ToSet(copy) =>
                  \A j \in 0 .. Len(copy) : Len(path) <= j => Walk(copy)[j][x][y] = path
           T == {m \in 0 .. Len(entries) : \A x, y \in Id \union {None} :
                    Agrees(Walk(entries)[m][x][y], x, y)}
<1>1. \A x, y : Agrees(<<Torn>>, x, y)
  <2>1. <<Torn>>[1] = Torn /\ 1 \in DOMAIN <<Torn>>
    OBVIOUS
  <2>2. Torn \in ToSet(<<Torn>>)
    BY <2>1 DEF ToSet
  <2> QED
    BY <2>2
<1>2. 0 \in T
  <2>1. 0 \in 0 .. Len(entries) /\ \A x, y \in Id \union {None} : Walk(entries)[0][x][y] = <<Torn>>
    BY WalkZero
  <2> HIDE DEF Agrees
  <2> QED
    BY <2>1, <1>1
<1>3. ASSUME NEW m \in Nat, m \in T, m < Len(entries) PROVE m + 1 \in T
  <2> SUFFICES ASSUME NEW x \in Id \union {None}, NEW y \in Id \union {None}
               PROVE  Agrees(Walk(entries)[m + 1][x][y], x, y)
    <3>1. m + 1 \in 0 .. Len(entries)
      BY <1>3
    <3> HIDE DEF Agrees
    <3> QED
      BY <3>1
  <2> DEFINE w == Walk(entries)[m + 1][x][y]
             e == ById(entries, x)
             before == Walk(entries)[m][e.parent][StopAfter(e, y)]
  <2>1. w = IF x \notin Ids(entries) THEN <<Torn>>
            ELSE IF Ends(e, y) THEN <<e>> ELSE Append(before, e)
    <3>1. m + 1 # 0 /\ m + 1 - 1 = m /\ m + 1 \in 0 .. Len(entries)
      BY <1>3
    <3>2. w = IF m + 1 = 0 \/ x \notin Ids(entries) THEN <<Torn>>
              ELSE IF Ends(e, y) THEN <<e>>
                   ELSE Append(Walk(entries)[m + 1 - 1][e.parent][StopAfter(e, y)], e)
      BY <3>1, WalkStep
    <3> QED
      BY <3>1, <3>2
  <2>2. CASE x \notin Ids(entries)
    BY <2>1, <2>2, <1>1
  <2>3. CASE x \in Ids(entries)
    <3>1. /\ e \in Entry /\ e.id = x /\ e.parent \in Id \union {None}
          /\ StopAfter(e, y) \in Id \union {None}
      BY <2>3, ChosenTyped
    <3>2. m \in 0 .. Len(entries)
      BY <1>3
    <3>3. before \in Seq(Entry \union {Torn})
      BY <3>1, <3>2, WalkFinds
    <3>4. Agrees(before, e.parent, StopAfter(e, y))
      BY <3>1, <1>3
    <3> SUFFICES ASSUME Torn \notin ToSet(w), ToSet(w) \subseteq ToSet(copy),
                        NEW j \in 0 .. Len(copy), Len(w) <= j
                 PROVE  Walk(copy)[j][x][y] = w
      OBVIOUS
    <3> HIDE DEF before
    <3>5. e \in ToSet(w) /\ Len(w) > 0
      <4>1. CASE Ends(e, y)
        <5>1. w = <<e>>
          BY <4>1, <2>1, <2>3
        <5>2. <<e>>[1] = e /\ 1 \in DOMAIN <<e>> /\ Len(<<e>>) = 1
          OBVIOUS
        <5> QED
          BY <5>1, <5>2 DEF ToSet
      <4>2. CASE ~Ends(e, y)
        <5>1. w = Append(before, e)
          BY <4>2, <2>1, <2>3
        <5>2. Len(Append(before, e)) > 0
          BY <3>3
        <5> QED
          BY <5>1, <5>2, <3>3, AppendReads
      <4> QED
        BY <4>1, <4>2
    <3>6. x \in Ids(copy) /\ ById(copy, x) = e
      <4>1. PICK c \in DOMAIN copy : copy[c] = e
        BY <3>5 DEF ToSet
      <4>2. x \in Ids(copy)
        BY <4>1, <3>1 DEF Ids
      <4>3. PICK b \in DOMAIN copy : copy[b] = ById(copy, x) /\ copy[b].id = x
        BY <4>2, Chosen
      <4>4. b = c
        BY <4>1, <4>3, <3>1 DEF Unique
      <4> QED
        BY <4>1, <4>2, <4>3, <4>4
    <3>7. j # 0 /\ j - 1 \in 0 .. Len(copy)
      <4>1. Len(w) \in Nat
        <5>1. CASE Ends(e, y)
          BY <5>1, <2>1, <2>3
        <5>2. CASE ~Ends(e, y)
          BY <5>2, <2>1, <2>3, <3>3
        <5> QED
          BY <5>1, <5>2
      <4> QED
        BY <4>1, <3>5
    <3>8. Walk(copy)[j][x][y] =
              IF Ends(e, y) THEN <<e>>
              ELSE Append(Walk(copy)[j - 1][e.parent][StopAfter(e, y)], e)
      BY <3>6, <3>7, WalkStep
    <3>9. CASE Ends(e, y)
      BY <3>8, <3>9, <2>1, <2>3
    <3>10. CASE ~Ends(e, y)
      <4>1. w = Append(before, e)
        BY <3>10, <2>1, <2>3
      <4>2. Torn \notin ToSet(before) /\ ToSet(before) \subseteq ToSet(copy)
        BY <4>1, <3>3, AppendReads
      <4>3. Len(before) <= j - 1
        BY <4>1, <3>3, <3>7
      <4>4. Walk(copy)[j - 1][e.parent][StopAfter(e, y)] = before
        BY <4>2, <4>3, <3>4, <3>7
      <4> QED
        BY <4>1, <4>4, <3>8, <3>10
    <3> QED
      BY <3>9, <3>10
  <2> QED
    BY <2>2, <2>3
<1>4. 0 .. Len(entries) \subseteq T
  <2>1. Len(entries) \in Nat
    OBVIOUS
  <2> HIDE DEF T
  <2> QED
    BY <1>2, <1>3, <2>1, Induction
<1>5. Agrees(Walk(entries)[n][id][stop], id, stop)
  BY <1>4
<1> QED
  BY <1>5

\* Unless the tree is cut below its first entry, the walk from each of its entries
\* reads, in as many rounds as there are entries up to it.
LEMMA WalkReads ==
    ASSUME NEW entries \in Seq(Entry), WellFormed(entries), ~CutBelow(entries),
           NEW n \in 0 .. Len(entries), NEW k \in 1 .. n, NEW stop \in Id \union {None}
    PROVE  Torn \notin ToSet(Walk(entries)[n][entries[k].id][stop])
<1> DEFINE T == {m \in 0 .. Len(entries) : \A i \in 1 .. m, y \in Id \union {None} :
                    Torn \notin ToSet(Walk(entries)[m][entries[i].id][y])}
<1>1. 0 \in T
  OBVIOUS
<1>2. ASSUME NEW m \in Nat, m \in T, m < Len(entries) PROVE m + 1 \in T
  <2>1. m + 1 # 0 /\ m + 1 - 1 = m /\ m + 1 \in 0 .. Len(entries) /\ m \in 0 .. Len(entries)
    BY <1>2
  <2> SUFFICES ASSUME NEW i \in 1 .. m + 1, NEW y \in Id \union {None}
               PROVE  Torn \notin ToSet(Walk(entries)[m + 1][entries[i].id][y])
    BY <2>1
  <2> DEFINE x == entries[i].id
             e == entries[i]
             before == Walk(entries)[m][e.parent][StopAfter(e, y)]
  <2>2. i \in DOMAIN entries /\ e \in Entry /\ x \in Id /\ x \in Ids(entries)
    <3>1. i \in DOMAIN entries
      BY <2>1
    <3>2. e \in Entry
      BY <3>1
    <3> QED
      BY <3>1, <3>2 DEF Entry, Ids
  <2>3. ById(entries, x) = e
    <3>1. PICK b \in DOMAIN entries : entries[b] = ById(entries, x) /\ entries[b].id = x
      BY <2>2, Chosen
    <3> QED
      BY <3>1, <2>2 DEF WellFormed, Unique
  <2>4. e.parent \in Id \union {None} /\ StopAfter(e, y) \in Id \union {None}
    BY <2>2, <2>3, ChosenTyped
  <2>5. Walk(entries)[m + 1][x][y] = IF Ends(e, y) THEN <<e>> ELSE Append(before, e)
    <3>1. Walk(entries)[m + 1][x][y] =
              IF m + 1 = 0 \/ x \notin Ids(entries) THEN <<Torn>>
              ELSE IF Ends(e, y) THEN <<e>>
                   ELSE Append(Walk(entries)[m + 1 - 1][e.parent][StopAfter(e, y)], e)
      BY <2>1, <2>2, <2>3, WalkStep
    <3> QED
      BY <3>1, <2>1, <2>2
  <2>6. e # Torn
    BY <2>2, EntryAssumption
  <2>7. CASE Ends(e, y)
    BY <2>5, <2>6, <2>7 DEF ToSet
  <2>8. CASE ~Ends(e, y)
    <3>1. e.parent # None /\ ~(e.kind = "compaction" /\ e.target = None)
      BY <2>8 DEF Ends
    <3>2. i # 1
      <4>1. entries # <<>>
        BY <2>2
      <4> QED
        BY <4>1, <3>1 DEF CutBelow
    <3>3. PICK j \in 1 .. i - 1 : entries[j].id = e.parent
      BY <3>1, <3>2, <2>2 DEF WellFormed, Backwards
    <3>4. j \in 1 .. m
      BY <3>3, <2>1
    <3>5. Torn \notin ToSet(before)
      BY <3>3, <3>4, <2>4, <1>2
    <3>6. before \in Seq(Entry \union {Torn})
      BY <2>1, <2>4, WalkFinds
    <3> HIDE DEF before
    <3> QED
      BY <3>5, <3>6, <2>5, <2>6, <2>8, AppendReads
  <2> QED
    BY <2>7, <2>8
<1>3. 0 .. Len(entries) \subseteq T
  <2>1. Len(entries) \in Nat
    OBVIOUS
  <2> HIDE DEF T
  <2> QED
    BY <1>1, <1>2, <2>1, Induction
<1> QED
  BY <1>3

LEMMA FoundWellFormed ==
    ASSUME NEW entries \in Seq(Entry), WellFormed(entries), NEW path, NEW id,
           Found(entries, path, id)
    PROVE  WellFormed(path)
<1>1. path \in Seq(Entry) /\ \A i \in DOMAIN path : path[i] \in ToSet(entries)
  BY DEF Found, ToSet
<1>2. \A i \in DOMAIN path : \E k \in DOMAIN entries : path[i] = entries[k]
  BY <1>1 DEF ToSet
<1>3. Unique(path)
  <2> SUFFICES ASSUME NEW i \in DOMAIN path, NEW j \in DOMAIN path,
                      path[i].id = path[j].id, i < j
               PROVE  FALSE
    BY <1>1 DEF Unique
  <2>1. PICK k \in DOMAIN entries : path[i] = entries[k]
    BY <1>2
  <2>2. PICK m \in DOMAIN entries : path[j] = entries[m]
    BY <1>2
  <2>3. k = m
    BY <2>1, <2>2 DEF WellFormed, Unique
  <2>4. k < m
    BY <2>1, <2>2 DEF Found
  <2> QED
    BY <2>3, <2>4
<1>4. \A i \in DOMAIN path :
          \/ i = 1
          \/ path[i].parent = None
          \/ \E j \in 1 .. i - 1 : path[j].id = path[i].parent
  <2> SUFFICES ASSUME NEW i \in DOMAIN path, i # 1
               PROVE  \E j \in 1 .. i - 1 : path[j].id = path[i].parent
    OBVIOUS
  <2>1. path[i].parent = path[i - 1].id
    BY DEF Found
  <2>2. i - 1 \in 1 .. i - 1
    BY <1>1
  <2> QED
    BY <2>1, <2>2
<1>5. ASSUME NEW i \in DOMAIN path, path[i].id = path[1].parent PROVE FALSE
  <2>1. 1 \in DOMAIN path /\ (i = 1 \/ 1 < i)
    BY <1>1
  <2>2. PICK k \in DOMAIN entries : path[i] = entries[k]
    BY <1>2
  <2>3. PICK m \in DOMAIN entries : path[1] = entries[m]
    BY <2>1, <1>2
  <2>4. k < m
    BY <2>2, <2>3, <1>5, ParentBefore
  <2>5. CASE i = 1
    <3>1. k = m
      BY <2>5, <2>2, <2>3 DEF WellFormed, Unique
    <3> QED
      BY <3>1, <2>4
  <2>6. CASE 1 < i
    <3>1. m < k
      BY <2>6, <2>1, <2>2, <2>3 DEF Found
    <3> QED
      BY <3>1, <2>4
  <2> QED
    BY <2>1, <2>5, <2>6
<1> QED
  BY <1>3, <1>4, <1>5 DEF WellFormed, Backwards

LEMMA EmptyWellFormed == WellFormed(<<>>)
  BY DEF WellFormed, Unique, Backwards

\* A path that reads is a tree of its own, and reads as itself from its head.
LEMMA PathFinds ==
    ASSUME NEW entries \in Seq(Entry), WellFormed(entries), NEW leaf \in Id \union {None},
           Reads(Path(entries, leaf))
    PROVE  /\ Path(entries, leaf) \in Seq(Entry)
           /\ WellFormed(Path(entries, leaf))
           /\ Path(entries, leaf) # <<>> /\ Last(Path(entries, leaf)).kind # "leaf" =>
                 Path(Path(entries, leaf), LeafOf(Path(entries, leaf))) = Path(entries, leaf)
<1> DEFINE p == Path(entries, leaf)
<1>1. CASE leaf = None
  <2>1. p = <<>>
    BY <1>1 DEF Path
  <2>2. p \in Seq(Entry)
    BY <2>1
  <2> HIDE DEF p
  <2>3. WellFormed(p)
    BY <2>1, EmptyWellFormed
  <2> QED
    BY <2>1, <2>2, <2>3 DEF p
<1>2. CASE leaf # None
  <2>1. Len(entries) \in 0 .. Len(entries)
    OBVIOUS
  <2>2. p = Walk(entries)[Len(entries)][leaf][None]
    BY <1>2 DEF Path
  <2>3. Torn \notin ToSet(p)
    BY DEF Reads
  <2> HIDE DEF p
  <2>4. Found(entries, p, leaf)
    BY <2>1, <2>2, <2>3, WalkFinds
  <2>5. p \in Seq(Entry) /\ p # <<>> /\ p[Len(p)].id = leaf
    BY <2>4 DEF Found
  <2>6. WellFormed(p)
    BY <2>4, FoundWellFormed
  <2>7. ASSUME Last(p).kind # "leaf" PROVE Path(p, LeafOf(p)) = p
    <3>1. LeafOf(p) = leaf
      BY <2>5, <2>7 DEF LeafOf, Last
    <3>2. Path(p, leaf) = Walk(p)[Len(p)][leaf][None]
      BY <1>2 DEF Path
    <3>3. Len(p) \in 0 .. Len(p) /\ Len(p) <= Len(p)
      BY <2>5
    <3>4. Unique(p)
      BY <2>6 DEF WellFormed
    <3>5. Walk(p)[Len(p)][leaf][None] = Walk(entries)[Len(entries)][leaf][None]
      BY <2>1, <2>2, <2>3, <2>5, <3>3, <3>4, WalkAgain
    <3> QED
      BY <3>1, <3>2, <3>5, <2>2
  <2> QED
    BY <2>5, <2>6, <2>7 DEF p
<1> QED
  BY <1>1, <1>2

\* The branch of an entry of a tree reads.
LEMMA PathReads ==
    ASSUME NEW entries \in Seq(Entry), WellFormed(entries), ~CutBelow(entries),
           NEW leaf \in Ids(entries) \union {None}
    PROVE  Reads(Path(entries, leaf))
<1>1. CASE leaf = None
  <2>1. Path(entries, leaf) = <<>>
    BY <1>1 DEF Path
  <2>2. ToSet(<<>>) = {}
    BY DEF ToSet
  <2> QED
    BY <2>1, <2>2 DEF Reads
<1>2. CASE leaf # None
  <2>1. PICK k \in DOMAIN entries : entries[k].id = leaf
    BY <1>2 DEF Ids
  <2>2. Len(entries) \in 0 .. Len(entries) /\ k \in 1 .. Len(entries)
    BY <2>1
  <2>3. Torn \notin ToSet(Walk(entries)[Len(entries)][leaf][None])
    BY <2>1, <2>2, WalkReads
  <2> QED
    BY <1>2, <2>3 DEF Path, Reads
<1> QED
  BY <1>1, <1>2

-----------------------------------------------------------------------------
(* Lines and entries *)

\* Lines none of which is torn are entries.
LEMMA ParsedEntries ==
    ASSUME NEW lines \in Seq(Entry \union {Torn}), Torn \notin ToSet(lines)
    PROVE  lines \in Seq(Entry)
<1>1. \A i \in DOMAIN lines : lines[i] \in Entry
  BY DEF ToSet
<1> QED
  BY <1>1

LEMMA EntriesParse ==
    ASSUME NEW entries \in Seq(Entry)
    PROVE  Torn \notin ToSet(entries) /\ entries # None
  BY EntryAssumption DEF ToSet

\* Entries with unique ids are as many as their ids: they load.
LEMMA UniqueLoads ==
    ASSUME NEW entries \in Seq(Entry), Unique(entries)
    PROVE  Loadable(entries)
<1> DEFINE f == [i \in 1 .. Len(entries) |-> entries[i].id]
<1>1. Len(entries) \in Nat /\ DOMAIN entries = 1 .. Len(entries)
  OBVIOUS
<1>2. f \in [1 .. Len(entries) -> Ids(entries)] /\ DOMAIN f = 1 .. Len(entries)
  BY <1>1 DEF Ids
<1>3. \A i, j \in 1 .. Len(entries) : f[i] = f[j] => i = j
  BY <1>1 DEF Unique
<1>4. \A id \in Ids(entries) : \E i \in 1 .. Len(entries) : f[i] = id
  BY <1>1 DEF Ids
<1> HIDE DEF f
<1>5. f \in Bijection(1 .. Len(entries), Ids(entries))
  BY <1>2, <1>3, <1>4 DEF Bijection, Injection, Surjection, IsInjective
<1>6. ExistsBijection(1 .. Len(entries), Ids(entries))
  BY <1>5 DEF ExistsBijection
<1>7. Cardinality(Ids(entries)) = Len(entries)
  BY <1>1, <1>6, FS_CountingElements
<1> QED
  BY <1>7, EntriesParse DEF Loadable

\* What an entry behind the others changes
LEMMA AppendFacts ==
    ASSUME NEW S, NEW entries \in Seq(S), NEW e
    PROVE  LET longer == Append(entries, e)
           IN  /\ Len(entries) \in Nat /\ DOMAIN entries = 1 .. Len(entries)
               /\ Len(longer) = Len(entries) + 1
               /\ DOMAIN longer = 1 .. Len(entries) + 1
               /\ longer[Len(entries) + 1] = e
               /\ \A i \in DOMAIN entries : longer[i] = entries[i]
               /\ longer # <<>>
               /\ \A i \in DOMAIN longer : i = Len(entries) + 1 \/ i \in DOMAIN entries
  OBVIOUS

LEMMA AppendIds ==
    ASSUME NEW S, NEW entries \in Seq(S), NEW e
    PROVE  /\ Ids(Append(entries, e)) = Ids(entries) \union {e.id}
           /\ Parents(Append(entries, e)) = Parents(entries) \union {e.parent}
<1> DEFINE longer == Append(entries, e)
<1>1. /\ Len(entries) \in Nat
      /\ DOMAIN longer = 1 .. Len(entries) + 1 /\ DOMAIN entries = 1 .. Len(entries)
      /\ longer[Len(entries) + 1] = e
      /\ \A i \in DOMAIN entries : longer[i] = entries[i]
  OBVIOUS
<1> HIDE DEF longer
<1>2. /\ \A i \in DOMAIN longer : longer[i].id \in Ids(entries) \union {e.id}
      /\ \A i \in DOMAIN longer : longer[i].parent \in Parents(entries) \union {e.parent}
  BY <1>1 DEF Ids, Parents
<1>3. e.id \in Ids(longer) /\ e.parent \in Parents(longer)
  BY <1>1 DEF Ids, Parents
<1>4. /\ \A i \in DOMAIN entries : entries[i].id \in Ids(longer)
      /\ \A i \in DOMAIN entries : entries[i].parent \in Parents(longer)
  BY <1>1 DEF Ids, Parents
<1>5. Ids(longer) = Ids(entries) \union {e.id}
  BY <1>2, <1>3, <1>4 DEF Ids
<1>6. Parents(longer) = Parents(entries) \union {e.parent}
  BY <1>2, <1>3, <1>4 DEF Parents
<1> QED
  BY <1>5, <1>6 DEF longer

\* A new entry below one that is there keeps a tree.
LEMMA AppendWellFormed ==
    ASSUME NEW entries \in Seq(Entry), WellFormed(entries), NEW e \in Entry,
           e.parent \in Ids(entries) \union {None},
           e.id \notin Ids(entries) \union Parents(entries)
    PROVE  WellFormed(Append(entries, e))
<1> DEFINE longer == Append(entries, e)
           last == Len(entries) + 1
<1>1. /\ Len(entries) \in Nat
      /\ DOMAIN longer = 1 .. last /\ DOMAIN entries = 1 .. Len(entries)
      /\ longer[last] = e
      /\ \A i \in DOMAIN entries : longer[i] = entries[i]
      /\ \A i \in DOMAIN longer : i = last \/ i \in DOMAIN entries
  OBVIOUS
<1> HIDE DEF longer
<1>2. \A i \in DOMAIN entries : entries[i].id # e.id /\ entries[i].parent # e.id
  BY DEF Ids, Parents
<1>3. e.id # None /\ e.id # e.parent
  BY ContentAssumption DEF Entry
<1>4. Unique(longer)
  BY <1>1, <1>2 DEF WellFormed, Unique
<1>5. ASSUME NEW i \in DOMAIN longer
      PROVE  \/ i = 1
             \/ longer[i].parent = None
             \/ \E j \in 1 .. i - 1 : longer[j].id = longer[i].parent
  <2>1. CASE i = last
    <3>1. CASE e.parent = None
      BY <2>1, <3>1, <1>1
    <3>2. CASE e.parent \in Ids(entries)
      <4>1. PICK j \in DOMAIN entries : entries[j].id = e.parent
        BY <3>2 DEF Ids
      <4>2. j \in 1 .. i - 1 /\ longer[j].id = longer[i].parent
        BY <4>1, <2>1, <1>1
      <4> QED
        BY <4>2
    <3> QED
      BY <3>1, <3>2
  <2>2. CASE i \in DOMAIN entries /\ i # 1 /\ entries[i].parent # None
    <3>1. PICK j \in 1 .. i - 1 : entries[j].id = entries[i].parent
      BY <2>2 DEF WellFormed, Backwards
    <3>2. j \in DOMAIN entries
      BY <2>2, <3>1, <1>1
    <3>3. longer[j].id = longer[i].parent
      BY <2>2, <3>1, <3>2, <1>1
    <3> QED
      BY <3>3
  <2>3. CASE i \in DOMAIN entries /\ entries[i].parent = None
    BY <2>3, <1>1
  <2> QED
    BY <2>1, <2>2, <2>3, <1>1
<1>6. ASSUME NEW i \in DOMAIN longer PROVE longer[i].id # longer[1].parent
  <2>1. CASE entries = <<>>
    <3>1. Len(entries) = 0
      BY <2>1
    <3>2. last = 1 /\ i = 1
      BY <3>1, <1>1
    <3> QED
      BY <3>2, <1>1, <1>3
  <2>2. CASE entries # <<>>
    <3>1. 1 \in DOMAIN entries
      BY <2>2
    <3>2. longer[1] = entries[1]
      BY <3>1, <1>1
    <3>3. CASE i = last
      BY <3>1, <3>2, <3>3, <1>1, <1>2
    <3>4. CASE i \in DOMAIN entries
      BY <3>2, <3>4, <1>1 DEF WellFormed, Backwards
    <3> QED
      BY <3>3, <3>4, <1>1
  <2> QED
    BY <2>1, <2>2
<1>7. Backwards(longer)
  BY <1>5, <1>6 DEF Backwards
<1> QED
  BY <1>4, <1>7 DEF WellFormed, longer

LEMMA PrefixWellFormed ==
    ASSUME NEW entries \in Seq(Entry), WellFormed(entries), NEW n \in 0 .. Len(entries)
    PROVE  SubSeq(entries, 1, n) \in Seq(Entry) /\ WellFormed(SubSeq(entries, 1, n))
<1> DEFINE p == SubSeq(entries, 1, n)
<1>1. /\ p \in Seq(Entry) /\ DOMAIN p = 1 .. n /\ DOMAIN entries = 1 .. Len(entries)
      /\ n \in Nat /\ Len(entries) \in Nat
      /\ \A i \in 1 .. n : p[i] = entries[i] /\ i \in DOMAIN entries
  OBVIOUS
<1> HIDE DEF p
<1>2. Unique(p)
  BY <1>1 DEF WellFormed, Unique
<1>3. ASSUME NEW i \in DOMAIN p, i # 1, p[i].parent # None
      PROVE  \E j \in 1 .. i - 1 : p[j].id = p[i].parent
  <2>1. PICK j \in 1 .. i - 1 : entries[j].id = entries[i].parent
    BY <1>1, <1>3 DEF WellFormed, Backwards
  <2>2. j \in 1 .. n
    BY <2>1, <1>1
  <2> QED
    BY <2>1, <2>2, <1>1
<1>4. ASSUME NEW i \in DOMAIN p PROVE p[i].id # p[1].parent
  <2>1. 1 \in 1 .. n
    BY <1>1
  <2> QED
    BY <2>1, <1>1 DEF WellFormed, Backwards
<1> QED
  BY <1>1, <1>2, <1>3, <1>4 DEF WellFormed, Backwards, p

LEMMA KeepsNothing == ASSUME NEW lines PROVE KeepsOrder(lines, <<>>)
  BY DEF KeepsOrder, ToSet

LEMMA KeepsItself ==
    ASSUME NEW entries \in Seq(Entry), Unique(entries)
    PROVE  KeepsOrder(entries, entries)
  BY DEF KeepsOrder, Unique

\* A new line comes behind what is kept.
LEMMA KeepsMore ==
    ASSUME NEW lines \in Seq(Entry), NEW entries \in Seq(Entry), KeepsOrder(lines, entries),
           NEW e \in Entry, e.id \notin Ids(lines)
    PROVE  /\ KeepsOrder(Append(lines, e), entries)
           /\ KeepsOrder(Append(lines, e), Append(entries, e))
<1> DEFINE longer == Append(lines, e)
           more == Append(entries, e)
           last == Len(lines) + 1
           end == Len(entries) + 1
<1>1. /\ Len(lines) \in Nat
      /\ DOMAIN longer = 1 .. last /\ DOMAIN lines = 1 .. Len(lines)
      /\ longer[last] = e
      /\ \A i \in DOMAIN lines : longer[i] = lines[i]
      /\ \A i \in DOMAIN longer : i = last \/ i \in DOMAIN lines
  OBVIOUS
<1>2. /\ Len(entries) \in Nat
      /\ DOMAIN more = 1 .. end /\ DOMAIN entries = 1 .. Len(entries)
      /\ more[end] = e
      /\ \A i \in DOMAIN entries : more[i] = entries[i]
      /\ \A i \in DOMAIN more : i = end \/ i \in DOMAIN entries
  OBVIOUS
<1>3. ToSet(longer) = ToSet(lines) \union {e} /\ ToSet(more) = ToSet(entries) \union {e}
  BY AppendReads
<1> HIDE DEF longer, more
<1>4. ToSet(entries) \subseteq ToSet(longer) /\ ToSet(more) \subseteq ToSet(longer)
  BY <1>3 DEF KeepsOrder
<1>5. \A p \in DOMAIN lines : lines[p] # e
  BY DEF Ids
<1>6. \A i \in DOMAIN entries : entries[i] # e
  <2>1. \A i \in DOMAIN entries : entries[i] \in ToSet(lines)
    BY DEF KeepsOrder, ToSet
  <2> QED
    BY <2>1, <1>5 DEF ToSet
<1>7. ASSUME NEW i \in DOMAIN entries, NEW j \in DOMAIN more, NEW p \in DOMAIN longer,
             NEW q \in DOMAIN longer,
             i < j, longer[p] = entries[i], longer[q] = more[j]
      PROVE  p < q
  <2>1. p \in DOMAIN lines /\ lines[p] = entries[i]
    BY <1>7, <1>1, <1>6
  <2>2. CASE j \in DOMAIN entries
    <3>1. q \in DOMAIN lines /\ lines[q] = entries[j]
      BY <2>2, <1>7, <1>1, <1>2, <1>6
    <3> QED
      BY <2>1, <2>2, <3>1, <1>7 DEF KeepsOrder
  <2>3. CASE j = end
    <3>1. q = last
      BY <2>3, <1>7, <1>1, <1>2, <1>5
    <3> QED
      BY <2>1, <3>1, <1>1
  <2> QED
    BY <2>2, <2>3, <1>2
<1>8. KeepsOrder(longer, entries)
  BY <1>2, <1>4, <1>7 DEF KeepsOrder
<1>9. ASSUME NEW i \in DOMAIN more, NEW j \in DOMAIN more, i < j PROVE i \in DOMAIN entries
  BY <1>9, <1>2
<1>10. \A i, j \in DOMAIN more, p, q \in DOMAIN longer :
           i < j /\ longer[p] = more[i] /\ longer[q] = more[j] => p < q
  BY <1>2, <1>7, <1>9
<1>11. KeepsOrder(longer, more)
  BY <1>4, <1>10 DEF KeepsOrder
<1> QED
  BY <1>8, <1>11 DEF longer, more

-----------------------------------------------------------------------------
(* The invariant says what the properties say *)

LEMMA TypedOK == Inv => TypeOK
<1> SUFFICES ASSUME Inv PROVE TypeOK
  OBVIOUS
<1>1. ASSUME NEW d \in Document, cache[d] # None PROVE Unique(cache[d])
  BY <1>1 DEF Inv, IInv, DocumentInv, Shown, WellFormed
<1> QED
  BY <1>1 DEF Inv, Typed, TypeOK, Unique

LEMMA FileEntries ==
    ASSUME Typed, NEW d \in Document, Parsed(d)
    PROVE  file[d] \in Seq(Entry)
  BY ParsedEntries DEF Typed, Parsed

LEMMA InvSurvives == Inv => AcceptedSurvives
<1> SUFFICES ASSUME Inv, NEW d \in Document, status[d] = "exists", ~torn[d]
             PROVE  /\ Loadable(file[d])
                    /\ KeepsOrder(file[d], accepted[d])
                    /\ cache[d] # None /\ ~unseen[d] => cache[d] = file[d]
  BY DEF AcceptedSurvives
<1>1. DocumentInv(d) /\ Typed
  BY DEF Inv, IInv
<1>2. Parsed(d)
  BY <1>1 DEF DocumentInv, Untorn
<1>3. file[d] \in Seq(Entry) /\ Unique(file[d])
  BY <1>1, <1>2, FileEntries DEF DocumentInv, Kept, WellFormed
<1> QED
  BY <1>1, <1>2, <1>3, UniqueLoads DEF DocumentInv, Kept, Shown

LEMMA InvReads == Inv => BranchesRead
<1> SUFFICES ASSUME Inv, NEW s \in Session
             PROVE  LET entries == cache[session[s].doc]
                        copy == session[s].copy
                    IN  /\ session[s].pc = "open" /\ entries # None /\ ~CutBelow(entries) =>
                              Reads(Path(entries, session[s].leaf))
                        /\ session[s].branch /\ copy # <<>> /\ Last(copy).kind # "leaf" =>
                              Path(copy, LeafOf(copy)) = copy
  BY DEF BranchesRead
<1> DEFINE d == session[s].doc
<1>1. SessionInv(s) /\ Typed
  BY DEF Inv, IInv
<1>2. ASSUME session[s].pc = "open", cache[d] # None, ~CutBelow(cache[d])
      PROVE  Reads(Path(cache[d], session[s].leaf))
  <2>1. d \in Document /\ session[s].leaf \in Ids(cache[d]) \union {None}
    BY <1>1, <1>2 DEF SessionInv, Located
  <2>2. cache[d] \in Seq(Entry) /\ WellFormed(cache[d])
    BY <1>1, <1>2, <2>1 DEF Typed, Inv, IInv, DocumentInv, Shown
  <2> HIDE DEF d
  <2> QED
    BY <1>2, <2>1, <2>2, PathReads
<1>3. session[s].branch /\ session[s].copy # <<>> /\ Last(session[s].copy).kind # "leaf" =>
          Path(session[s].copy, LeafOf(session[s].copy)) = session[s].copy
  BY <1>1 DEF SessionInv, Copying
<1> QED
  BY <1>2, <1>3

LEMMA InvResumes == Inv => ResumesInPlace
  BY DEF Inv, IInv, SessionInv, InPlace, ResumesInPlace

LEMMA InitInv == Init => Inv
<1> SUFFICES ASSUME Init PROVE Inv
  OBVIOUS
<1>1. Closed \in Object
  BY DEF Closed, Object
<1>2. Typed
  BY <1>1, ContentAssumption DEF Init, Typed
<1>3. ASSUME NEW d \in Document PROVE DocumentInv(d)
  <2>1. cache[d] = None /\ accepted[d] = <<>> /\ file[d] = <<>> /\ ~unended[d] /\ ~torn[d]
    BY DEF Init
  <2>2. Absent(d) /\ Shown(d)
    BY <2>1 DEF Absent, Shown
  <2>3. Untorn(d)
    BY <2>1 DEF Untorn, Parsed, ToSet
  <2>4. Kept(d)
    BY <2>1, EmptyWellFormed, KeepsNothing DEF Kept
  <2> QED
    BY <2>2, <2>3, <2>4 DEF DocumentInv
<1>4. ASSUME NEW s \in Session PROVE SessionInv(s)
  <2>1. session[s] = Closed
    BY DEF Init
  <2> QED
    BY <2>1 DEF SessionInv, Copying, Located, Drawn, InPlace, Closed
<1> QED
  BY <1>2, <1>3, <1>4 DEF Inv, IInv

-----------------------------------------------------------------------------
(* What a step leaves alone *)

SameDocument(d) ==
    /\ status'[d] = status[d] /\ file'[d] = file[d] /\ unended'[d] = unended[d]
    /\ cache'[d] = cache[d] /\ accepted'[d] = accepted[d]
    /\ torn'[d] = torn[d] /\ unseen'[d] = unseen[d]

\* Nobody joins a document about to be written, or leaves one while open.
SameOthers(s) ==
    \A u \in Session \ {s} :
        /\ session[s].pc = "copied" /\ session'[u].doc = session[s].doc =>
              session[u].doc = session[s].doc
        /\ session[u].pc = "open" /\ session[u].doc = session[s].doc =>
              session'[u].pc = "open" /\ session'[u].doc = session[s].doc

LEMMA DocumentStays ==
    ASSUME NEW d \in Document, DocumentInv(d), SameDocument(d)
    PROVE  DocumentInv(d)'
  BY DEF DocumentInv, Absent, Untorn, Kept, Shown, Parsed, SameDocument

LEMMA SessionStays ==
    ASSUME NEW s \in Session, Typed, SessionInv(s), session'[s] = session[s],
           session[s].doc \in Document => SameDocument(session[s].doc) /\ SameOthers(s)
    PROVE  SessionInv(s)'
<1>1. session[s].pc \in {"closed", "copied", "opening", "open"}
  BY DEF Typed, Object
<1>2. CASE session[s].pc = "closed"
  BY <1>2 DEF SessionInv, Copying, Located, Drawn, InPlace
<1>3. CASE session[s].pc # "closed"
  <2>1. session[s].doc \in Document
    BY <1>1, <1>3 DEF SessionInv, Copying, Located
  <2>2. Copying(s)'
    BY <2>1 DEF SessionInv, Copying, SameDocument, SameOthers
  <2>3. Located(s)'
    BY <2>1 DEF SessionInv, Located, SameDocument
  <2>4. Drawn(s)'
    BY <2>1 DEF SessionInv, Drawn, Parsed, SameDocument
  <2>5. InPlace(s)'
    BY <2>1 DEF SessionInv, InPlace, SameDocument, SameOthers
  <2> QED
    BY <2>2, <2>3, <2>4, <2>5 DEF SessionInv
<1> QED
  BY <1>2, <1>3

-----------------------------------------------------------------------------
(* Steps of a Session that leave the documents alone *)

\* A Session may take a document that nobody is about to write; it keeps one that
\* it has open.
Becomes(s, o) ==
    /\ session' = [session EXCEPT ![s] = o]
    /\ o \in Object
    /\ \/ o.doc \in {None, session[s].doc}
       \/ \A u \in Session \ {s} : session[u].pc = "copied" => session[u].doc # o.doc
    /\ session[s].pc = "open" => o.pc = "open" /\ o.doc = session[s].doc

LEMMA BecomesFacts ==
    ASSUME Typed, NEW s \in Session, NEW o, Becomes(s, o)
    PROVE  /\ session' \in [Session -> Object]
           /\ session'[s] = o
           /\ \A u \in Session \ {s} : session'[u] = session[u]
  BY DEF Becomes, Typed

\* The other Sessions see the same.
LEMMA OthersStay ==
    ASSUME Inv, NEW s \in Session, NEW o, Becomes(s, o), NEW u \in Session \ {s},
           session[u].doc \in Document => SameDocument(session[u].doc)
    PROVE  SessionInv(u)'
<1>1. Typed /\ SessionInv(u)
  BY DEF Inv, IInv
<1>2. session'[s] = o /\ \A v \in Session \ {s} : session'[v] = session[v]
  BY <1>1, BecomesFacts
<1>3. ASSUME session[u].doc \in Document PROVE SameOthers(u)
  <2>1. session[u].doc # None
    BY <1>3, ContentAssumption
  <2> QED
    BY <1>2, <2>1 DEF SameOthers, Becomes
<1> QED
  BY <1>1, <1>2, <1>3, SessionStays

LEMMA QuietStep ==
    ASSUME Inv, NEW s \in Session, NEW o, Becomes(s, o),
           UNCHANGED <<disk, cache, accepted, torn, unseen>>, events' \in 0 .. MaxEvents,
           SessionInv(s)'
    PROVE  Inv'
<1>1. Typed /\ \A d \in Document : DocumentInv(d)
  BY DEF Inv, IInv
<1>2. \A d \in Document : SameDocument(d)
  BY DEF SameDocument, disk
<1>3. Typed'
  BY <1>1, BecomesFacts DEF Typed, disk
<1>4. \A d \in Document : DocumentInv(d)'
  BY <1>1, <1>2, DocumentStays
<1>5. \A u \in Session \ {s} : SessionInv(u)'
  BY <1>2, OthersStay
<1> QED
  BY <1>3, <1>4, <1>5 DEF Inv, IInv

\* What there is to know about a Session before its step
LEMMA Before ==
    ASSUME Inv, NEW s \in Session
    PROVE  /\ Typed /\ SessionInv(s) /\ session[s] \in Object
           /\ \A d \in Document : DocumentInv(d)
           /\ events \in 0 .. MaxEvents
  BY DEF Inv, IInv, Typed

LEMMA IdsTyped ==
    ASSUME NEW entries \in Seq(Entry)
    PROVE  Ids(entries) \subseteq Id
<1>1. \A i \in DOMAIN entries : entries[i] \in Entry
  OBVIOUS
<1> QED
  BY <1>1 DEF Ids, Entry

LEMMA CacheEntries ==
    ASSUME Typed, NEW d \in Document, cache[d] # None
    PROVE  cache[d] \in Seq(Entry) /\ Ids(cache[d]) \subseteq Id
  BY IdsTyped DEF Typed

\* A file that is what was accepted parses.
LEMMA AcceptedParses ==
    ASSUME Typed, NEW d \in Document, file[d] = accepted[d]
    PROVE  Parsed(d)
  BY EntriesParse DEF Typed, Parsed

LEMMA ClosedObject == Closed \in Object
  BY DEF Closed, Object

LEMMA ReadHeadStep == Inv /\ (\E s \in Session : ReadHead(s)) => Inv'
<1> SUFFICES ASSUME Inv, NEW s \in Session, ReadHead(s) PROVE Inv'
  OBVIOUS
<1> DEFINE d == session[s].doc
<1>1. /\ Typed /\ SessionInv(s) /\ session[s] \in Object
      /\ \A e \in Document : DocumentInv(e)
      /\ events \in 0 .. MaxEvents
  BY Before
<1>2. /\ session[s].pc = "opening" /\ d \in Document
      /\ UNCHANGED <<disk, cache, accepted, torn, unseen>> /\ events' = events
      /\ session[s].tasks = <<>> /\ session[s].id = None /\ ~session[s].branch
  BY <1>1 DEF ReadHead, SessionInv, Located, Copying
<1>3. CASE cache[d] # None /\ HasHead(cache[d])
  <2> DEFINE o == [session[s] EXCEPT !.pc = "open", !.leaf = LeafOf(cache[d])]
  <2>1. session' = [session EXCEPT ![s] = o]
    BY <1>3 DEF ReadHead
  <2>2. LeafOf(cache[d]) \in Ids(cache[d]) \union {None} /\ LeafOf(cache[d]) \in Id \union {None}
    BY <1>1, <1>2, <1>3, CacheEntries DEF HasHead
  <2>3. /\ o \in Object /\ o.pc = "open" /\ o.doc = d /\ o.leaf = LeafOf(cache[d])
        /\ o.tasks = <<>> /\ o.id = None /\ ~o.branch
    BY <1>1, <1>2, <2>2 DEF Object
  <2> HIDE DEF o
  <2>4. Becomes(s, o)
    BY <1>2, <2>1, <2>3 DEF Becomes
  <2>5. session'[s] = o /\ \A u \in Session \ {s} : session'[u] = session[u]
    BY <1>1, <2>4, BecomesFacts
  <2>6. Copying(s)' /\ Drawn(s)'
    BY <2>3, <2>5 DEF Copying, Drawn
  <2>7. Located(s)'
    BY <1>1, <1>2, <1>3, <2>2, <2>3, <2>5 DEF Located, SessionInv, disk
  <2>8. InPlace(s)'
    <3>1. file[d] = accepted[d] => cache[d] = file[d]
      BY <1>1, <1>2, <1>3, AcceptedParses DEF DocumentInv, Shown
    <3> QED
      BY <1>2, <2>3, <2>5, <3>1 DEF InPlace, disk
  <2>9. SessionInv(s)'
    BY <2>6, <2>7, <2>8 DEF SessionInv
  <2> QED
    BY <1>1, <1>2, <2>4, <2>9, QuietStep
<1>4. CASE ~(cache[d] # None /\ HasHead(cache[d]))
  <2>1. session' = [session EXCEPT ![s] = Closed]
    BY <1>4 DEF ReadHead
  <2>2. Becomes(s, Closed)
    BY <1>2, <2>1, ClosedObject DEF Becomes, Closed
  <2>3. session'[s] = Closed
    BY <1>1, <2>2, BecomesFacts
  <2>4. SessionInv(s)'
    BY <2>3 DEF SessionInv, Copying, Located, Drawn, InPlace, Closed
  <2> QED
    BY <1>1, <1>2, <2>2, <2>4, QuietStep
<1> QED
  BY <1>3, <1>4

LEMMA CreateStep == Inv /\ (\E s \in Session, d \in Document : Create(s, d)) => Inv'
<1> SUFFICES ASSUME Inv, NEW s \in Session, NEW d \in Document, Create(s, d) PROVE Inv'
  OBVIOUS
<1> DEFINE o == [Closed EXCEPT !.pc = "copied", !.doc = d]
<1>1. /\ Typed /\ SessionInv(s) /\ session[s] \in Object
      /\ \A e \in Document : DocumentInv(e)
      /\ events \in 0 .. MaxEvents
  BY Before
<1>2. /\ session[s].pc = "closed" /\ status[d] = "unused"
      /\ \A u \in Session : session[u].doc # d
      /\ session' = [session EXCEPT ![s] = o]
      /\ UNCHANGED <<disk, cache, accepted, torn, unseen>> /\ events' = events
  BY DEF Create, Fresh
<1>3. /\ o \in Object /\ o.pc = "copied" /\ o.doc = d /\ o.copy = <<>>
      /\ o.tasks = <<>> /\ o.id = None /\ ~o.branch
  BY ClosedObject DEF Closed, Object
<1> HIDE DEF o
<1>4. Becomes(s, o)
  BY <1>2, <1>3 DEF Becomes
<1>5. session'[s] = o /\ \A u \in Session \ {s} : session'[u] = session[u]
  BY <1>1, <1>4, BecomesFacts
<1>6. Copying(s)'
  BY <1>2, <1>3, <1>5, EmptyWellFormed DEF Copying, disk
<1>7. Located(s)' /\ Drawn(s)' /\ InPlace(s)'
  BY <1>3, <1>5 DEF Located, Drawn, InPlace
<1> QED
  BY <1>1, <1>2, <1>4, <1>6, <1>7, QuietStep DEF SessionInv

LEMMA TasksAppend ==
    ASSUME NEW tasks \in Seq(Task), NEW task \in Task, NEW G,
           \A i \in DOMAIN tasks : tasks[i].kind = "leaf" => tasks[i].target \in G,
           task.kind = "leaf" => task.target \in G
    PROVE  /\ Append(tasks, task) \in Seq(Task) /\ Append(tasks, task) # <<>>
           /\ \A i \in DOMAIN Append(tasks, task) :
                 Append(tasks, task)[i].kind = "leaf" => Append(tasks, task)[i].target \in G
<1> DEFINE more == Append(tasks, task)
<1>1. /\ DOMAIN more = 1 .. Len(tasks) + 1 /\ DOMAIN tasks = 1 .. Len(tasks)
      /\ more[Len(tasks) + 1] = task
      /\ \A i \in DOMAIN tasks : more[i] = tasks[i]
      /\ more \in Seq(Task) /\ more # <<>>
      /\ \A i \in DOMAIN more : i = Len(tasks) + 1 \/ i \in DOMAIN tasks
  OBVIOUS
<1> HIDE DEF more
<1>2. \A i \in DOMAIN more : more[i].kind = "leaf" => more[i].target \in G
  BY <1>1
<1> QED
  BY <1>1, <1>2 DEF more

LEMMA SubmitStep ==
    ASSUME Inv, NEW s \in Session, NEW task \in Task, Submit(s, task),
           cache[session[s].doc] # None /\ task.kind = "leaf" =>
              task.target \in Ids(cache[session[s].doc]) \union {None}
    PROVE  Inv'
<1> DEFINE d == session[s].doc
           o == [session[s] EXCEPT !.tasks = Append(session[s].tasks, task)]
<1>1. /\ Typed /\ SessionInv(s) /\ session[s] \in Object
      /\ \A e \in Document : DocumentInv(e)
      /\ events \in 0 .. MaxEvents
  BY Before
<1>2. /\ session[s].pc = "open"
      /\ session' = [session EXCEPT ![s] = o]
      /\ UNCHANGED <<disk, cache, accepted, torn, unseen>> /\ events' = events
  BY <1>1 DEF Submit, Typed
<1>3. session[s].tasks \in Seq(Task)
  BY <1>1 DEF Object
<1>4. Append(session[s].tasks, task) \in Seq(Task) /\ Append(session[s].tasks, task) # <<>>
  BY <1>3
<1>5. /\ o \in Object /\ o.tasks = Append(session[s].tasks, task)
      /\ o.pc = "open" /\ o.doc = d /\ o.leaf = session[s].leaf
      /\ o.id = session[s].id /\ o.branch = session[s].branch /\ o.copy = session[s].copy
  BY <1>1, <1>2, <1>4 DEF Object
<1> HIDE DEF o
<1>6. Becomes(s, o)
  BY <1>2, <1>5 DEF Becomes
<1>7. session'[s] = o /\ \A u \in Session \ {s} : session'[u] = session[u]
  BY <1>1, <1>6, BecomesFacts
<1>8. Copying(s)'
  BY <1>1, <1>2, <1>5, <1>7 DEF Copying, SessionInv
<1>9. Drawn(s)'
  <2>1. o.tasks # <<>>
    BY <1>4, <1>5
  <2> QED
    BY <1>1, <1>2, <1>5, <1>7, <2>1 DEF Drawn, SessionInv, disk, Parsed
<1>10. Located(s)'
  <2>1. ASSUME cache[d] # None
        PROVE  \A i \in DOMAIN o.tasks : o.tasks[i].kind = "leaf" =>
                  o.tasks[i].target \in Ids(cache[d]) \union {None}
    <3>1. \A i \in DOMAIN session[s].tasks : session[s].tasks[i].kind = "leaf" =>
              session[s].tasks[i].target \in Ids(cache[d]) \union {None}
      BY <1>1, <1>2, <2>1 DEF SessionInv, Located
    <3> DEFINE G == Ids(cache[d]) \union {None}
    <3>2. task.kind = "leaf" => task.target \in G
      BY <2>1
    <3> HIDE DEF G
    <3>3. \A i \in DOMAIN session[s].tasks : session[s].tasks[i].kind = "leaf" =>
              session[s].tasks[i].target \in G
      BY <3>1 DEF G
    <3>4. \A i \in DOMAIN o.tasks : o.tasks[i].kind = "leaf" => o.tasks[i].target \in G
      BY <1>3, <1>5, <3>2, <3>3, TasksAppend
    <3> QED
      BY <3>4 DEF G
  <2>2. /\ d \in Document /\ status[d] # "unused" /\ (status[d] = "exists" => cache[d] # None)
        /\ cache[d] # None => session[s].leaf \in Ids(cache[d]) \union {None}
    BY <1>1, <1>2 DEF SessionInv, Located
  <2> QED
    BY <1>2, <1>5, <1>7, <2>1, <2>2 DEF Located, disk
<1>11. InPlace(s)'
  BY <1>1, <1>2, <1>5, <1>7 DEF InPlace, SessionInv, disk
<1> QED
  BY <1>1, <1>2, <1>6, <1>8, <1>9, <1>10, <1>11, QuietStep DEF SessionInv

LEMMA AppendMessageStep == Inv /\ (\E s \in Session : AppendMessage(s)) => Inv'
<1> DEFINE task == [kind |-> "message", target |-> None, summarized |-> FALSE]
<1>1. task \in Task /\ task.kind # "leaf"
  BY DEF Task, Kind
<1> QED
  BY <1>1, SubmitStep DEF AppendMessage

LEMMA AppendCompactionStep == Inv /\ (\E s \in Session : AppendCompaction(s)) => Inv'
<1> SUFFICES ASSUME Inv, NEW s \in Session, AppendCompaction(s) PROVE Inv'
  OBVIOUS
<1> DEFINE d == session[s].doc
           branch == Path(cache[d], session[s].leaf)
           task(kept) == [kind |-> "compaction", target |-> kept, summarized |-> FALSE]
<1>1. Typed /\ SessionInv(s)
  BY Before
<1>2. session[s].pc = "open" /\ cache[d] # None /\ Reads(branch)
  BY DEF AppendCompaction
<1>3. d \in Document /\ session[s].leaf \in Id \union {None}
  BY <1>1, <1>2 DEF SessionInv, Located, Typed, Object
<1>4. cache[d] \in Seq(Entry) /\ WellFormed(cache[d])
  BY <1>2, <1>3, CacheEntries DEF Inv, IInv, DocumentInv, Shown
<1>5. branch \in Seq(Entry)
  BY <1>2, <1>3, <1>4, PathFinds
<1>6. Ids(branch) \subseteq Id
  BY <1>5, IdsTyped
<1>7. PICK kept \in Ids(branch) \union {None} : Submit(s, task(kept))
  BY DEF AppendCompaction
<1> HIDE DEF branch
<1>8. task(kept) \in Task /\ task(kept).kind # "leaf"
  BY <1>6 DEF Task, Kind
<1> QED
  BY <1>7, <1>8, SubmitStep

LEMMA MoveToStep == Inv /\ (\E s \in Session : MoveTo(s)) => Inv'
<1> SUFFICES ASSUME Inv, NEW s \in Session, MoveTo(s) PROVE Inv'
  OBVIOUS
<1> DEFINE d == session[s].doc
           task(target, summarized) ==
               [kind |-> "leaf", target |-> target, summarized |-> summarized]
<1>1. Typed /\ SessionInv(s)
  BY Before
<1>2. session[s].pc = "open" /\ cache[d] # None
  BY DEF MoveTo
<1>3. d \in Document
  BY <1>1, <1>2 DEF SessionInv, Located
<1>4. Ids(cache[d]) \subseteq Id
  BY <1>1, <1>2, <1>3, CacheEntries
<1>5. PICK target \in Ids(cache[d]) \union {None}, summarized \in BOOLEAN :
          Submit(s, task(target, summarized))
  BY DEF MoveTo
<1>6. task(target, summarized) \in Task /\ task(target, summarized).target = target
  BY <1>4 DEF Task, Kind
<1> QED
  BY <1>5, <1>6, SubmitStep

LEMMA DrawStep == Inv /\ (\E s \in Session, id \in Id : Draw(s, id)) => Inv'
<1> SUFFICES ASSUME Inv, NEW s \in Session, NEW id \in Id, Draw(s, id) PROVE Inv'
  OBVIOUS
<1> DEFINE d == session[s].doc
           o == [session[s] EXCEPT !.id = id]
<1>1. /\ Typed /\ SessionInv(s) /\ session[s] \in Object
      /\ \A e \in Document : DocumentInv(e)
      /\ events \in 0 .. MaxEvents
  BY Before
<1>2. /\ session[s].pc = "open" /\ session[s].tasks # <<>> /\ cache[d] # None
      /\ \A line \in ToSet(cache[d]) \union (ToSet(file[d]) \ {Torn}) :
            id # line.id /\ id # line.parent
      /\ session' = [session EXCEPT ![s] = o]
      /\ UNCHANGED <<disk, cache, accepted, torn, unseen>> /\ events' = events
  BY <1>1 DEF Draw, Typed
<1>3. /\ o \in Object /\ o.id = id /\ o.tasks = session[s].tasks
      /\ o.pc = "open" /\ o.doc = d /\ o.leaf = session[s].leaf
      /\ o.branch = session[s].branch /\ o.copy = session[s].copy
  BY <1>1, <1>2 DEF Object
<1> HIDE DEF o
<1>4. Becomes(s, o)
  BY <1>2, <1>3 DEF Becomes
<1>5. session'[s] = o /\ \A u \in Session \ {s} : session'[u] = session[u]
  BY <1>1, <1>4, BecomesFacts
<1>6. Copying(s)' /\ Located(s)' /\ InPlace(s)'
  BY <1>1, <1>2, <1>3, <1>5 DEF Copying, Located, InPlace, SessionInv, disk
<1>7. Drawn(s)'
  <2>1. id \notin Parents(cache[d])
    BY <1>2 DEF Parents, ToSet
  <2>2. ASSUME Parsed(d) PROVE id \notin Ids(file[d]) \union Parents(file[d])
    BY <1>2, <2>2 DEF Parents, Ids, ToSet, Parsed
  <2> QED
    BY <1>2, <1>3, <1>5, <2>1, <2>2 DEF Drawn, disk, Parsed
<1> QED
  BY <1>1, <1>2, <1>4, <1>6, <1>7, QuietStep DEF SessionInv

LEMMA TailTasks ==
    ASSUME NEW tasks \in Seq(Task), tasks # <<>>, NEW G,
           \A i \in DOMAIN tasks : tasks[i].kind = "leaf" => tasks[i].target \in G
    PROVE  /\ tasks[1] \in Task /\ Tail(tasks) \in Seq(Task)
           /\ tasks[1].kind = "leaf" => tasks[1].target \in G
           /\ \A i \in DOMAIN Tail(tasks) :
                 Tail(tasks)[i].kind = "leaf" => Tail(tasks)[i].target \in G
<1>1. 1 \in DOMAIN tasks /\ Tail(tasks) \in Seq(Task)
  OBVIOUS
<1>2. \A i \in DOMAIN Tail(tasks) : i + 1 \in DOMAIN tasks /\ Tail(tasks)[i] = tasks[i + 1]
  OBVIOUS
<1> QED
  BY <1>1, <1>2

\* An append that is refused, or fails
LEMMA RejectedFacts ==
    ASSUME Inv, NEW s \in Session, session[s].pc = "open", session[s].tasks # <<>>
    PROVE  /\ Rejected(s) \in Object
           /\ Rejected(s).pc = "open" /\ Rejected(s).doc = session[s].doc
           /\ Rejected(s).leaf = session[s].leaf /\ Rejected(s).id = None
           /\ Rejected(s).branch = session[s].branch /\ Rejected(s).copy = session[s].copy
           /\ cache[session[s].doc] # None =>
                 \A i \in DOMAIN Rejected(s).tasks : Rejected(s).tasks[i].kind = "leaf" =>
                    Rejected(s).tasks[i].target \in Ids(cache[session[s].doc]) \union {None}
<1> DEFINE d == session[s].doc
           G == IF cache[d] = None THEN Id \union {None} ELSE Ids(cache[d]) \union {None}
<1>1. Typed /\ SessionInv(s) /\ session[s] \in Object
  BY Before
<1>2. session[s].tasks \in Seq(Task)
  BY <1>1 DEF Object
<1>3. \A i \in DOMAIN session[s].tasks : session[s].tasks[i].kind = "leaf" =>
          session[s].tasks[i].target \in G
  <2>1. CASE cache[d] = None
    <3>1. \A i \in DOMAIN session[s].tasks : session[s].tasks[i] \in Task
      BY <1>2
    <3> QED
      BY <2>1, <3>1 DEF Task
  <2>2. CASE cache[d] # None
    BY <1>1, <2>2 DEF SessionInv, Located
  <2> QED
    BY <2>1, <2>2
<1> HIDE DEF G
<1>4. /\ Tail(session[s].tasks) \in Seq(Task)
      /\ \A i \in DOMAIN Tail(session[s].tasks) :
            Tail(session[s].tasks)[i].kind = "leaf" => Tail(session[s].tasks)[i].target \in G
  BY <1>2, <1>3, TailTasks
<1>5. /\ Rejected(s) \in Object
      /\ Rejected(s).pc = "open" /\ Rejected(s).doc = session[s].doc
      /\ Rejected(s).leaf = session[s].leaf /\ Rejected(s).id = None
      /\ Rejected(s).branch = session[s].branch /\ Rejected(s).copy = session[s].copy
      /\ Rejected(s).tasks = Tail(session[s].tasks)
  BY <1>1, <1>4 DEF Rejected, Object
<1> QED
  BY <1>4, <1>5 DEF G

\* What stays true of a Session whose append was rejected
LEMMA RejectedSession ==
    ASSUME Inv, NEW s \in Session, session[s].pc = "open", session[s].tasks # <<>>,
           session' = [session EXCEPT ![s] = Rejected(s)],
           UNCHANGED <<status, cache, accepted>>,
           file'[session[s].doc] = file[session[s].doc]
              \/ file'[session[s].doc] # accepted[session[s].doc]
    PROVE  Becomes(s, Rejected(s)) /\ SessionInv(s)'
<1> DEFINE o == Rejected(s)
           d == session[s].doc
<1>1. Typed /\ SessionInv(s)
  BY Before
<1>2. Becomes(s, o)
  BY RejectedFacts DEF Becomes
<1>3. session'[s] = o /\ \A u \in Session \ {s} : session'[u] = session[u]
  BY <1>1, <1>2, BecomesFacts
<1>4. /\ o.pc = "open" /\ o.doc = d /\ o.leaf = session[s].leaf /\ o.id = None
      /\ o.branch = session[s].branch /\ o.copy = session[s].copy
      /\ cache[d] # None =>
            \A i \in DOMAIN o.tasks : o.tasks[i].kind = "leaf" =>
               o.tasks[i].target \in Ids(cache[d]) \union {None}
  BY RejectedFacts
<1> HIDE DEF o
<1>5. Copying(s)' /\ Drawn(s)'
  BY <1>1, <1>3, <1>4 DEF Copying, Drawn, SessionInv
<1>6. Located(s)'
  BY <1>1, <1>3, <1>4 DEF Located, SessionInv
<1>7. InPlace(s)'
  BY <1>1, <1>3, <1>4 DEF InPlace, SessionInv
<1> QED
  BY <1>2, <1>5, <1>6, <1>7 DEF SessionInv, o

LEMMA StoreRefusedStep == Inv /\ (\E s \in Session : StoreRefused(s)) => Inv'
<1> SUFFICES ASSUME Inv, NEW s \in Session, StoreRefused(s) PROVE Inv'
  OBVIOUS
<1>1. Typed /\ SessionInv(s) /\ session[s] \in Object /\ events \in 0 .. MaxEvents
  BY Before
<1>2. /\ session' = [session EXCEPT ![s] = Rejected(s)]
      /\ UNCHANGED <<disk, cache, accepted, torn, unseen>> /\ events' = events
      /\ session[s].id # None \/ session[s].tasks # <<>>
  BY DEF StoreRefused, Storing
<1>3. session[s].pc = "open" /\ session[s].tasks # <<>>
  BY <1>1, <1>2 DEF SessionInv, Located, Drawn
<1>4. Becomes(s, Rejected(s)) /\ SessionInv(s)'
  BY <1>2, <1>3, RejectedSession DEF disk
<1> QED
  BY <1>1, <1>2, <1>4, QuietStep

-----------------------------------------------------------------------------
(* Steps of documents *)

\* The caches are loaded again, and a Session that was closed takes a document.
LEMMA ReloadStep ==
    ASSUME Inv, NEW s \in Session, NEW o, Becomes(s, o), NEW d \in Document,
           session[s].pc = "closed", status[d] = "exists", Parsed(d),
           cache' = [cache EXCEPT ![d] = file[d]],
           unseen' = [unseen EXCEPT ![d] = FALSE],
           UNCHANGED <<disk, accepted, torn>>, events' \in 0 .. MaxEvents,
           SessionInv(s)'
    PROVE  Inv'
<1>1. Typed /\ \A e \in Document : DocumentInv(e)
  BY DEF Inv, IInv
<1>2. file[d] \in Seq(Entry)
  BY <1>1, FileEntries
<1>3. /\ cache'[d] = file[d] /\ ~unseen'[d]
      /\ \A e \in Document : e # d => cache'[e] = cache[e] /\ unseen'[e] = unseen[e]
      /\ status' = status /\ file' = file /\ unended' = unended
      /\ accepted' = accepted /\ torn' = torn
  BY <1>1 DEF Typed, disk
<1>4. \A e \in Document : e # d => SameDocument(e)
  BY <1>3 DEF SameDocument
<1>5. Typed'
  <2>1. session' \in [Session -> Object]
    BY <1>1, BecomesFacts
  <2>2. cache' \in [Document -> Seq(Entry) \union {None}]
    BY <1>1, <1>2 DEF Typed
  <2>3. unseen' \in [Document -> BOOLEAN]
    BY <1>1 DEF Typed
  <2> QED
    BY <1>1, <1>3, <2>1, <2>2, <2>3 DEF Typed
<1>6. ASSUME NEW e \in Document PROVE DocumentInv(e)'
  <2>1. CASE e # d
    BY <1>1, <1>4, <2>1, DocumentStays
  <2>2. CASE e = d
    <3>1. DocumentInv(d)
      BY <1>1
    <3>2. Absent(d)' /\ Untorn(d)' /\ Kept(d)'
      BY <1>3, <3>1 DEF DocumentInv, Absent, Untorn, Kept, Parsed
    <3>3. Shown(d)'
      BY <1>3, <3>1 DEF DocumentInv, Kept, Shown, Parsed
    <3> QED
      BY <2>2, <3>2, <3>3 DEF DocumentInv
  <2> QED
    BY <2>1, <2>2
<1>7. ASSUME NEW u \in Session \ {s} PROVE SessionInv(u)'
  <2>1. CASE session[u].doc # d
    BY <1>4, <2>1, OthersStay
  <2>2. CASE session[u].doc = d
    <3>1. SessionInv(u) /\ session'[u] = session[u]
      BY <1>1, BecomesFacts DEF Inv, IInv
    <3>2. session'[s] = o /\ \A v \in Session \ {s} : session'[v] = session[v]
      BY <1>1, BecomesFacts
    <3>3. session[u].pc \in {"opening", "open"} /\ cache[d] # None
      <4>1. session[u].pc \in {"closed", "copied", "opening", "open"}
        BY <1>1 DEF Typed, Object
      <4>2. d # None
        BY ContentAssumption
      <4> QED
        BY <4>1, <4>2, <2>2, <3>1 DEF SessionInv, Copying, Located
    <3>4. Ids(cache[d]) \subseteq Ids(file[d]) /\ WellFormed(file[d])
      <4>1. ToSet(cache[d]) \subseteq ToSet(file[d])
        BY <1>1, <3>3 DEF DocumentInv, Shown
      <4>2. WellFormed(file[d])
        BY <1>1 DEF DocumentInv, Kept
      <4>3. ASSUME NEW i \in DOMAIN cache[d] PROVE \E j \in DOMAIN file[d] : file[d][j] = cache[d][i]
        BY <4>1 DEF ToSet
      <4> QED
        BY <4>2, <4>3 DEF Ids
    <3>5. Copying(u)'
      BY <3>1, <3>3 DEF SessionInv, Copying
    <3>6. Located(u)'
      <4>1. file[d] # None
        BY <1>2, EntriesParse
      <4> QED
        BY <1>3, <2>2, <3>1, <3>3, <3>4, <4>1 DEF SessionInv, Located
    <3>7. Drawn(u)'
      BY <1>3, <2>2, <3>1, <3>3, <3>4 DEF SessionInv, Drawn, Parsed
    <3>8. InPlace(u)'
      <4>1. SameOthers(u)
        <5>1. d # None
          BY ContentAssumption
        <5> QED
          BY <2>2, <3>2, <5>1 DEF SameOthers, Becomes
      <4> QED
        BY <1>3, <2>2, <3>1, <4>1 DEF SessionInv, InPlace, SameOthers
    <3> QED
      BY <3>5, <3>6, <3>7, <3>8 DEF SessionInv
  <2> QED
    BY <2>1, <2>2
<1> QED
  BY <1>5, <1>6, <1>7 DEF Inv, IInv

LEMMA LoadStep == Inv /\ (\E s \in Session, d \in Document : Load(s, d)) => Inv'
<1> SUFFICES ASSUME Inv, NEW s \in Session, NEW d \in Document, Load(s, d) PROVE Inv'
  OBVIOUS
<1> DEFINE o == [Closed EXCEPT !.pc = "opening", !.doc = d]
<1>1. Typed /\ SessionInv(s) /\ events \in 0 .. MaxEvents
  BY Before
<1>2. /\ session[s].pc = "closed" /\ status[d] = "exists" /\ Parsed(d)
      /\ cache' = [cache EXCEPT ![d] = file[d]]
      /\ session' = [session EXCEPT ![s] = o]
      /\ unseen' = [unseen EXCEPT ![d] = FALSE]
      /\ UNCHANGED <<disk, accepted, torn>> /\ events' = events
  BY DEF Load, Loadable, Parsed
<1>3. /\ o \in Object /\ o.pc = "opening" /\ o.doc = d
      /\ o.tasks = <<>> /\ o.id = None /\ ~o.branch
  BY ClosedObject DEF Closed, Object
<1> HIDE DEF o
<1>4. Becomes(s, o)
  <2>1. \A u \in Session : session[u].pc = "copied" => session[u].doc # d
    BY <1>2 DEF Inv, IInv, SessionInv, Copying
  <2> QED
    BY <1>2, <1>3, <2>1 DEF Becomes
<1>5. session'[s] = o
  BY <1>1, <1>4, BecomesFacts
<1>6. Copying(s)' /\ Drawn(s)' /\ InPlace(s)'
  BY <1>3, <1>5 DEF Copying, Drawn, InPlace
<1>7. Located(s)'
  <2>1. file[d] # None
    BY <1>1, <1>2, FileEntries, EntriesParse
  <2>2. cache'[d] = file[d] /\ status'[d] = "exists"
    BY <1>1, <1>2 DEF Typed, disk
  <2> QED
    BY <1>3, <1>5, <2>1, <2>2 DEF Located
<1> QED
  BY <1>1, <1>2, <1>4, <1>6, <1>7, ReloadStep DEF SessionInv

\* What a fork copies, if it copies, is a tree, and a branch reads from its head.
LEMMA BranchesWellFormed ==
    ASSUME NEW entries \in Seq(Entry), WellFormed(entries),
           NEW path \in Branches(entries), Reads(path)
    PROVE  /\ path \in Seq(Entry) /\ WellFormed(path)
           /\ path # <<>> /\ Last(path).kind # "leaf" => Path(path, LeafOf(path)) = path
<1>1. \E leaf \in Id \union {None} : path = Path(entries, leaf)
  <2>1. CASE path \in {Path(entries, id) : id \in Ids(entries)}
    BY <2>1, IdsTyped
  <2>2. CASE path \in {Path(entries, e.parent) : e \in {f \in ToSet(entries) : f.kind = "message"}}
    <3>1. PICK e \in ToSet(entries) : path = Path(entries, e.parent)
      BY <2>2
    <3>2. e \in Entry
      BY DEF ToSet
    <3> QED
      BY <3>1, <3>2 DEF Entry
  <2> QED
    BY <2>1, <2>2 DEF Branches
<1>2. PICK leaf \in Id \union {None} : path = Path(entries, leaf)
  BY <1>1
<1> QED
  BY <1>2, PathFinds

LEMMA CopyStep ==
    ASSUME Inv, NEW s \in Session, NEW source \in Document, NEW d \in Document,
           session[s].pc = "closed", Fresh(d), status[source] = "exists", Parsed(source),
           NEW copy \in Seq(Entry), NEW branch \in BOOLEAN, WellFormed(copy),
           branch /\ copy # <<>> /\ Last(copy).kind # "leaf" => Path(copy, LeafOf(copy)) = copy,
           session' = [session EXCEPT ![s] = [Closed EXCEPT !.pc = "copied", !.doc = d,
                                                  !.copy = copy, !.branch = branch]],
           cache' = [cache EXCEPT ![source] = file[source]],
           unseen' = [unseen EXCEPT ![source] = FALSE],
           UNCHANGED <<disk, accepted, torn>>, events' \in 0 .. MaxEvents
    PROVE  Inv'
<1> DEFINE o == [Closed EXCEPT !.pc = "copied", !.doc = d, !.copy = copy, !.branch = branch]
<1>1. Typed /\ SessionInv(s)
  BY Before
<1>2. status[d] = "unused" /\ \A u \in Session : session[u].doc # d
  BY DEF Fresh
<1>3. /\ o \in Object /\ o.pc = "copied" /\ o.doc = d /\ o.copy = copy /\ o.branch = branch
      /\ o.tasks = <<>> /\ o.id = None
  BY ClosedObject DEF Closed, Object
<1>4. session' = [session EXCEPT ![s] = o]
  OBVIOUS
<1> HIDE DEF o
<1>5. Becomes(s, o)
  BY <1>2, <1>3, <1>4 DEF Becomes
<1>6. session'[s] = o /\ \A u \in Session \ {s} : session'[u] = session[u]
  BY <1>1, <1>5, BecomesFacts
<1>7. Copying(s)'
  BY <1>2, <1>3, <1>6 DEF Copying, disk
<1>8. Located(s)' /\ Drawn(s)' /\ InPlace(s)'
  BY <1>3, <1>6 DEF Located, Drawn, InPlace
<1> QED
  BY <1>5, <1>7, <1>8, ReloadStep DEF SessionInv

LEMMA ForkReadStep ==
    Inv /\ (\E s \in Session, source, d \in Document : ForkRead(s, source, d)) => Inv'
<1> SUFFICES ASSUME Inv, NEW s \in Session, NEW source \in Document, NEW d \in Document,
                    ForkRead(s, source, d)
             PROVE  Inv'
  OBVIOUS
<1> DEFINE o(copy, branch) == [Closed EXCEPT !.pc = "copied", !.doc = d,
                                             !.copy = copy, !.branch = branch]
           Copies(copy, branch) ==
               session' = IF Reads(copy) THEN [session EXCEPT ![s] = o(copy, branch)]
                          ELSE session
<1>1. Typed /\ SessionInv(s) /\ events \in 0 .. MaxEvents
  BY Before
<1>2. /\ session[s].pc = "closed" /\ Fresh(d) /\ status[source] = "exists" /\ Parsed(source)
      /\ cache' = [cache EXCEPT ![source] = file[source]]
      /\ unseen' = [unseen EXCEPT ![source] = FALSE]
      /\ UNCHANGED <<disk, accepted, torn>>
  BY DEF ForkRead, Loadable, Parsed
<1>3. events' \in 0 .. MaxEvents
  <2>1. events < MaxEvents /\ events' = events + 1
    BY DEF ForkRead
  <2> QED
    BY <1>1, <2>1, ContentAssumption
<1>4. file[source] \in Seq(Entry) /\ WellFormed(file[source])
  BY <1>1, <1>2, FileEntries DEF Inv, IInv, DocumentInv, Kept
<1>5. \/ Copies(file[source], FALSE)
      \/ \E path \in Branches(file[source]) : Copies(path, TRUE)
  BY DEF ForkRead
<1>6. ASSUME session' = session PROVE Inv'
  <2>1. session' = [session EXCEPT ![s] = session[s]] /\ session[s] \in Object
    BY <1>1, <1>6 DEF Typed
  <2>2. Becomes(s, session[s])
    BY <1>2, <2>1 DEF Becomes
  <2>3. SessionInv(s)'
    BY <1>1, <1>2, <1>6 DEF SessionInv, Copying, Located, Drawn, InPlace
  <2> QED
    BY <1>2, <1>3, <2>2, <2>3, ReloadStep
<1>7. ASSUME Copies(file[source], FALSE), Reads(file[source]) PROVE Inv'
  <2>1. session' = [session EXCEPT ![s] = o(file[source], FALSE)]
    BY <1>7
  <2> QED
    BY <1>2, <1>3, <1>4, <2>1, CopyStep
<1>8. ASSUME NEW path \in Branches(file[source]), Copies(path, TRUE), Reads(path) PROVE Inv'
  <2>1. session' = [session EXCEPT ![s] = o(path, TRUE)]
    BY <1>8
  <2>2. /\ path \in Seq(Entry) /\ WellFormed(path)
        /\ path # <<>> /\ Last(path).kind # "leaf" => Path(path, LeafOf(path)) = path
    BY <1>4, <1>8, BranchesWellFormed
  <2> QED
    BY <1>2, <1>3, <2>1, <2>2, CopyStep
<1> QED
  BY <1>5, <1>6, <1>7, <1>8

LEMMA WriteDocumentStep == Inv /\ (\E s \in Session : WriteDocument(s)) => Inv'
<1> SUFFICES ASSUME Inv, NEW s \in Session, WriteDocument(s) PROVE Inv'
  OBVIOUS
<1> DEFINE d == session[s].doc
           copy == session[s].copy
           o == [session[s] EXCEPT !.pc = "opening", !.copy = <<>>, !.branch = FALSE]
<1>1. /\ Typed /\ SessionInv(s) /\ session[s] \in Object
      /\ \A e \in Document : DocumentInv(e)
      /\ events \in 0 .. MaxEvents
  BY Before
<1>2. /\ session[s].pc = "copied"
      /\ status' = [status EXCEPT ![d] = "exists"]
      /\ file' = [file EXCEPT ![d] = copy]
      /\ cache' = [cache EXCEPT ![d] = copy]
      /\ accepted' = [accepted EXCEPT ![d] = copy]
      /\ UNCHANGED <<unended, torn, unseen, events>>
      /\ session' = [session EXCEPT ![s] = o]
  BY <1>1 DEF WriteDocument, Typed
<1>3. /\ d \in Document /\ status[d] = "unused" /\ WellFormed(copy) /\ copy \in Seq(Entry)
      /\ \A u \in Session \ {s} : session[u].doc # d
      /\ session[s].tasks = <<>> /\ session[s].id = None
  BY <1>1, <1>2 DEF SessionInv, Copying, Located, Object
<1>4. ~torn[d] /\ ~unended[d]
  BY <1>1, <1>3 DEF DocumentInv, Absent
<1>5. /\ o \in Object /\ o.pc = "opening" /\ o.doc = d
      /\ o.tasks = <<>> /\ o.id = None /\ ~o.branch
  <2>1. <<>> \in Seq(Entry) /\ FALSE \in BOOLEAN
    OBVIOUS
  <2>2. o \in Object
    BY <1>1, <2>1 DEF Object
  <2>3. /\ o.pc = "opening" /\ o.doc = d /\ ~o.branch
        /\ o.tasks = session[s].tasks /\ o.id = session[s].id
    BY <1>1 DEF Object
  <2> QED
    BY <1>3, <2>2, <2>3
<1> HIDE DEF o
<1>6. Becomes(s, o)
  BY <1>2, <1>5 DEF Becomes
<1>7. session'[s] = o
  BY <1>1, <1>6, BecomesFacts
<1>8. /\ status'[d] = "exists" /\ file'[d] = copy /\ cache'[d] = copy /\ accepted'[d] = copy
      /\ \A e \in Document : e # d => SameDocument(e)
  BY <1>1, <1>2, <1>3 DEF Typed, SameDocument
<1>9. Typed'
  <2>1. session' \in [Session -> Object]
    BY <1>1, <1>6, BecomesFacts
  <2> HIDE DEF d, copy
  <2> QED
    BY <1>1, <1>2, <1>3, <2>1 DEF Typed
<1>10. ASSUME NEW e \in Document PROVE DocumentInv(e)'
  <2>1. CASE e # d
    BY <1>1, <1>8, <2>1, DocumentStays
  <2>2. CASE e = d
    <3>1. Torn \notin ToSet(copy) /\ copy # None
      BY <1>3, EntriesParse
    <3>2. KeepsOrder(copy, copy) /\ Len(copy) \in Nat
      BY <1>3, KeepsItself DEF WellFormed
    <3> QED
      BY <1>2, <1>3, <1>4, <1>8, <2>2, <3>1, <3>2
         DEF DocumentInv, Absent, Untorn, Kept, Shown, Parsed
  <2> QED
    BY <2>1, <2>2
<1>11. ASSUME NEW u \in Session \ {s} PROVE SessionInv(u)'
  BY <1>3, <1>6, <1>8, OthersStay
<1>12. SessionInv(s)'
  <2>1. copy # None
    BY <1>3, EntriesParse
  <2> QED
    BY <1>3, <1>5, <1>7, <1>8, <2>1 DEF SessionInv, Copying, Located, Drawn, InPlace
<1> QED
  BY <1>9, <1>10, <1>11, <1>12 DEF Inv, IInv

LEMMA ConcatLines ==
    ASSUME NEW entries \in Seq(Entry), NEW rest \in {<<>>, <<Torn>>}
    PROVE  /\ entries \o rest \in Seq(Entry \union {Torn})
           /\ Torn \notin ToSet(entries \o rest) <=> rest = <<>>
           /\ rest = <<>> => entries \o rest = entries
<1>1. CASE rest = <<>>
  <2>1. entries \o rest = entries
    BY <1>1
  <2> QED
    BY <1>1, <2>1, EntriesParse
<1>2. CASE rest = <<Torn>>
  <2>1. /\ entries \o rest \in Seq(Entry \union {Torn})
        /\ Len(entries) + 1 \in DOMAIN (entries \o rest)
        /\ (entries \o rest)[Len(entries) + 1] = Torn
    BY <1>2
  <2>2. Torn \in ToSet(entries \o rest)
    BY <2>1 DEF ToSet
  <2>3. rest # <<>>
    BY <1>2
  <2> QED
    BY <2>1, <2>2, <2>3
<1> QED
  BY <1>1, <1>2

LEMMA WriteDocumentFailsStep == Inv /\ (\E s \in Session : WriteDocumentFails(s)) => Inv'
<1> SUFFICES ASSUME Inv, NEW s \in Session, WriteDocumentFails(s) PROVE Inv'
  OBVIOUS
<1> DEFINE d == session[s].doc
           copy == session[s].copy
<1>1. /\ Typed /\ SessionInv(s) /\ session[s] \in Object
      /\ \A e \in Document : DocumentInv(e)
      /\ events \in 0 .. MaxEvents
  BY Before
<1>2. /\ session[s].pc = "copied" /\ session' = [session EXCEPT ![s] = Closed]
      /\ UNCHANGED <<cache, accepted, unseen>>
  BY DEF WriteDocumentFails
<1>3. events' \in 0 .. MaxEvents
  <2>1. events < MaxEvents /\ events' = events + 1
    BY DEF WriteDocumentFails
  <2> QED
    BY <1>1, <2>1, ContentAssumption
<1>4. Becomes(s, Closed)
  BY <1>2, ClosedObject DEF Becomes, Closed
<1>5. session'[s] = Closed
  BY <1>1, <1>4, BecomesFacts
<1>6. SessionInv(s)'
  BY <1>5 DEF SessionInv, Copying, Located, Drawn, InPlace, Closed
<1>7. /\ d \in Document /\ status[d] = "unused" /\ WellFormed(copy) /\ copy \in Seq(Entry)
      /\ \A u \in Session \ {s} : session[u].doc # d
  BY <1>1, <1>2 DEF SessionInv, Copying, Object
<1>8. cache[d] = None /\ accepted[d] = <<>>
  BY <1>1, <1>7 DEF DocumentInv, Absent
<1>9. CASE UNCHANGED <<disk, torn>>
  BY <1>2, <1>3, <1>4, <1>6, <1>9, QuietStep
<1>10. ASSUME NEW n \in 0 .. Len(copy), NEW rest \in {<<>>, <<Torn>>}, NEW ended \in BOOLEAN,
              status' = [status EXCEPT ![d] = "exists"],
              file' = [file EXCEPT ![d] = SubSeq(copy, 1, n) \o rest],
              unended' = [unended EXCEPT ![d] = ~ended],
              torn' = [torn EXCEPT ![d] = ~ended \/ rest # <<>>]
       PROVE  Inv'
  <2> DEFINE part == SubSeq(copy, 1, n)
             lines == part \o rest
  <2>1. part \in Seq(Entry) /\ WellFormed(part)
    BY <1>7, PrefixWellFormed
  <2> HIDE DEF part
  <2>2. /\ lines \in Seq(Entry \union {Torn})
        /\ Torn \notin ToSet(lines) <=> rest = <<>>
        /\ rest = <<>> => lines = part
    BY <2>1, ConcatLines
  <2>3. file' = [file EXCEPT ![d] = lines]
    BY <1>10 DEF part
  <2> HIDE DEF lines
  <2>4. /\ status'[d] = "exists" /\ file'[d] = lines
        /\ unended'[d] = ~ended /\ torn'[d] = (~ended \/ rest # <<>>)
        /\ \A e \in Document : e # d => SameDocument(e)
    BY <1>1, <1>2, <1>7, <1>10, <2>3 DEF Typed, SameDocument
  <2>5. Typed'
    <3>1. session' \in [Session -> Object]
      BY <1>1, <1>4, BecomesFacts
    <3>2. (~ended \/ rest # <<>>) \in BOOLEAN
      OBVIOUS
    <3>3. unended' \in [Document -> BOOLEAN] /\ torn' \in [Document -> BOOLEAN]
      BY <1>1, <1>10, <3>2 DEF Typed
    <3>4. file' \in [Document -> Seq(Entry \union {Torn})]
      BY <1>1, <2>2, <2>3 DEF Typed
    <3>5. status' \in [Document -> {"unused", "exists", "deleted"}]
      BY <1>1, <1>10 DEF Typed
    <3> QED
      BY <1>1, <1>2, <1>3, <3>1, <3>3, <3>4, <3>5 DEF Typed
  <2>6. ASSUME NEW e \in Document PROVE DocumentInv(e)'
    <3>1. CASE e # d
      BY <1>1, <2>4, <3>1, DocumentStays
    <3>2. CASE e = d
      <4>1. Absent(e)' /\ Shown(e)'
        BY <3>2, <1>2, <1>8, <2>4 DEF Absent, Shown
      <4>2. Untorn(e)'
        BY <3>2, <2>2, <2>4 DEF Untorn, Parsed
      <4>3. Kept(e)'
        <5>1. KeepsOrder(part, <<>>) /\ Len(<<>>) = 0 /\ Len(part) >= 0
          BY <2>1, KeepsNothing
        <5> QED
          BY <3>2, <1>2, <1>8, <2>1, <2>2, <2>4, <5>1 DEF Kept, Parsed
      <4> QED
        BY <3>2, <4>1, <4>2, <4>3 DEF DocumentInv
    <3> QED
      BY <3>1, <3>2
  <2>7. ASSUME NEW u \in Session \ {s} PROVE SessionInv(u)'
    BY <1>4, <1>7, <2>4, OthersStay
  <2> QED
    BY <1>6, <2>5, <2>6, <2>7 DEF Inv, IInv
<1>11. \/ UNCHANGED <<disk, torn>>
       \/ \E n \in 0 .. Len(copy), rest \in {<<>>, <<Torn>>} :
             /\ status' = [status EXCEPT ![d] = "exists"]
             /\ file' = [file EXCEPT ![d] = SubSeq(copy, 1, n) \o rest]
             /\ \E ended \in BOOLEAN :
                   /\ unended' = [unended EXCEPT ![d] = ~ended]
                   /\ torn' = [torn EXCEPT ![d] = ~ended \/ rest # <<>>]
  BY DEF WriteDocumentFails
<1> QED
  BY <1>9, <1>10, <1>11

LEMMA DeleteStep == Inv /\ (\E d \in Document : Delete(d)) => Inv'
<1> SUFFICES ASSUME Inv, NEW d \in Document, Delete(d) PROVE Inv'
  OBVIOUS
<1>1. Typed /\ \A e \in Document : DocumentInv(e)
  BY DEF Inv, IInv
<1>2. /\ status[d] = "exists" /\ session' = session /\ events' = events
      /\ status'[d] = "deleted" /\ file'[d] = <<>> /\ ~unended'[d]
      /\ cache'[d] = None /\ accepted'[d] = <<>> /\ ~torn'[d]
      /\ \A e \in Document : e # d => SameDocument(e)
  BY <1>1 DEF Delete, Typed, SameDocument
<1>3. Typed'
  BY <1>1 DEF Delete, Typed
<1>4. ASSUME NEW e \in Document PROVE DocumentInv(e)'
  <2>1. CASE e # d
    BY <1>1, <1>2, <2>1, DocumentStays
  <2>2. CASE e = d
    <3>1. Absent(d)' /\ Shown(d)'
      BY <1>2 DEF Absent, Shown
    <3>2. Untorn(d)'
      BY <1>2 DEF Untorn, Parsed, ToSet
    <3>3. Kept(d)'
      <4>1. KeepsOrder(<<>>, <<>>) /\ Len(<<>>) <= Len(<<>>)
        BY KeepsNothing
      <4> QED
        BY <1>2, <4>1, EmptyWellFormed DEF Kept
    <3> QED
      BY <2>2, <3>1, <3>2, <3>3 DEF DocumentInv
  <2> QED
    BY <2>1, <2>2
<1>5. ASSUME NEW u \in Session PROVE SessionInv(u)'
  <2>1. SessionInv(u)
    BY DEF Inv, IInv
  <2>2. SameOthers(u)
    BY <1>2 DEF SameOthers
  <2>3. CASE session[u].doc # d
    BY <1>1, <1>2, <2>1, <2>2, <2>3, SessionStays
  <2>4. CASE session[u].doc = d
    BY <1>2, <2>1, <2>4 DEF SessionInv, Copying, Located, Drawn, InPlace
  <2> QED
    BY <2>3, <2>4
<1> QED
  BY <1>3, <1>4, <1>5 DEF Inv, IInv

LEMMA CrashStep == Inv /\ Crash => Inv'
<1> SUFFICES ASSUME Inv, Crash PROVE Inv'
  OBVIOUS
<1>1. Typed /\ \A e \in Document : DocumentInv(e)
  BY DEF Inv, IInv
<1>2. events' \in 0 .. MaxEvents
  <2>1. events < MaxEvents /\ events' = events + 1
    BY DEF Crash
  <2> QED
    BY <1>1, <2>1, ContentAssumption DEF Typed
<1>3. /\ \A e \in Document : cache'[e] = None
      /\ \A s \in Session : session'[s] = Closed
      /\ UNCHANGED <<disk, accepted, torn>>
  BY DEF Crash
<1>4. Typed'
  BY <1>1, <1>2, ClosedObject DEF Crash, Typed, disk
<1>5. ASSUME NEW e \in Document PROVE DocumentInv(e)'
  <2>1. DocumentInv(e)
    BY <1>1
  <2> QED
    BY <1>3, <2>1 DEF DocumentInv, Absent, Untorn, Kept, Shown, Parsed, disk
<1>6. ASSUME NEW s \in Session PROVE SessionInv(s)'
  BY <1>3 DEF SessionInv, Copying, Located, Drawn, InPlace, Closed
<1> QED
  BY <1>4, <1>5, <1>6 DEF Inv, IInv

-----------------------------------------------------------------------------
(* Steps of an append *)

\* A line that is joined, or torn, leaves a file that does not parse.
LEMMA WithLineFacts ==
    ASSUME Typed, NEW d \in Document, NEW line \in Entry \union {Torn}
    PROVE  /\ WithLine(d, line) \in Seq(Entry \union {Torn})
           /\ Torn \notin ToSet(WithLine(d, line)) =>
                 /\ Parsed(d) /\ ~unended[d] /\ line \in Entry
                 /\ WithLine(d, line) = Append(file[d], line)
           /\ Parsed(d) /\ ~unended[d] /\ line \in Entry =>
                 Torn \notin ToSet(WithLine(d, line))
<1> DEFINE f == file[d]
           w == WithLine(d, line)
<1>1. f \in Seq(Entry \union {Torn})
  BY DEF Typed
<1>2. CASE unended[d] /\ f = <<>>
  <2>1. w = <<Torn>>
    BY <1>2 DEF WithLine
  <2>2. <<Torn>>[1] = Torn /\ 1 \in DOMAIN <<Torn>> /\ <<Torn>> \in Seq(Entry \union {Torn})
    OBVIOUS
  <2>3. Torn \in ToSet(<<Torn>>)
    BY <2>2 DEF ToSet
  <2> QED
    BY <1>2, <2>1, <2>2, <2>3
<1>3. CASE unended[d] /\ f # <<>>
  <2>1. w = [f EXCEPT ![Len(f)] = Torn]
    BY <1>3 DEF WithLine
  <2>2. Len(f) \in DOMAIN f
    BY <1>1, <1>3
  <2> HIDE DEF f
  <2>3. w \in Seq(Entry \union {Torn}) /\ Len(f) \in DOMAIN w /\ w[Len(f)] = Torn
    BY <1>1, <2>1, <2>2
  <2> HIDE DEF w
  <2>4. Torn \in ToSet(w)
    BY <2>3 DEF ToSet
  <2> QED
    BY <1>3, <2>3, <2>4 DEF w
<1>4. CASE ~unended[d]
  <2>1. w = Append(f, line)
    BY <1>4 DEF WithLine
  <2>2. w \in Seq(Entry \union {Torn})
    BY <1>1, <2>1
  <2>3. ToSet(w) = ToSet(f) \union {line}
    BY <1>1, <2>1, AppendReads
  <2> QED
    BY <1>4, <2>1, <2>2, <2>3, EntryAssumption DEF Parsed
<1> QED
  BY <1>2, <1>3, <1>4

LEMMA AppendEqual ==
    ASSUME NEW a \in Seq(Entry), NEW b \in Seq(Entry), NEW e, Append(a, e) = Append(b, e)
    PROVE  a = b
<1>1. Len(a) + 1 = Len(b) + 1
  BY AppendFacts
<1>2. Len(a) = Len(b)
  BY <1>1
<1>3. \A i \in 1 .. Len(a) : a[i] = Append(a, e)[i] /\ b[i] = Append(b, e)[i]
  BY <1>2
<1>4. \A i \in 1 .. Len(a) : a[i] = b[i]
  BY <1>3
<1> QED
  BY <1>2, <1>4

\* What is known when an entry is about to be written
LEMMA StoringFacts ==
    ASSUME Inv, NEW s \in Session, Storing(s), Acceptable(s)
    PROVE  LET d == session[s].doc
               e == NewEntry(s)
           IN  /\ session[s].pc = "open" /\ session[s].tasks # <<>> /\ d \in Document
               /\ status[d] = "exists" /\ cache[d] # None
               /\ cache[d] \in Seq(Entry) /\ WellFormed(cache[d])
               /\ e \in Entry /\ e.id = session[s].id /\ e.parent = session[s].leaf
               /\ e.kind = session[s].tasks[1].kind /\ e.target = session[s].tasks[1].target
               /\ e.parent \in Ids(cache[d]) \union {None}
               /\ e.id \notin Ids(cache[d]) \union Parents(cache[d])
               /\ e.kind = "leaf" => e.target \in Ids(cache[d]) \union {None}
               /\ Parsed(d) =>
                     /\ e.parent \in Ids(file[d]) \union {None}
                     /\ e.id \notin Ids(file[d]) \union Parents(file[d])
<1> DEFINE d == session[s].doc
           e == NewEntry(s)
<1>1. Typed /\ SessionInv(s) /\ session[s] \in Object
  BY Before
<1>2. /\ session[s].id # None /\ session[s].pc = "open" /\ session[s].tasks # <<>>
      /\ d \in Document /\ status[d] = "exists" /\ cache[d] # None
      /\ session[s].id \notin Ids(cache[d])
  BY <1>1 DEF Storing, Acceptable, SessionInv, Located, Drawn
<1>3. cache[d] \in Seq(Entry) /\ WellFormed(cache[d])
  BY <1>1, <1>2, CacheEntries DEF Inv, IInv, DocumentInv, Shown
<1>4. session[s].tasks \in Seq(Task)
  BY <1>1 DEF Object
<1>5. 1 \in DOMAIN session[s].tasks /\ session[s].tasks[1] \in Task
  BY <1>2, <1>4
<1>6. session[s].id \in Id /\ session[s].leaf \in Id \union {None}
  BY <1>1, <1>2 DEF Object
<1>7. /\ e \in Entry /\ e.id = session[s].id /\ e.parent = session[s].leaf
      /\ e.kind = session[s].tasks[1].kind /\ e.target = session[s].tasks[1].target
  BY <1>5, <1>6 DEF NewEntry, Entry, Task
<1> HIDE DEF e
<1>8. session[s].leaf \in Ids(cache[d]) \union {None}
  BY <1>1, <1>2 DEF SessionInv, Located
<1>9. e.kind = "leaf" => e.target \in Ids(cache[d]) \union {None}
  BY <1>1, <1>2, <1>5, <1>7 DEF SessionInv, Located
<1>10. /\ session[s].id \notin Parents(cache[d])
       /\ Parsed(d) => session[s].id \notin Ids(file[d]) \union Parents(file[d])
  BY <1>1, <1>2 DEF SessionInv, Drawn
<1>11. ASSUME Parsed(d) PROVE Ids(cache[d]) \subseteq Ids(file[d])
  <2>1. ToSet(cache[d]) \subseteq ToSet(file[d])
    BY <1>2, <1>11 DEF Inv, IInv, DocumentInv, Shown
  <2>2. ASSUME NEW i \in DOMAIN cache[d] PROVE \E j \in DOMAIN file[d] : file[d][j] = cache[d][i]
    BY <2>1 DEF ToSet
  <2> QED
    BY <2>2 DEF Ids
<1> QED
  BY <1>2, <1>3, <1>7, <1>8, <1>9, <1>10, <1>11 DEF e

\* The entry behind the lines of a document
LEMMA LinesStep ==
    ASSUME Inv, NEW s \in Session, Storing(s), Acceptable(s), NEW d, d = session[s].doc,
           NEW line \in {NewEntry(s), Torn}, Torn \notin ToSet(WithLine(d, line))
    PROVE  LET lines == WithLine(d, line)
           IN  /\ line = NewEntry(s) /\ Parsed(d) /\ ~unended[d]
               /\ file[d] \in Seq(Entry) /\ lines = Append(file[d], line)
               /\ lines \in Seq(Entry) /\ WellFormed(lines)
               /\ ToSet(lines) = ToSet(file[d]) \union {line}
               /\ Ids(lines) = Ids(file[d]) \union {line.id}
               /\ Parents(lines) = Parents(file[d]) \union {line.parent}
               /\ KeepsOrder(lines, accepted[d])
               /\ KeepsOrder(lines, Append(accepted[d], line))
               /\ Len(lines) = Len(file[d]) + 1 /\ Len(accepted[d]) <= Len(file[d])
               /\ Len(file[d]) \in Nat /\ Len(accepted[d]) \in Nat
               /\ accepted[d] \in Seq(Entry)
<1> DEFINE e == NewEntry(s)
<1>1. /\ d \in Document /\ e \in Entry
      /\ Parsed(d) => /\ e.parent \in Ids(file[d]) \union {None}
                      /\ e.id \notin Ids(file[d]) \union Parents(file[d])
  BY StoringFacts
<1>2. Typed /\ DocumentInv(d)
  BY <1>1 DEF Inv, IInv
<1> HIDE DEF e
<1>3. Parsed(d) /\ ~unended[d] /\ line \in Entry /\ WithLine(d, line) = Append(file[d], line)
  BY <1>1, <1>2, WithLineFacts DEF e
<1>4. line = e
  BY <1>3, EntryAssumption DEF e
<1>5. file[d] \in Seq(Entry) /\ accepted[d] \in Seq(Entry)
  BY <1>1, <1>2, <1>3, FileEntries DEF Typed
<1>6. WellFormed(file[d]) /\ KeepsOrder(file[d], accepted[d]) /\ Len(accepted[d]) <= Len(file[d])
  BY <1>2, <1>3 DEF DocumentInv, Kept
<1>7. /\ Append(file[d], line) \in Seq(Entry) /\ Len(Append(file[d], line)) = Len(file[d]) + 1
      /\ Len(file[d]) \in Nat /\ Len(accepted[d]) \in Nat
  BY <1>3, <1>5
<1>8. WellFormed(Append(file[d], line))
  BY <1>1, <1>3, <1>4, <1>5, <1>6, AppendWellFormed
<1>9. /\ ToSet(Append(file[d], line)) = ToSet(file[d]) \union {line}
      /\ Ids(Append(file[d], line)) = Ids(file[d]) \union {line.id}
      /\ Parents(Append(file[d], line)) = Parents(file[d]) \union {line.parent}
  BY <1>5, AppendReads, AppendIds
<1>10. /\ KeepsOrder(Append(file[d], line), accepted[d])
       /\ KeepsOrder(Append(file[d], line), Append(accepted[d], line))
  BY <1>1, <1>3, <1>4, <1>5, <1>6, KeepsMore
<1> QED
  BY <1>3, <1>4, <1>5, <1>6, <1>7, <1>8, <1>9, <1>10 DEF e

\* The other Sessions of a document to which an open Session appends
LEMMA SharersStay ==
    ASSUME Inv, NEW s \in Session, NEW o, Becomes(s, o), NEW u \in Session \ {s},
           session[s].pc = "open", session[s].doc \in Document,
           status[session[s].doc] = "exists", status' = status,
           session[u].doc = session[s].doc
    PROVE  /\ session[u].pc \in {"opening", "open"} /\ session'[u] = session[u]
           /\ cache[session[s].doc] # None
           /\ Copying(u)' /\ InPlace(u)'
<1>1. Typed /\ SessionInv(u)
  BY Before
<1>2. session'[s] = o /\ session'[u] = session[u]
  BY <1>1, BecomesFacts
<1>3. session[u].pc \in {"closed", "copied", "opening", "open"} /\ session[s].doc # None
  BY <1>1, ContentAssumption DEF Typed, Object
<1>4. session[u].pc \in {"opening", "open"} /\ cache[session[s].doc] # None
  BY <1>1, <1>3 DEF SessionInv, Copying, Located
<1>5. Copying(u)'
  BY <1>1, <1>2, <1>4 DEF SessionInv, Copying
<1>6. InPlace(u)'
  BY <1>2 DEF InPlace, Becomes
<1> QED
  BY <1>2, <1>4, <1>5, <1>6

\* The document of an append that resolves
LEMMA StoreDocument ==
    ASSUME Inv, NEW s \in Session, Store(s), NEW d, d = session[s].doc
    PROVE  DocumentInv(d)'
<1> DEFINE e == NewEntry(s)
           lines == WithLine(d, e)
<1>1. Storing(s) /\ Acceptable(s)
  BY DEF Store
<1>2. /\ d \in Document /\ status[d] = "exists" /\ cache[d] # None
      /\ cache[d] \in Seq(Entry) /\ WellFormed(cache[d])
      /\ e \in Entry /\ e.parent \in Ids(cache[d]) \union {None}
      /\ e.id \notin Ids(cache[d]) \union Parents(cache[d])
  BY <1>1, StoringFacts
<1>3. Typed /\ DocumentInv(d)
  BY <1>2 DEF Inv, IInv
<1>4. /\ status'[d] = "exists" /\ file'[d] = lines /\ ~unended'[d]
      /\ cache'[d] = Append(cache[d], e) /\ accepted'[d] = Append(accepted[d], e)
      /\ torn'[d] = torn[d] /\ unseen'[d] = unseen[d]
  BY <1>2, <1>3 DEF Store, Typed
<1> HIDE DEF lines
<1>5. ASSUME Torn \notin ToSet(lines)
      PROVE  /\ Parsed(d) /\ file[d] \in Seq(Entry) /\ lines = Append(file[d], e)
             /\ WellFormed(lines) /\ ToSet(lines) = ToSet(file[d]) \union {e}
             /\ KeepsOrder(lines, Append(accepted[d], e))
             /\ Len(lines) = Len(file[d]) + 1 /\ Len(accepted[d]) <= Len(file[d])
             /\ Len(file[d]) \in Nat /\ Len(accepted[d]) \in Nat
             /\ accepted[d] \in Seq(Entry)
  BY <1>1, <1>5, LinesStep DEF lines
<1>6. /\ WellFormed(Append(cache[d], e))
      /\ ToSet(Append(cache[d], e)) = ToSet(cache[d]) \union {e}
  <2> HIDE DEF e
  <2> QED
    BY <1>2, AppendWellFormed, AppendReads
<1>7. Absent(d)'
  BY <1>4 DEF Absent
<1>8. Untorn(d)'
  <2>1. ASSUME ~torn[d] PROVE Torn \notin ToSet(lines)
    BY <1>2, <1>3, <2>1, WithLineFacts DEF DocumentInv, Untorn, lines
  <2> QED
    BY <1>4, <2>1 DEF Untorn, Parsed
<1>9. Kept(d)'
  <2>1. ASSUME Torn \notin ToSet(lines) PROVE Len(Append(accepted[d], e)) <= Len(lines)
    BY <1>5, <2>1
  <2> QED
    BY <1>4, <1>5, <2>1 DEF Kept, Parsed
<1>10. Shown(d)'
  <2>1. ASSUME Torn \notin ToSet(lines)
        PROVE  /\ ToSet(Append(cache[d], e)) \subseteq ToSet(lines)
               /\ ~unseen[d] => Append(cache[d], e) = lines
               /\ lines = Append(accepted[d], e) => Append(cache[d], e) = lines
    <3>1. /\ ToSet(cache[d]) \subseteq ToSet(file[d])
          /\ ~unseen[d] => cache[d] = file[d]
          /\ file[d] = accepted[d] => cache[d] = file[d]
      BY <1>2, <1>3, <1>5, <2>1 DEF DocumentInv, Shown
    <3>2. lines = Append(accepted[d], e) => file[d] = accepted[d]
      <4> HIDE DEF e
      <4> SUFFICES ASSUME lines = Append(accepted[d], e) PROVE file[d] = accepted[d]
        OBVIOUS
      <4>1. file[d] \in Seq(Entry) /\ accepted[d] \in Seq(Entry)
        BY <1>5, <2>1
      <4>2. Append(file[d], e) = Append(accepted[d], e)
        BY <1>5, <2>1
      <4> QED
        BY <4>1, <4>2, AppendEqual
    <3> QED
      BY <1>5, <1>6, <2>1, <3>1, <3>2
  <2> QED
    BY <1>4, <1>6, <2>1 DEF Shown, Parsed
<1> QED
  BY <1>7, <1>8, <1>9, <1>10 DEF DocumentInv

\* The tasks behind the one that was stored
LEMMA TasksAfter ==
    ASSUME NEW tasks \in Seq(Task), tasks # <<>>, NEW G,
           \A i \in DOMAIN tasks : tasks[i].kind = "leaf" => tasks[i].target \in G,
           NEW rest, rest = <<>> \/ (\E t \in Task : t.kind # "leaf" /\ rest = <<t>>)
    PROVE  /\ Tail(tasks) \o rest \in Seq(Task)
           /\ \A i \in DOMAIN (Tail(tasks) \o rest) :
                 (Tail(tasks) \o rest)[i].kind = "leaf" => (Tail(tasks) \o rest)[i].target \in G
<1>1. /\ Tail(tasks) \in Seq(Task)
      /\ \A i \in DOMAIN Tail(tasks) :
            Tail(tasks)[i].kind = "leaf" => Tail(tasks)[i].target \in G
  BY TailTasks
<1> DEFINE t == Tail(tasks)
<1> HIDE DEF t
<1>2. CASE rest = <<>>
  <2>1. t \o rest = t
    BY <1>1, <1>2 DEF t
  <2> QED
    BY <1>1, <2>1 DEF t
<1>3. ASSUME NEW x \in Task, x.kind # "leaf", rest = <<x>>
      PROVE  /\ t \o rest \in Seq(Task)
             /\ \A i \in DOMAIN (t \o rest) : (t \o rest)[i].kind = "leaf" => (t \o rest)[i].target \in G
  <2>1. t \o rest = Append(t, x)
    BY <1>1, <1>3 DEF t
  <2> QED
    BY <1>1, <1>3, <2>1, TasksAppend DEF t
<1> QED
  BY <1>2, <1>3 DEF t

LEMMA StoreStep == Inv /\ (\E s \in Session : Store(s)) => Inv'
<1> SUFFICES ASSUME Inv, NEW s \in Session, Store(s) PROVE Inv'
  OBVIOUS
<1> DEFINE e == NewEntry(s)
           summary == [kind |-> "summary", target |-> None, summarized |-> FALSE]
           rest == IF session[s].tasks[1].summarized THEN <<summary>> ELSE <<>>
<1> DEFINE o == [session[s] EXCEPT !.id = None, !.leaf = LeafAfter(e),
                                   !.tasks = Tail(session[s].tasks) \o rest]
<1>0. PICK d : d = session[s].doc
  OBVIOUS
<1>1. /\ Typed /\ SessionInv(s) /\ session[s] \in Object
      /\ \A x \in Document : DocumentInv(x)
      /\ events \in 0 .. MaxEvents
  BY Before
<1>2. Storing(s) /\ Acceptable(s)
  BY DEF Store
<1>3. /\ session[s].pc = "open" /\ session[s].tasks # <<>> /\ d \in Document
      /\ status[d] = "exists" /\ cache[d] # None /\ cache[d] \in Seq(Entry)
      /\ e \in Entry /\ e.id = session[s].id
      /\ e.parent \in Ids(cache[d]) \union {None}
      /\ e.kind = "leaf" => e.target \in Ids(cache[d]) \union {None}
      /\ Ids(cache[d]) \subseteq Id
  BY <1>0, <1>1, <1>2, StoringFacts, CacheEntries
<1>4. /\ file' = [file EXCEPT ![d] = WithLine(d, e)]
      /\ unended' = [unended EXCEPT ![d] = FALSE]
      /\ cache' = [cache EXCEPT ![d] = Append(@, e)]
      /\ accepted' = [accepted EXCEPT ![d] = Append(@, e)]
      /\ UNCHANGED <<status, torn, unseen, events>>
  BY <1>0 DEF Store
<1>5. session' = [session EXCEPT ![s] = o]
  BY DEF Store
<1>6. Ids(Append(cache[d], e)) = Ids(cache[d]) \union {e.id}
      /\ Parents(Append(cache[d], e)) = Parents(cache[d]) \union {e.parent}
  BY <1>3, AppendIds
<1> DEFINE G == Ids(cache[d]) \union {None}
<1>7. /\ Tail(session[s].tasks) \o rest \in Seq(Task)
      /\ \A i \in DOMAIN (Tail(session[s].tasks) \o rest) :
            (Tail(session[s].tasks) \o rest)[i].kind = "leaf" =>
               (Tail(session[s].tasks) \o rest)[i].target \in G
  <2>1. session[s].tasks \in Seq(Task)
    BY <1>1 DEF Object
  <2>2. \A i \in DOMAIN session[s].tasks : session[s].tasks[i].kind = "leaf" =>
            session[s].tasks[i].target \in G
    BY <1>0, <1>1, <1>3 DEF SessionInv, Located
  <2>3. rest = <<>> \/ (\E t \in Task : t.kind # "leaf" /\ rest = <<t>>)
    <3>1. summary \in Task /\ summary.kind # "leaf"
      BY DEF Task, Kind
    <3> QED
      BY <3>1
  <2> HIDE DEF G, rest
  <2> QED
    BY <1>3, <2>1, <2>2, <2>3, TasksAfter
<1>8. LeafAfter(e) \in Ids(cache[d]) \union {None, e.id} /\ LeafAfter(e) \in Id \union {None}
  BY <1>3 DEF LeafAfter, Entry
<1> HIDE DEF rest
<1>9. /\ o \in Object /\ o.pc = "open" /\ o.doc = d /\ o.id = None /\ o.leaf = LeafAfter(e)
      /\ o.tasks = Tail(session[s].tasks) \o rest
      /\ o.branch = session[s].branch /\ o.copy = session[s].copy
  BY <1>0, <1>1, <1>3, <1>7, <1>8 DEF Object
<1> HIDE DEF o, e
<1>10. Becomes(s, o)
  BY <1>0, <1>5, <1>9 DEF Becomes
<1>11. session'[s] = o /\ \A u \in Session \ {s} : session'[u] = session[u]
  BY <1>1, <1>10, BecomesFacts
<1>12. /\ \A x \in Document : x # d => SameDocument(x)
       /\ file'[d] = WithLine(d, e)
       /\ cache'[d] = Append(cache[d], e) /\ accepted'[d] = Append(accepted[d], e)
       /\ cache'[d] # None
  <2>1. Append(cache[d], e) \in Seq(Entry)
    BY <1>3
  <2>2. Append(cache[d], e) # None
    BY <2>1, EntriesParse
  <2> QED
    BY <1>1, <1>3, <1>4, <2>2 DEF Typed, SameDocument
<1>13. Typed'
  <2>1. WithLine(d, e) \in Seq(Entry \union {Torn})
    BY <1>1, <1>3, WithLineFacts
  <2>2. Append(cache[d], e) \in Seq(Entry)
    BY <1>3
  <2>3. accepted[d] \in Seq(Entry)
    BY <1>1, <1>3 DEF Typed
  <2>4. Append(accepted[d], e) \in Seq(Entry)
    BY <1>3, <2>3
  <2>5. session' \in [Session -> Object]
    BY <1>1, <1>10, BecomesFacts
  <2>6. file' \in [Document -> Seq(Entry \union {Torn})]
    BY <1>1, <1>4, <2>1 DEF Typed
  <2>7. cache' \in [Document -> Seq(Entry) \union {None}]
    BY <1>1, <1>4, <2>2 DEF Typed
  <2>8. accepted' \in [Document -> Seq(Entry)]
    BY <1>1, <1>4, <2>4 DEF Typed
  <2>9. unended' \in [Document -> BOOLEAN]
    BY <1>1, <1>4 DEF Typed
  <2> QED
    BY <1>1, <1>4, <2>5, <2>6, <2>7, <2>8, <2>9 DEF Typed
<1>14. ASSUME NEW x \in Document PROVE DocumentInv(x)'
  <2>1. CASE x # d
    BY <1>1, <1>12, <2>1, DocumentStays
  <2>2. CASE x = d
    BY <1>0, <2>2, StoreDocument
  <2> QED
    BY <2>1, <2>2
<1>15. SessionInv(s)'
  <2>1. cache'[d] # None /\ Ids(cache'[d]) = Ids(cache[d]) \union {e.id}
    BY <1>3, <1>6, <1>12
  <2>2. Copying(s)' /\ Drawn(s)'
    BY <1>1, <1>3, <1>9, <1>11 DEF SessionInv, Copying, Drawn
  <2>3. Located(s)'
    <3>1. \A i \in DOMAIN o.tasks : o.tasks[i].kind = "leaf" =>
              o.tasks[i].target \in Ids(cache'[d]) \union {None}
      BY <1>7, <1>9, <2>1
    <3>2. status'[d] # "unused" /\ o.leaf \in Ids(cache'[d]) \union {None}
      BY <1>3, <1>4, <1>8, <1>9, <2>1
    <3> QED
      BY <1>3, <1>9, <1>11, <2>1, <3>1, <3>2 DEF Located
  <2>4. ASSUME file'[d] = accepted'[d] PROVE LeafOf(file'[d]) = o.leaf
    <3>1. accepted'[d] \in Seq(Entry)
      BY <1>3, <1>13 DEF Typed
    <3>2. Torn \notin ToSet(WithLine(d, e))
      BY <2>4, <1>12, <3>1, EntriesParse
    <3>3. file'[d] = Append(file[d], e) /\ file[d] \in Seq(Entry)
      BY <1>0, <1>2, <1>12, <3>2, LinesStep DEF e
    <3>4. Last(Append(file[d], e)) = e /\ Append(file[d], e) # <<>>
      BY <3>3 DEF Last
    <3> QED
      BY <1>9, <3>3, <3>4 DEF LeafOf, LeafAfter
  <2>5. InPlace(s)'
    BY <1>9, <1>11, <2>4 DEF InPlace
  <2> QED
    BY <2>2, <2>3, <2>5 DEF SessionInv
<1>16. ASSUME NEW u \in Session \ {s} PROVE SessionInv(u)'
  <2>1. CASE session[u].doc # d
    BY <1>10, <1>12, <2>1, OthersStay
  <2>2. CASE session[u].doc = d
    <3>1. SessionInv(u)
      BY Before
    <3>2. /\ session[u].pc \in {"opening", "open"} /\ session'[u] = session[u]
          /\ Copying(u)' /\ InPlace(u)'
      BY <1>0, <1>3, <1>4, <1>10, <2>2, SharersStay
    <3>3. cache'[d] # None /\ status' = status
      BY <1>3, <1>4, <1>12
    <3>4. Located(u)'
      BY <1>3, <1>6, <1>12, <2>2, <3>1, <3>2, <3>3 DEF SessionInv, Located
    <3>5. Drawn(u)'
      <4> SUFFICES ASSUME session[u].id # None, session[u].id \notin Ids(cache'[d])
                   PROVE  /\ session[u].tasks # <<>>
                          /\ session[u].id \notin Parents(cache'[d])
                          /\ Torn \notin ToSet(file'[d]) =>
                                session[u].id \notin Ids(file'[d]) \union Parents(file'[d])
        BY <2>2, <3>1, <3>2 DEF Drawn, Parsed, SessionInv
      <4>1. /\ session[u].tasks # <<>> /\ session[u].id \notin Ids(cache[d])
            /\ session[u].id # e.id /\ session[u].id # e.parent
            /\ session[u].id \notin Parents(cache[d])
            /\ Parsed(d) => session[u].id \notin Ids(file[d]) \union Parents(file[d])
        BY <1>3, <1>6, <1>12, <2>2, <3>1 DEF SessionInv, Drawn
      <4>2. ASSUME Torn \notin ToSet(WithLine(d, e))
            PROVE  /\ Parsed(d)
                   /\ Ids(WithLine(d, e)) = Ids(file[d]) \union {e.id}
                   /\ Parents(WithLine(d, e)) = Parents(file[d]) \union {e.parent}
        BY <1>0, <1>2, <4>2, LinesStep DEF e
      <4> QED
        BY <1>6, <1>12, <4>1, <4>2
    <3> QED
      BY <3>2, <3>4, <3>5 DEF SessionInv
  <2> QED
    BY <2>1, <2>2
<1> QED
  BY <1>13, <1>14, <1>15, <1>16 DEF Inv, IInv

\* A failing append wrote a line, or some of it.
LEMMA WritesStep ==
    ASSUME Inv, NEW s \in Session, Storing(s), Acceptable(s), NEW d, d = session[s].doc,
           NEW line \in {NewEntry(s), Torn}, NEW ended \in BOOLEAN, ended => line = NewEntry(s),
           \A u \in Session \ {s} : session[u].doc = d => session[u].id # session[s].id,
           file' = [file EXCEPT ![d] = WithLine(d, line)],
           unended' = [unended EXCEPT ![d] = ~ended],
           torn' = [torn EXCEPT ![d] = torn[d] \/ ~ended],
           unseen' = [unseen EXCEPT ![d] = TRUE],
           session' = [session EXCEPT ![s] = Rejected(s)],
           UNCHANGED <<status, cache, accepted>>, events' \in 0 .. MaxEvents
    PROVE  Inv'
<1> DEFINE lines == WithLine(d, line)
<1>1. Typed /\ \A x \in Document : DocumentInv(x)
  BY DEF Inv, IInv
<1>2. /\ session[s].pc = "open" /\ session[s].tasks # <<>> /\ d \in Document
      /\ status[d] = "exists" /\ cache[d] # None
      /\ NewEntry(s) \in Entry /\ NewEntry(s).id = session[s].id
      /\ NewEntry(s).parent \in Ids(cache[d]) \union {None}
  BY StoringFacts
<1>3. /\ lines \in Seq(Entry \union {Torn})
      /\ Parsed(d) /\ ~unended[d] /\ line \in Entry => Torn \notin ToSet(lines)
  BY <1>1, <1>2, WithLineFacts
<1>4. ASSUME Torn \notin ToSet(lines)
      PROVE  /\ line = NewEntry(s) /\ Parsed(d)
             /\ WellFormed(lines) /\ ToSet(lines) = ToSet(file[d]) \union {line}
             /\ Ids(lines) = Ids(file[d]) \union {line.id}
             /\ Parents(lines) = Parents(file[d]) \union {line.parent}
             /\ KeepsOrder(lines, accepted[d])
             /\ Len(lines) = Len(file[d]) + 1 /\ Len(accepted[d]) <= Len(file[d])
             /\ Len(file[d]) \in Nat /\ Len(accepted[d]) \in Nat
  BY <1>4, LinesStep
<1> HIDE DEF lines
<1>5. /\ file' = [file EXCEPT ![d] = lines]
      /\ \A x \in Document : x # d => SameDocument(x)
      /\ file'[d] = lines /\ unended'[d] = ~ended /\ torn'[d] = (torn[d] \/ ~ended)
      /\ unseen'[d] = TRUE
  BY <1>1, <1>2 DEF Typed, SameDocument, lines
<1>6. lines # accepted[d]
  <2>1. accepted[d] \in Seq(Entry)
    BY <1>1, <1>2 DEF Typed
  <2>2. CASE Torn \in ToSet(lines)
    BY <2>1, <2>2, EntriesParse
  <2>3. CASE Torn \notin ToSet(lines)
    BY <1>4, <2>3
  <2> QED
    BY <2>2, <2>3
<1>7. Becomes(s, Rejected(s)) /\ SessionInv(s)'
  BY <1>2, <1>5, <1>6, RejectedSession
<1>8. session'[s] = Rejected(s) /\ \A u \in Session \ {s} : session'[u] = session[u]
  BY <1>1, <1>7, BecomesFacts
<1>9. Typed'
  <2>1. session' \in [Session -> Object]
    BY <1>1, <1>7, BecomesFacts
  <2>2. file' \in [Document -> Seq(Entry \union {Torn})]
    BY <1>1, <1>3, <1>5 DEF Typed
  <2>3. (torn[d] \/ ~ended) \in BOOLEAN
    OBVIOUS
  <2>4. torn' \in [Document -> BOOLEAN]
    BY <1>1, <2>3 DEF Typed
  <2>5. unended' \in [Document -> BOOLEAN] /\ unseen' \in [Document -> BOOLEAN]
    BY <1>1 DEF Typed
  <2> QED
    BY <1>1, <2>1, <2>2, <2>4, <2>5 DEF Typed
<1>10. ASSUME NEW x \in Document PROVE DocumentInv(x)'
  <2>1. CASE x # d
    BY <1>1, <1>5, <2>1, DocumentStays
  <2>2. CASE x = d
    <3>1. DocumentInv(d)
      BY <1>1, <1>2
    <3>2. Absent(d)'
      BY <1>2 DEF Absent
    <3>3. Untorn(d)'
      <4>1. ASSUME ~torn[d], ended PROVE Torn \notin ToSet(lines) /\ ~unended'[d]
        BY <1>2, <1>3, <1>5, <3>1, <4>1 DEF DocumentInv, Untorn
      <4> QED
        BY <1>5, <4>1 DEF Untorn, Parsed
    <3>4. Kept(d)'
      <4>1. ASSUME Torn \notin ToSet(lines) PROVE Len(accepted[d]) <= Len(lines)
        BY <1>4, <4>1
      <4> QED
        BY <1>4, <1>5, <4>1 DEF Kept, Parsed
    <3>5. Shown(d)'
      <4>1. WellFormed(cache[d])
        BY <1>2, <3>1 DEF DocumentInv, Shown
      <4>2. ASSUME Torn \notin ToSet(lines) PROVE ToSet(cache[d]) \subseteq ToSet(lines)
        BY <1>2, <1>4, <3>1, <4>2 DEF DocumentInv, Shown
      <4> QED
        BY <1>5, <1>6, <4>1, <4>2 DEF Shown, Parsed
    <3> QED
      BY <2>2, <3>2, <3>3, <3>4, <3>5 DEF DocumentInv
  <2> QED
    BY <2>1, <2>2
<1>11. ASSUME NEW u \in Session \ {s} PROVE SessionInv(u)'
  <2>1. CASE session[u].doc # d
    BY <1>5, <1>7, <2>1, OthersStay
  <2>2. CASE session[u].doc = d
    <3>1. SessionInv(u)
      BY Before
    <3>2. /\ session[u].pc \in {"opening", "open"} /\ session'[u] = session[u]
          /\ Copying(u)' /\ InPlace(u)'
      BY <1>2, <1>7, <2>2, SharersStay
    <3>3. Located(u)'
      BY <2>2, <3>1, <3>2 DEF SessionInv, Located
    <3>4. Drawn(u)'
      <4> SUFFICES ASSUME session[u].id # None, session[u].id \notin Ids(cache[d])
                   PROVE  /\ session[u].tasks # <<>>
                          /\ session[u].id \notin Parents(cache[d])
                          /\ Torn \notin ToSet(lines) =>
                                session[u].id \notin Ids(lines) \union Parents(lines)
        BY <1>5, <2>2, <3>1, <3>2 DEF Drawn, Parsed, SessionInv
      <4>1. /\ session[u].tasks # <<>>
            /\ session[u].id \notin Parents(cache[d])
            /\ Parsed(d) => session[u].id \notin Ids(file[d]) \union Parents(file[d])
        BY <1>2, <2>2, <3>1 DEF SessionInv, Drawn
      <4>2. session[u].id # NewEntry(s).id /\ session[u].id # NewEntry(s).parent
        BY <1>2, <2>2
      <4> QED
        BY <1>4, <4>1, <4>2
    <3> QED
      BY <3>2, <3>3, <3>4 DEF SessionInv
  <2> QED
    BY <2>1, <2>2
<1> QED
  BY <1>7, <1>9, <1>10, <1>11 DEF Inv, IInv

LEMMA StoreFailsStep == Inv /\ (\E s \in Session : StoreFails(s)) => Inv'
<1> SUFFICES ASSUME Inv, NEW s \in Session, StoreFails(s) PROVE Inv'
  OBVIOUS
<1> DEFINE d == session[s].doc
           Writes(line, ended) ==
               /\ \A u \in Session \ {s} : session[u].doc = d => session[u].id # session[s].id
               /\ file' = [file EXCEPT ![d] = WithLine(d, line)]
               /\ unended' = [unended EXCEPT ![d] = ~ended]
               /\ torn' = [torn EXCEPT ![d] = @ \/ ~ended]
               /\ unseen' = [unseen EXCEPT ![d] = TRUE]
<1>1. Typed /\ SessionInv(s) /\ events \in 0 .. MaxEvents
  BY Before
<1>2. /\ Storing(s) /\ Acceptable(s)
      /\ session' = [session EXCEPT ![s] = Rejected(s)]
      /\ UNCHANGED <<status, cache, accepted>>
  BY DEF StoreFails
<1>3. events' \in 0 .. MaxEvents
  <2>1. events < MaxEvents /\ events' = events + 1
    BY DEF StoreFails
  <2> QED
    BY <1>1, <2>1, ContentAssumption
<1>4. \/ UNCHANGED <<file, unended, torn, unseen>>
      \/ Writes(NewEntry(s), TRUE) \/ Writes(NewEntry(s), FALSE) \/ Writes(Torn, FALSE)
  BY DEF StoreFails
<1>5. CASE UNCHANGED <<file, unended, torn, unseen>>
  <2>1. session[s].pc = "open" /\ session[s].tasks # <<>>
    BY <1>2, StoringFacts
  <2>2. Becomes(s, Rejected(s)) /\ SessionInv(s)'
    BY <1>2, <1>5, <2>1, RejectedSession
  <2> QED
    BY <1>2, <1>3, <1>5, <2>2, QuietStep DEF disk
<1>6. CASE Writes(NewEntry(s), TRUE)
  BY <1>2, <1>3, <1>6, WritesStep
<1>7. CASE Writes(NewEntry(s), FALSE)
  BY <1>2, <1>3, <1>7, WritesStep
<1>8. CASE Writes(Torn, FALSE)
  BY <1>2, <1>3, <1>8, WritesStep
<1> QED
  BY <1>4, <1>5, <1>6, <1>7, <1>8

-----------------------------------------------------------------------------
LEMMA NextInv == Inv /\ [Next]_vars => Inv'
<1> SUFFICES ASSUME Inv, [Next]_vars PROVE Inv'
  OBVIOUS
<1>1. CASE Crash
  BY <1>1, CrashStep
<1>2. CASE \E d \in Document : Delete(d)
  BY <1>2, DeleteStep
<1>3. CASE \E s \in Session : ReadHead(s)
  BY <1>3, ReadHeadStep
<1>4. CASE \E s \in Session : WriteDocument(s)
  BY <1>4, WriteDocumentStep
<1>5. CASE \E s \in Session : WriteDocumentFails(s)
  BY <1>5, WriteDocumentFailsStep
<1>6. CASE \E s \in Session : Appends(s)
  BY <1>6, AppendMessageStep, AppendCompactionStep, MoveToStep, DrawStep, StoreStep,
     StoreRefusedStep, StoreFailsStep DEF Appends
<1>7. CASE \E s \in Session, d \in Document : Load(s, d)
  BY <1>7, LoadStep
<1>8. CASE \E s \in Session, d \in Document : Create(s, d)
  BY <1>8, CreateStep
<1>9. CASE \E s \in Session, source, d \in Document : ForkRead(s, source, d)
  BY <1>9, ForkReadStep
<1>10. CASE UNCHANGED vars
  <2>1. UNCHANGED <<status, file, unended, cache, session, accepted, torn, unseen, events>>
    BY <1>10 DEF vars, disk, memory
  <2>2. Typed'
    BY <2>1 DEF Inv, Typed
  <2>3. \A d \in Document : DocumentInv(d)'
    BY <2>1 DEF Inv, IInv, DocumentInv, Absent, Untorn, Kept, Shown, Parsed
  <2>4. \A s \in Session : SessionInv(s)'
    BY <2>1 DEF Inv, IInv, SessionInv, Copying, Located, Drawn, InPlace, Parsed
  <2> QED
    BY <2>2, <2>3, <2>4 DEF Inv, IInv
<1> QED
  BY <1>1, <1>2, <1>3, <1>4, <1>5, <1>6, <1>7, <1>8, <1>9, <1>10 DEF Next

\* The invariant of files, caches and Sessions holds in every reachable state.
THEOREM InvariantCorrect == Spec => []Inv
<1>1. Inv /\ [Next]_vars => Inv'
  BY NextInv
<1> QED
  BY InitInv, <1>1, PTL DEF Spec

\* The store's caches, the files and the Sessions keep their types, and no two
\* entries of a cache have the same id, whoever appends (jsonl-store.ts:264).
THEOREM TypeCorrect == Spec => []TypeOK
  BY InvariantCorrect, TypedOK, PTL

\* Entries whose append resolved are in the file, once each and in order, and the
\* file loads: after refused and failing appends of other Sessions, crashes and
\* forks, unless a failing append tore a line (jsonl-store.ts:275).
THEOREM SurvivesCorrect == Spec => []AcceptedSurvives
  BY InvariantCorrect, InvSurvives, PTL

\* The loop of readPathToRootOrCompaction() finds every parent from the leaf of an
\* open Session, and reads a forked branch as the branch that was copied.
THEOREM ReadsCorrect == Spec => []BranchesRead
  BY InvariantCorrect, InvReads, PTL

\* The leaf that a Session keeps in memory is the one derived from its file.
THEOREM ResumesCorrect == Spec => []ResumesInPlace
  BY InvariantCorrect, InvResumes, PTL

=============================================================================
