--------------------------- MODULE EditorViewsProofs ---------------------------
(***************************************************************************)
(* Proofs about EditorViews, for every set of names, texts and arguments,    *)
(* and every bound, in the behaviours of SteadySpec.                        *)
(***************************************************************************)
EXTENDS EditorViews, SequenceTheorems, NumberLemmas

(* The inductive invariant.  That the current view is usable needs the other   *)
(* views to be, for any of them may become current; and that an entry of the   *)
(* table that is zeroed leaves no view behind needs a buffer to have one view.  *)

\* An index is built with lines, a save counts the edits, an edit is a version.
SoundSlot ==
  {b \in Slot : /\ ~b.lines => b.indexed = 0
                /\ b.savedVersion <= b.edits /\ b.edits <= b.version}

Table == Seq(SoundSlot)

\* A view on a buffer is the only one, and was counted as a version of it.
ViewsGood(ss, vs) ==
  /\ vs \in Seq(Nat)
  /\ \A v \in DOMAIN vs : vs[v] # Hole =>
       /\ vs[v] \in DOMAIN ss
       /\ ss[vs[v]].edits < ss[vs[v]].version
       /\ \A w \in DOMAIN vs : vs[w] = vs[v] => w = v

CurrentGood(vs, c) == c \in DOMAIN vs /\ vs[c] # Hole

TablesGood == slots \in Table /\ ViewsGood(slots, views) /\ CurrentGood(views, current)

\* What a quit saves stays the list of the table until the next session starts.
Kinds ==
  /\ session \in {"running", "quit", "killed", "fatal"} /\ sessions \in Nat
  /\ prompt \in {"none", "close", "quit"}
  /\ misstep = "none"
  /\ saved \in Seq(Name)
  /\ disk \in [Name -> Text \cup {Missing}]
  /\ session = "quit" => saved = NamesFrom(slots)

IInv == TablesGood /\ Kinds

-----------------------------------------------------------------------------
(* One entry of the table of buffers.                                         *)

(* An index that is built makes lines and changes nothing else.                *)
LEMMA BuiltIndices ==
  ASSUME NEW b \in SoundSlot
  PROVE  /\ buffer_build_indices(b) \in SoundSlot
         /\ buffer_build_indices(b).lines = TRUE
         /\ buffer_build_indices(b).name = b.name /\ buffer_build_indices(b).text = b.text
         /\ buffer_build_indices(b).edits = b.edits
         /\ buffer_build_indices(b).version = b.version
BY DEF buffer_build_indices, SoundSlot, Slot

(* An entry with lines is not a zeroed one.                                    *)
LEMMA LinesNotZeroed == Zeroed.lines = FALSE
BY DEF Zeroed

(* A zeroed entry is one.                                                     *)
LEMMA ZeroedSound == Zeroed \in SoundSlot
BY EditorViewsAssumption DEF Zeroed, SoundSlot, Slot

(* A file that is read into an entry, and one that cannot be (buffer_open).     *)
LEMMA OpenedSlot ==
  ASSUME NEW b \in SoundSlot, NEW n \in Name, disk \in [Name -> Text \cup {Missing}]
  PROVE  /\ OpenFails(b, n) \in SoundSlot /\ OpenFails(b, n).name = n
         /\ OpenFails(b, n).lines = b.lines
         /\ OpenFails(b, n).edits = b.edits /\ OpenFails(b, n).version = b.version
         /\ disk[n] # Missing =>
              /\ buffer_open(b, n) \in SoundSlot /\ buffer_open(b, n).name = n
              /\ buffer_open(b, n).lines = TRUE
              /\ buffer_open(b, n).edits = b.edits /\ buffer_open(b, n).version = b.version
<1>1. /\ OpenFails(b, n) \in SoundSlot /\ OpenFails(b, n).name = n
      /\ OpenFails(b, n).lines = b.lines
      /\ OpenFails(b, n).edits = b.edits /\ OpenFails(b, n).version = b.version
  BY DEF OpenFails, SoundSlot, Slot
<1>2. ASSUME disk[n] # Missing
      PROVE  /\ buffer_open(b, n) \in SoundSlot /\ buffer_open(b, n).name = n
             /\ buffer_open(b, n).lines = TRUE
             /\ buffer_open(b, n).edits = b.edits /\ buffer_open(b, n).version = b.version
  <2> DEFINE read == [b EXCEPT !.name = n, !.text = disk[n]]
  <2>1. disk[n] \in Text
    BY <1>2
  <2>2. /\ read \in SoundSlot /\ read.name = n
        /\ read.edits = b.edits /\ read.version = b.version
    BY <2>1 DEF SoundSlot, Slot
  <2>3. buffer_open(b, n) = buffer_build_indices(read)
    BY DEF buffer_open
  <2> HIDE DEF read
  <2> QED
    BY <2>2, <2>3, BuiltIndices
<1> QED
  BY <1>1, <1>2

-----------------------------------------------------------------------------
(* The table of buffers.                                                      *)

(* What opening does to a table: entries stay, with their counters and names,   *)
(* and none becomes a zeroed one.                                             *)
Grown(ss, tt) ==
  /\ Len(ss) <= Len(tt)
  /\ \A b \in DOMAIN ss :
       /\ tt[b].edits = ss[b].edits /\ tt[b].version >= ss[b].version
       /\ ss[b].name # NoName => tt[b].name = ss[b].name
       /\ tt[b] = Zeroed => ss[b] = Zeroed

(* A table that stays has grown.                                              *)
LEMMA GrownSame ==
  ASSUME NEW ss \in Table
  PROVE  Grown(ss, ss)
<1>1. Len(ss) \in Nat /\ \A j \in DOMAIN ss : ss[j].version \in Nat
  BY LenProperties, ElementOfSeq DEF Table, SoundSlot, Slot
<1> QED
  BY <1>1 DEF Grown

(* One entry of a table is replaced.                                           *)
LEMMA ReplacedSlot ==
  ASSUME NEW ss \in Table, NEW i \in DOMAIN ss, NEW b \in SoundSlot
  PROVE  /\ [ss EXCEPT ![i] = b] \in Table
         /\ Len([ss EXCEPT ![i] = b]) = Len(ss)
         /\ DOMAIN [ss EXCEPT ![i] = b] = DOMAIN ss
         /\ [ss EXCEPT ![i] = b][i] = b
         /\ \A j \in DOMAIN ss : j # i => [ss EXCEPT ![i] = b][j] = ss[j]
<1>1. i \in 1 .. Len(ss) /\ DOMAIN ss = 1 .. Len(ss)
  BY LenProperties DEF Table
<1> QED
  BY <1>1, ExceptSeq, LenProperties DEF Table

(* The first entry that is free, or the one behind the last.                   *)
LEMMA NewSlotFree ==
  ASSUME NEW ss \in Table
  PROVE  /\ NewSlot(ss) \in 1 .. Len(ss) + 1
         /\ NewSlot(ss) <= Len(ss) => ss[NewSlot(ss)].name = NoName
<1> DEFINE free == {i \in DOMAIN ss : ss[i].name = NoName /\ ss[i].text = Empty}
<1>1. Len(ss) \in Nat /\ DOMAIN ss = 1 .. Len(ss)
  BY LenProperties DEF Table
<1>2. CASE free = {}
  <2>1. NewSlot(ss) = Len(ss) + 1
    BY <1>2 DEF NewSlot
  <2> QED
    BY <1>1, <2>1
<1>3. CASE free # {}
  <2>1. NewSlot(ss) = Min(free)
    BY <1>3 DEF NewSlot
  <2>2. free \in SUBSET Nat
    BY <1>1
  <2>3. Min(free) \in free
    <3> HIDE DEF free
    <3>1. \E x \in free : \A y \in free : x <= y
      BY <1>3, <2>2, LeastOf
    <3> QED
      BY <3>1 DEF Min
  <2> QED
    BY <1>1, <2>1, <2>3
<1> QED
  BY <1>2, <1>3

(* A new buffer (eddy_new_buffer).                                             *)
LEMMA NewBuffer ==
  ASSUME NEW ss \in Table
  PROVE  LET tt == eddy_new_buffer(ss)
             i == NewSlot(ss)
         IN  /\ tt \in Table /\ i \in DOMAIN tt /\ Grown(ss, tt)
             /\ tt[i].lines = TRUE /\ tt[i].name = NoName
             /\ i \in DOMAIN ss => ss[i].name = NoName
<1> DEFINE tt == eddy_new_buffer(ss)
           i == NewSlot(ss)
<1>1. Len(ss) \in Nat /\ DOMAIN ss = 1 .. Len(ss)
  BY LenProperties DEF Table
<1>2. i \in 1 .. Len(ss) + 1 /\ (i <= Len(ss) => ss[i].name = NoName)
  BY NewSlotFree
<1> HIDE DEF i
<1>3. CASE i > Len(ss)
  <2> DEFINE b == buffer_build_indices(Zeroed)
  <2>1. b \in SoundSlot /\ b.lines = TRUE /\ b.name = NoName
    <3>1. Zeroed.name = NoName
      BY DEF Zeroed
    <3> HIDE DEF b
    <3> QED
      BY <3>1, ZeroedSound, BuiltIndices DEF b
  <2>2. tt = Append(ss, b)
    BY <1>3 DEF eddy_new_buffer, i
  <2> HIDE DEF b, tt
  <2>3. /\ tt \in Table /\ Len(tt) = Len(ss) + 1
        /\ \A j \in 1 .. Len(ss) : tt[j] = ss[j]
        /\ tt[Len(ss) + 1] = b
    BY <2>1, <2>2, AppendProperties DEF Table
  <2>4. i = Len(ss) + 1 /\ DOMAIN tt = 1 .. Len(ss) + 1
    BY <1>1, <1>2, <1>3, <2>3, LenProperties DEF Table
  <2>5. Grown(ss, tt)
    <3>1. \A j \in DOMAIN ss : ss[j].version \in Nat
      BY ElementOfSeq DEF Table, SoundSlot, Slot
    <3> QED
      BY <1>1, <2>3, <3>1 DEF Grown
  <2> QED
    BY <1>1, <1>2, <2>1, <2>3, <2>4, <2>5 DEF tt, i
<1>4. CASE ~ (i > Len(ss))
  <2> DEFINE b == buffer_build_indices(ss[i])
  <2>1. i \in DOMAIN ss /\ ss[i] \in SoundSlot /\ ss[i].name = NoName
    BY <1>1, <1>2, <1>4, ElementOfSeq DEF Table
  <2>2. /\ b \in SoundSlot /\ b.lines = TRUE /\ b.name = NoName
        /\ b.edits = ss[i].edits /\ b.version = ss[i].version
    BY <2>1, BuiltIndices
  <2>3. tt = [ss EXCEPT ![i] = b]
    BY <1>4 DEF eddy_new_buffer, i
  <2> HIDE DEF b, tt
  <2>4. /\ tt \in Table /\ Len(tt) = Len(ss) /\ DOMAIN tt = DOMAIN ss
        /\ tt[i] = b /\ \A j \in DOMAIN ss : j # i => tt[j] = ss[j]
    BY <2>1, <2>2, <2>3, ReplacedSlot
  <2>5. Grown(ss, tt)
    <3>1. \A j \in DOMAIN ss : ss[j].version \in Nat
      BY ElementOfSeq DEF Table, SoundSlot, Slot
    <3>2. b # Zeroed
      BY <2>2, LinesNotZeroed
    <3> QED
      BY <1>1, <2>1, <2>2, <2>4, <3>1, <3>2 DEF Grown
  <2> QED
    BY <2>1, <2>2, <2>4, <2>5 DEF tt, i
<1> QED
  BY <1>3, <1>4

(* A table grows when an entry is replaced by one that says at least as much.   *)
LEMMA GrownReplaced ==
  ASSUME NEW ss \in Table, NEW i \in DOMAIN ss, NEW b \in SoundSlot,
         b.edits = ss[i].edits, b.version >= ss[i].version,
         ss[i].name # NoName => b.name = ss[i].name,
         b = Zeroed => ss[i] = Zeroed
  PROVE  Grown(ss, [ss EXCEPT ![i] = b])
<1> DEFINE tt == [ss EXCEPT ![i] = b]
<1>1. /\ Len(tt) = Len(ss) /\ Len(ss) \in Nat
      /\ tt[i] = b /\ \A j \in DOMAIN ss : j # i => tt[j] = ss[j]
  BY ReplacedSlot, LenProperties DEF Table
<1>2. \A j \in DOMAIN ss : ss[j].version \in Nat
  BY ElementOfSeq DEF Table, SoundSlot, Slot
<1> HIDE DEF tt
<1>3. Grown(ss, tt)
  BY <1>1, <1>2 DEF Grown
<1> QED
  BY <1>3 DEF tt

(* Growing twice is growing.                                                  *)
LEMMA GrownTwice ==
  ASSUME NEW ss \in Table, NEW tt \in Table, NEW uu \in Table, Grown(ss, tt), Grown(tt, uu)
  PROVE  Grown(ss, uu)
<1>1. /\ Len(ss) \in Nat /\ DOMAIN ss = 1 .. Len(ss)
      /\ Len(tt) \in Nat /\ DOMAIN tt = 1 .. Len(tt)
      /\ Len(uu) \in Nat /\ DOMAIN uu = 1 .. Len(uu)
  BY LenProperties DEF Table
<1>2. Len(ss) <= Len(uu) /\ \A b \in DOMAIN ss : b \in DOMAIN tt /\ b \in DOMAIN uu
  BY <1>1 DEF Grown
<1>3. ASSUME NEW b \in DOMAIN ss
      PROVE  /\ uu[b].edits = ss[b].edits /\ uu[b].version >= ss[b].version
             /\ ss[b].name # NoName => uu[b].name = ss[b].name
             /\ uu[b] = Zeroed => ss[b] = Zeroed
  <2>1. b \in DOMAIN tt /\ b \in DOMAIN uu
    BY <1>2
  <2>2. ss[b].version \in Nat /\ tt[b].version \in Nat /\ uu[b].version \in Nat
    BY <2>1, ElementOfSeq DEF Table, SoundSlot, Slot
  <2>3. uu[b].edits = ss[b].edits /\ uu[b].version >= ss[b].version
    BY <2>1, <2>2 DEF Grown
  <2>4. ss[b].name # NoName => uu[b].name = ss[b].name
    BY <2>1 DEF Grown
  <2>5. uu[b] = Zeroed => ss[b] = Zeroed
    BY <2>1 DEF Grown
  <2> QED
    BY <2>3, <2>4, <2>5
<1> QED
  BY <1>2, <1>3 DEF Grown

(* A table that grows keeps its names.                                        *)
LEMMA GrownNames ==
  ASSUME NEW ss \in Table, NEW tt \in Table, Grown(ss, tt)
  PROVE  NamesIn(ss) \subseteq NamesIn(tt)
<1>1. /\ Len(ss) \in Nat /\ DOMAIN ss = 1 .. Len(ss)
      /\ Len(tt) \in Nat /\ DOMAIN tt = 1 .. Len(tt)
  BY LenProperties DEF Table
<1>2. \A b \in DOMAIN ss : b \in DOMAIN tt
  BY <1>1 DEF Grown
<1> QED
  BY <1>2 DEF NamesIn, Grown

(* And its views stay good.                                                   *)
LEMMA GrownViews ==
  ASSUME NEW ss \in Table, NEW tt \in Table, Grown(ss, tt), NEW vs, ViewsGood(ss, vs)
  PROVE  ViewsGood(tt, vs)
<1>1. /\ Len(ss) \in Nat /\ DOMAIN ss = 1 .. Len(ss)
      /\ Len(tt) \in Nat /\ DOMAIN tt = 1 .. Len(tt)
  BY LenProperties DEF Table
<1>2. \A b \in DOMAIN ss : b \in DOMAIN tt
  BY <1>1 DEF Grown
<1>3. ASSUME NEW v \in DOMAIN vs, vs[v] # Hole
      PROVE  /\ vs[v] \in DOMAIN tt
             /\ tt[vs[v]].edits < tt[vs[v]].version
             /\ \A w \in DOMAIN vs : vs[w] = vs[v] => w = v
  <2> DEFINE b == vs[v]
  <2>1. b \in DOMAIN ss /\ ss[b].edits < ss[b].version
    BY <1>3 DEF ViewsGood
  <2>2. b \in DOMAIN tt
    BY <1>2, <2>1
  <2>3. \A w \in DOMAIN vs : vs[w] = b => w = v
    BY <1>3 DEF ViewsGood
  <2> HIDE DEF b
  <2>4. ss[b].version \in Nat /\ ss[b].edits \in Nat /\ tt[b].version \in Nat
    BY <2>1, <2>2, ElementOfSeq DEF Table, SoundSlot, Slot
  <2>5. tt[b].edits < tt[b].version
    BY <2>1, <2>4 DEF Grown
  <2> QED
    BY <2>2, <2>3, <2>5 DEF b
<1> QED
  BY <1>3 DEF ViewsGood

(* What opening a file leaves (eddy_open_buffer): an entry of its name.         *)
OpensWell(ss, n, o) ==
  /\ o.slots \in Table /\ Grown(ss, o.slots)
  /\ o.ix \in DOMAIN o.slots /\ o.slots[o.ix].name = n

LEMMA OpenBuffer ==
  ASSUME NEW ss \in Table, NEW n \in Name, disk \in [Name -> Text \cup {Missing}]
  PROVE  OpensWell(ss, n, eddy_open_buffer(ss, n))
<1> DEFINE named == {i \in DOMAIN ss : ss[i].name = n}
           i == NewSlot(ss)
           new == eddy_new_buffer(ss)
<1>1. Len(ss) \in Nat /\ DOMAIN ss = 1 .. Len(ss)
  BY LenProperties DEF Table
<1>2. CASE named # {}
  <2> DEFINE m == Min(named)
             b == buffer_build_indices(ss[m])
             tt == [ss EXCEPT ![m] = b]
  <2>1. m \in named
    <3>1. named \in SUBSET Nat
      BY <1>1
    <3> HIDE DEF named
    <3>2. \E x \in named : \A y \in named : x <= y
      BY <1>2, <3>1, LeastOf
    <3> QED
      BY <3>2 DEF Min
  <2>2. eddy_open_buffer(ss, n) = [slots |-> tt, ix |-> m, ok |-> TRUE]
    BY <1>2 DEF eddy_open_buffer
  <2>3. m \in DOMAIN ss /\ ss[m].name = n
    BY <2>1
  <2> HIDE DEF m, named
  <2>4. ss[m] \in SoundSlot
    BY <2>3, ElementOfSeq DEF Table
  <2>5. /\ b \in SoundSlot /\ b.lines = TRUE /\ b.name = n
        /\ b.edits = ss[m].edits /\ b.version = ss[m].version
    BY <2>3, <2>4, BuiltIndices
  <2>6. b # Zeroed /\ b.version \in Nat
    BY <2>5, LinesNotZeroed DEF SoundSlot, Slot
  <2> HIDE DEF b
  <2>7. tt \in Table /\ DOMAIN tt = DOMAIN ss /\ tt[m] = b
    BY <2>3, <2>5, ReplacedSlot
  <2>8. Grown(ss, tt)
    BY <2>3, <2>5, <2>6, GrownReplaced
  <2> HIDE DEF tt
  <2> QED
    BY <2>2, <2>3, <2>5, <2>7, <2>8 DEF OpensWell
<1>3. CASE named = {}
  <2>1. /\ new \in Table /\ i \in DOMAIN new /\ Grown(ss, new)
        /\ new[i].lines = TRUE /\ new[i].name = NoName
    BY NewBuffer
  <2> DEFINE b == IF disk[n] = Missing THEN OpenFails(new[i], n) ELSE buffer_open(new[i], n)
             tt == [new EXCEPT ![i] = b]
  <2>2. \E ok : eddy_open_buffer(ss, n) = [slots |-> tt, ix |-> i, ok |-> ok]
    <3>1. CASE disk[n] = Missing
      BY <1>3, <3>1 DEF eddy_open_buffer
    <3>2. CASE disk[n] # Missing
      BY <1>3, <3>2 DEF eddy_open_buffer
    <3> QED
      BY <3>1, <3>2
  <2> HIDE DEF new, i, named
  <2>3. new[i] \in SoundSlot
    BY <2>1, ElementOfSeq DEF Table
  <2>4. /\ b \in SoundSlot /\ b.lines = TRUE /\ b.name = n
        /\ b.edits = new[i].edits /\ b.version = new[i].version
    <3>1. CASE disk[n] = Missing
      BY <2>1, <2>3, <3>1, OpenedSlot
    <3>2. CASE disk[n] # Missing
      BY <2>1, <2>3, <3>2, OpenedSlot
    <3> QED
      BY <3>1, <3>2
  <2>5. b # Zeroed /\ b.version \in Nat
    BY <2>4, LinesNotZeroed DEF SoundSlot, Slot
  <2> HIDE DEF b
  <2>6. tt \in Table /\ DOMAIN tt = DOMAIN new /\ tt[i] = b
    BY <2>1, <2>4, ReplacedSlot
  <2>7. Grown(new, tt)
    BY <2>1, <2>4, <2>5, GrownReplaced
  <2> HIDE DEF tt
  <2>8. Grown(ss, tt)
    BY <2>1, <2>6, <2>7, GrownTwice
  <2> QED
    BY <2>1, <2>2, <2>4, <2>6, <2>8 DEF OpensWell
<1> QED
  BY <1>2, <1>3

-----------------------------------------------------------------------------
(* The table of views.                                                        *)

(* The editor as the operations take it, and what they make of it.             *)
Editor(ss, vs, c) == [slots |-> ss, views |-> vs, current |-> c, misstep |-> "none"]

GoodEditor(ss, e) ==
  /\ e = Editor(e.slots, e.views, e.current)
  /\ e.slots \in Table /\ Grown(ss, e.slots)
  /\ ViewsGood(e.slots, e.views) /\ CurrentGood(e.views, e.current)

(* The least and the greatest of some numbers are among them.                  *)
LEMMA LeastMember ==
  ASSUME NEW S \in SUBSET Nat, S # {}
  PROVE  Min(S) \in S
<1>1. \E x \in S : \A y \in S : x <= y
  BY LeastOf
<1> QED
  BY <1>1 DEF Min

LEMMA GreatestMember ==
  ASSUME NEW n \in Nat, NEW S \in SUBSET (0 .. n), S # {}
  PROVE  Max(S) \in S
<1>1. \E x \in S : \A y \in S : y <= x
  BY GreatestOf
<1>2. \E x \in S : \A y \in S : x >= y
  BY <1>1
<1> QED
  BY <1>2 DEF Max

(* The version of a buffer that gets a view is bumped.                         *)
Bumped(ss, b) == [ss EXCEPT ![b] = [ss[b] EXCEPT !.version = ss[b].version + 1]]

LEMMA BumpedTable ==
  ASSUME NEW ss \in Table, NEW b \in DOMAIN ss
  PROVE  /\ Bumped(ss, b) \in Table /\ Grown(ss, Bumped(ss, b))
         /\ Len(Bumped(ss, b)) = Len(ss) /\ DOMAIN Bumped(ss, b) = DOMAIN ss
         /\ Bumped(ss, b)[b].edits < Bumped(ss, b)[b].version
<1> DEFINE x == [ss[b] EXCEPT !.version = @ + 1]
<1>1. ss[b] \in SoundSlot
  BY ElementOfSeq DEF Table
<1>2. /\ x \in SoundSlot /\ x.edits = ss[b].edits /\ x.name = ss[b].name
      /\ x.version = ss[b].version + 1 /\ ss[b].version \in Nat /\ ss[b].edits \in Nat
      /\ ss[b].edits <= ss[b].version
  BY <1>1 DEF SoundSlot, Slot
<1>3. Bumped(ss, b) = [ss EXCEPT ![b] = x]
  BY DEF Bumped
<1> HIDE DEF x
<1>4. x # Zeroed
  <2>1. Zeroed.version = 0
    BY DEF Zeroed
  <2> QED
    BY <1>2, <2>1
<1> DEFINE tt == [ss EXCEPT ![b] = x]
<1>5. Grown(ss, tt)
  <2>1. x \in SoundSlot /\ x.version >= ss[b].version
    BY <1>2
  <2> QED
    BY <1>2, <1>4, <2>1, GrownReplaced
<1>6. tt \in Table /\ tt[b] = x /\ Len(tt) = Len(ss) /\ DOMAIN tt = DOMAIN ss
  BY <1>2, ReplacedSlot
<1>7. x.edits < x.version
  BY <1>2
<1> HIDE DEF tt
<1> QED
  BY <1>3, <1>5, <1>6, <1>7 DEF tt

(* Showing a buffer (editor_select_buffer), when no hole is taken for it: it     *)
(* becomes the one shown, and the other views stay.                           *)
Selects(ss, vs, b, r) ==
  /\ GoodEditor(ss, r)
  /\ r.views[r.current] = b
  /\ \A v \in DOMAIN r.views : v # r.current => v \in DOMAIN vs /\ r.views[v] = vs[v]

LEMMA SelectBuffer ==
  ASSUME NEW ss \in Table, NEW vs, NEW c \in Nat, ViewsGood(ss, vs), NEW b \in DOMAIN ss,
         editor_select_buffer(Editor(ss, vs, c), b).misstep = "none"
  PROVE  Selects(ss, vs, b, editor_select_buffer(Editor(ss, vs, c), b))
<1> DEFINE e == Editor(ss, vs, c)
           r == editor_select_buffer(e, b)
           showing == {v \in DOMAIN vs : vs[v] = b}
           holes == {v \in DOMAIN vs : vs[v] = Hole}
           tt == Bumped(ss, b)
<1>1. /\ Len(ss) \in Nat /\ DOMAIN ss = 1 .. Len(ss)
      /\ vs \in Seq(Nat) /\ Len(vs) \in Nat /\ DOMAIN vs = 1 .. Len(vs)
  BY LenProperties DEF Table, ViewsGood
<1>2. b \in Nat /\ b # Hole
  BY <1>1 DEF Hole
<1>3. e.slots = ss /\ e.views = vs /\ e.current = c /\ e.misstep = "none"
  BY DEF Editor
<1>4. CASE showing # {}
  <2>1. Min(showing) \in showing
    <3>1. showing \in SUBSET Nat
      BY <1>1
    <3> HIDE DEF showing
    <3> QED
      BY <1>4, <3>1, LeastMember
  <2>2. r = Editor(ss, vs, Min(showing))
    BY <1>3, <1>4 DEF editor_select_buffer, editor_select_view, Editor
  <2>3. PICK d : d = Min(showing)
    OBVIOUS
  <2>4. d \in DOMAIN vs /\ vs[d] = b
    BY <2>1, <2>3
  <2>5. r.slots = ss /\ r.views = vs /\ r.current = d /\ r = Editor(ss, vs, d)
    BY <2>2, <2>3 DEF Editor
  <2>6. Grown(ss, ss)
    BY GrownSame
  <2>7. CurrentGood(vs, d)
    BY <1>2, <2>4 DEF CurrentGood
  <2> HIDE DEF r
  <2>8. GoodEditor(ss, r)
    BY <2>5, <2>6, <2>7 DEF GoodEditor
  <2> QED
    BY <2>4, <2>5, <2>8 DEF Selects, r
<1>5. CASE showing = {} /\ holes # {}
  <2>1. r.misstep = "hole"
    BY <1>3, <1>5 DEF editor_select_buffer, Editor
  <2> QED
    BY <2>1
<1>6. CASE showing = {} /\ holes = {}
  <2> DEFINE us == Append(vs, b)
             d == Len(vs) + 1
  <2>1. r = Editor(tt, us, d)
    BY <1>3, <1>6 DEF editor_select_buffer, Editor, Bumped
  <2>2. /\ tt \in Table /\ Grown(ss, tt) /\ DOMAIN tt = DOMAIN ss
        /\ tt[b].edits < tt[b].version
    BY BumpedTable
  <2>3. /\ us \in Seq(Nat) /\ Len(us) = d /\ us[d] = b
        /\ \A v \in 1 .. Len(vs) : us[v] = vs[v]
    BY <1>1, <1>2, AppendProperties
  <2>4. DOMAIN us = 1 .. d
    BY <2>3, LenProperties
  <2>5. \A v \in DOMAIN us : v # d => v \in DOMAIN vs /\ us[v] = vs[v]
    BY <1>1, <2>3, <2>4
  <2>6. ViewsGood(tt, vs)
    BY <2>2, GrownViews
  <2>7. d \in DOMAIN us
    BY <1>1, <2>4
  <2> HIDE DEF us, d, tt
  <2>8. \A v \in DOMAIN vs : vs[v] # b
    BY <1>6
  <2>9. ASSUME NEW v \in DOMAIN us, us[v] # Hole
        PROVE  /\ us[v] \in DOMAIN tt
               /\ tt[us[v]].edits < tt[us[v]].version
               /\ \A w \in DOMAIN us : us[w] = us[v] => w = v
    <3>1. CASE v = d
      BY <2>2, <2>3, <2>5, <2>8, <3>1
    <3>2. CASE v # d
      <4>1. v \in DOMAIN vs /\ us[v] = vs[v]
        BY <2>5, <3>2
      <4>2. vs[v] \in DOMAIN tt /\ tt[vs[v]].edits < tt[vs[v]].version
        BY <2>6, <2>9, <4>1 DEF ViewsGood
      <4>3. ASSUME NEW w \in DOMAIN us, us[w] = us[v] PROVE w = v
        <5>1. w # d
          BY <2>3, <2>8, <4>1, <4>3
        <5>2. w \in DOMAIN vs /\ us[w] = vs[w]
          BY <2>5, <5>1
        <5> QED
          BY <2>6, <2>9, <4>1, <4>3, <5>2 DEF ViewsGood
      <4> QED
        BY <4>1, <4>2, <4>3
    <3> QED
      BY <3>1, <3>2
  <2>10. ViewsGood(tt, us)
    BY <2>3, <2>9 DEF ViewsGood
  <2>11. CurrentGood(us, d)
    BY <1>2, <2>3, <2>7 DEF CurrentGood
  <2>12. r.slots = tt /\ r.views = us /\ r.current = d
    BY <2>1 DEF Editor
  <2> HIDE DEF r
  <2>13. GoodEditor(ss, r)
    BY <2>1, <2>2, <2>10, <2>11, <2>12 DEF GoodEditor
  <2> QED
    BY <2>3, <2>5, <2>12, <2>13 DEF Selects, r
<1> QED
  BY <1>4, <1>5, <1>6

(* A new buffer and its view (editor_new).                                     *)
LEMMA EditorNew ==
  ASSUME NEW ss \in Table, NEW vs, NEW c \in Nat, ViewsGood(ss, vs),
         editor_new(Editor(ss, vs, c)).misstep = "none"
  PROVE  LET r == editor_new(Editor(ss, vs, c))
         IN  /\ GoodEditor(ss, r)
             /\ \A v \in DOMAIN r.views : v # r.current => v \in DOMAIN vs /\ r.views[v] = vs[v]
<1> DEFINE tt == eddy_new_buffer(ss)
           b == NewSlot(ss)
           r == editor_new(Editor(ss, vs, c))
<1>1. tt \in Table /\ b \in DOMAIN tt /\ Grown(ss, tt)
  BY NewBuffer
<1>2. r = editor_select_buffer(Editor(tt, vs, c), b)
  BY DEF editor_new, Editor
<1> HIDE DEF tt, b
<1>3. ViewsGood(tt, vs)
  BY <1>1, GrownViews
<1>4. Selects(tt, vs, b, r)
  <2>1. editor_select_buffer(Editor(tt, vs, c), b).misstep = "none"
    BY <1>2
  <2> HIDE DEF r
  <2> QED
    BY <1>1, <1>2, <1>3, <2>1, SelectBuffer
<1> HIDE DEF r
<1>5. GoodEditor(tt, r)
  BY <1>4 DEF Selects
<1>6. Grown(ss, r.slots)
  BY <1>1, <1>5, GrownTwice DEF GoodEditor
<1>7. GoodEditor(ss, r)
  BY <1>5, <1>6 DEF GoodEditor
<1> QED
  BY <1>4, <1>7 DEF Selects, r

(* The views that are left when the current one is closed: none of them shows    *)
(* its buffer.                                                                *)
Without(vs, c) == IF c = Len(vs) THEN Front(vs) ELSE [vs EXCEPT ![c] = Hole]

LEMMA ViewsWithout ==
  ASSUME NEW ss \in Table, NEW vs, NEW c, ViewsGood(ss, vs), CurrentGood(vs, c)
  PROVE  /\ ViewsGood(ss, Without(vs, c))
         /\ \A v \in DOMAIN Without(vs, c) :
              Without(vs, c)[v] # vs[c] /\ (Without(vs, c)[v] # Hole => v # c)
<1> DEFINE us == Without(vs, c)
<1>1. /\ vs \in Seq(Nat) /\ Len(vs) \in Nat /\ DOMAIN vs = 1 .. Len(vs)
      /\ c \in DOMAIN vs /\ vs[c] # Hole
  BY LenProperties DEF ViewsGood, CurrentGood
<1>2. \A v \in DOMAIN vs : vs[v] \in Nat
  BY <1>1, ElementOfSeq
<1>3. /\ us \in Seq(Nat)
      /\ \A v \in DOMAIN us :
           v \in DOMAIN vs /\ (v = c => us[v] = Hole) /\ (v # c => us[v] = vs[v])
  <2>1. CASE c = Len(vs)
    <3> DEFINE m == Len(vs) - 1
    <3>1. us = SubSeq(vs, 1, m)
      BY <2>1 DEF Without, Front
    <3>2. 1 \in Int /\ m \in Int /\ \A i \in 1 .. m : vs[i] \in Nat
      BY <1>1, <1>2
    <3>3. m \in Nat
      BY <1>1
    <3> HIDE DEF m
    <3>4. /\ SubSeq(vs, 1, m) \in Seq(Nat)
          /\ Len(SubSeq(vs, 1, m)) = IF 1 <= m THEN m - 1 + 1 ELSE 0
          /\ \A i \in 1 .. m - 1 + 1 : SubSeq(vs, 1, m)[i] = vs[1 + i - 1]
      BY <3>2, SubSeqProperties
    <3> HIDE DEF us
    <3>5. us \in Seq(Nat) /\ Len(us) = m /\ \A i \in 1 .. m : us[i] = vs[i]
      BY <3>1, <3>3, <3>4
    <3>6. DOMAIN us = 1 .. m
      BY <3>5, LenProperties
    <3> QED
      BY <1>1, <2>1, <3>5, <3>6 DEF m
  <2>2. CASE c # Len(vs)
    <3>1. us = [vs EXCEPT ![c] = Hole]
      BY <2>2 DEF Without
    <3>2. Hole \in Nat
      BY DEF Hole
    <3> HIDE DEF us
    <3> QED
      BY <1>1, <3>1, <3>2, ExceptSeq
  <2> QED
    BY <2>1, <2>2
<1> HIDE DEF us
<1>4. \A v \in DOMAIN us : us[v] # vs[c] /\ (us[v] # Hole => v # c)
  BY <1>1, <1>3 DEF ViewsGood
<1>5. ASSUME NEW v \in DOMAIN us, us[v] # Hole
      PROVE  /\ us[v] \in DOMAIN ss
             /\ ss[us[v]].edits < ss[us[v]].version
             /\ \A w \in DOMAIN us : us[w] = us[v] => w = v
  <2>1. v \in DOMAIN vs /\ us[v] = vs[v] /\ vs[v] # Hole
    BY <1>3, <1>5
  <2>2. \A w \in DOMAIN us : us[w] = us[v] => w \in DOMAIN vs /\ vs[w] = vs[v]
    BY <1>3, <1>5, <2>1
  <2> QED
    BY <2>1, <2>2 DEF ViewsGood
<1>6. ViewsGood(ss, us)
  BY <1>3, <1>5 DEF ViewsGood
<1> QED
  BY <1>4, <1>6 DEF us

(* Closing the current view (editor_close_view), when no hole is taken for the   *)
(* one that follows it: another view becomes current, and of the others none      *)
(* shows the buffer.                                                          *)
Closes(ss, vs, c, r) ==
  /\ GoodEditor(ss, r)
  /\ \A v \in DOMAIN r.views : v # r.current => r.views[v] # vs[c]

LEMMA CloseView ==
  ASSUME NEW ss \in Table, NEW vs, NEW c, ViewsGood(ss, vs), CurrentGood(vs, c),
         editor_close_view(Editor(ss, vs, c)).misstep = "none"
  PROVE  Closes(ss, vs, c, editor_close_view(Editor(ss, vs, c)))
<1> DEFINE us == Without(vs, c)
           closed == Editor(ss, us, c)
           before == Before(closed)
           after == After(closed)
           r == editor_close_view(Editor(ss, vs, c))
<1>1. ViewsGood(ss, us) /\ \A v \in DOMAIN us : us[v] # vs[c] /\ (us[v] # Hole => v # c)
  BY ViewsWithout
<1>2. c \in Nat
  <2>1. DOMAIN vs = 1 .. Len(vs) /\ Len(vs) \in Nat /\ c \in DOMAIN vs
    BY LenProperties DEF ViewsGood, CurrentGood
  <2> QED
    BY <2>1
<1>3. Len(us) \in Nat /\ DOMAIN us = 1 .. Len(us)
  <2>1. us \in Seq(Nat)
    BY <1>1 DEF ViewsGood
  <2> HIDE DEF us
  <2> QED
    BY <2>1, LenProperties
<1>4. /\ closed.slots = ss /\ closed.views = us /\ closed.current = c
      /\ \A d : editor_select_view(closed, d) = Editor(ss, us, d)
  BY DEF Editor, editor_select_view
<1>5. /\ before \in SUBSET (0 .. Len(us)) /\ after \in SUBSET Nat
      /\ \A v \in before \cup after : v \in DOMAIN us /\ us[v] # Hole /\ v # c
  <2> HIDE DEF us
  <2> QED
    BY <1>2, <1>3, <1>4 DEF Before, After
<1>6. r = LET prev == editor_select_prev(closed)
              next == IF prev.current = c THEN editor_select_next(closed) ELSE prev
          IN  IF next.current = c THEN editor_new(closed) ELSE next
  BY DEF editor_close_view, Editor, Without
<1> HIDE DEF r
<1>7. ASSUME NEW d, r = Editor(ss, us, d), d \in DOMAIN us, us[d] # Hole
      PROVE  Closes(ss, vs, c, r)
  <2>1. r.slots = ss /\ r.views = us /\ r.current = d
    BY <1>7 DEF Editor
  <2> HIDE DEF us
  <2>2. Grown(ss, ss)
    BY GrownSame
  <2> QED
    BY <1>1, <1>7, <2>1, <2>2 DEF Closes, GoodEditor, CurrentGood
<1> HIDE DEF closed
<1>8. CASE before # {}
  <2>1. editor_select_prev(closed) = Editor(ss, us, Max(before))
    BY <1>4, <1>8 DEF editor_select_prev
  <2> HIDE DEF us, before
  <2>2. Max(before) \in before
    BY <1>3, <1>5, <1>8, GreatestMember
  <2>3. PICK d : d = Max(before)
    OBVIOUS
  <2>4. d \in DOMAIN us /\ us[d] # Hole /\ d # c
    BY <1>5, <2>2, <2>3
  <2>5. Editor(ss, us, d).current = d
    BY DEF Editor
  <2>6. r = Editor(ss, us, d)
    BY <1>6, <2>1, <2>3, <2>4, <2>5
  <2> QED
    BY <1>7, <2>4, <2>6 DEF r
<1>9. CASE before = {} /\ after # {}
  <2>1. editor_select_prev(closed) = closed
    BY <1>9 DEF editor_select_prev
  <2>2. editor_select_next(closed) = Editor(ss, us, Min(after))
    BY <1>4, <1>9 DEF editor_select_next
  <2> HIDE DEF us, after
  <2>3. Min(after) \in after
    BY <1>5, <1>9, LeastMember
  <2>4. PICK d : d = Min(after)
    OBVIOUS
  <2>5. d \in DOMAIN us /\ us[d] # Hole /\ d # c
    BY <1>5, <2>3, <2>4
  <2>6. Editor(ss, us, d).current = d
    BY DEF Editor
  <2>7. r = Editor(ss, us, d)
    BY <1>4, <1>6, <2>1, <2>2, <2>4, <2>5, <2>6
  <2> QED
    BY <1>7, <2>5, <2>7 DEF r
<1>10. CASE before = {} /\ after = {}
  <2>1. editor_select_prev(closed) = closed /\ editor_select_next(closed) = closed
    BY <1>10 DEF editor_select_prev, editor_select_next
  <2>2. r = editor_new(closed)
    BY <1>4, <1>6, <2>1
  <2>3. r = editor_new(Editor(ss, us, c))
    BY <2>2 DEF closed
  <2> HIDE DEF us
  <2>4. editor_new(Editor(ss, us, c)).misstep = "none"
    BY <2>3 DEF r
  <2>5. /\ GoodEditor(ss, r)
        /\ \A v \in DOMAIN r.views : v # r.current => v \in DOMAIN us /\ r.views[v] = us[v]
    BY <1>1, <1>2, <2>3, <2>4, EditorNew
  <2> QED
    BY <1>1, <2>5 DEF Closes, r
<1> QED
  BY <1>8, <1>9, <1>10 DEF r

(* Every operation leaves the four fields of the editor.                       *)
HasFields(r) ==
  r = [slots |-> r.slots, views |-> r.views, current |-> r.current, misstep |-> r.misstep]

LEMMA SelectedFields ==
  ASSUME NEW ss, NEW vs, NEW c, NEW b
  PROVE  HasFields(editor_select_buffer(Editor(ss, vs, c), b))
<1> DEFINE e == Editor(ss, vs, c)
           r == editor_select_buffer(e, b)
           showing == {v \in DOMAIN vs : vs[v] = b}
           holes == {v \in DOMAIN vs : vs[v] = Hole}
<1>1. CASE showing # {}
  BY <1>1 DEF editor_select_buffer, editor_select_view, Editor, HasFields
<1>2. CASE showing = {} /\ holes # {}
  BY <1>2 DEF editor_select_buffer, Editor, HasFields
<1>3. CASE showing = {} /\ holes = {}
  BY <1>3 DEF editor_select_buffer, Editor, HasFields
<1> QED
  BY <1>1, <1>2, <1>3

LEMMA ClosedFields ==
  ASSUME NEW ss, NEW vs, NEW c
  PROVE  HasFields(editor_close_view(Editor(ss, vs, c)))
<1> DEFINE closed == Editor(ss, Without(vs, c), c)
           r == editor_close_view(Editor(ss, vs, c))
<1>1. r = LET prev == editor_select_prev(closed)
              next == IF prev.current = c THEN editor_select_next(closed) ELSE prev
          IN  IF next.current = c THEN editor_new(closed) ELSE next
  BY DEF editor_close_view, Editor, Without
<1>2. HasFields(closed) /\ \A d : HasFields(editor_select_view(closed, d))
  BY DEF HasFields, Editor, editor_select_view
<1>3. HasFields(editor_select_prev(closed)) /\ HasFields(editor_select_next(closed))
  <2> HIDE DEF closed
  <2> QED
    BY <1>2 DEF editor_select_prev, editor_select_next
<1>4. HasFields(editor_new(closed))
  <2> DEFINE b == NewSlot(ss)
             tt == eddy_new_buffer(ss)
             us == Without(vs, c)
  <2>1. editor_new(closed) = editor_select_buffer(Editor(tt, us, c), b)
    BY DEF editor_new, Editor
  <2> HIDE DEF b, tt, us, closed
  <2> QED
    BY <2>1, SelectedFields
<1> HIDE DEF closed, r
<1> QED
  BY <1>1, <1>3, <1>4 DEF r

(* Closing the buffer that is shown, and its view (editor_close_buffer), when no  *)
(* hole is taken and the buffer is not the one shown next: its entry is zeroed,   *)
(* and no other.                                                              *)
ClosesBuffer(ss, b, r) ==
  /\ r = Editor(r.slots, r.views, r.current)
  /\ r.slots \in Table /\ ViewsGood(r.slots, r.views) /\ CurrentGood(r.views, r.current)
  /\ \A i \in DOMAIN ss : i # b /\ r.slots[i] = Zeroed => ss[i] = Zeroed

LEMMA CloseBuffer ==
  ASSUME NEW ss \in Table, NEW vs, NEW c, ViewsGood(ss, vs), CurrentGood(vs, c),
         editor_close_buffer(Editor(ss, vs, c)).misstep = "none"
  PROVE  ClosesBuffer(ss, vs[c], editor_close_buffer(Editor(ss, vs, c)))
<1> DEFINE x == editor_close_view(Editor(ss, vs, c))
           b == vs[c]
           tt == [x.slots EXCEPT ![b] = Zeroed]
           r == editor_close_buffer(Editor(ss, vs, c))
<1>1. r = eddy_close_buffer(x, b)
  BY DEF editor_close_buffer, Editor
<1>2. HasFields(x)
  BY ClosedFields
<1>3. /\ x.views[x.current] # b
      /\ x.misstep = "none"
      /\ r = Editor(tt, x.views, x.current)
  <2>1. PICK s, v, d, m : x = [slots |-> s, views |-> v, current |-> d, misstep |-> m]
    BY <1>2 DEF HasFields
  <2>2. r.misstep = "none"
    OBVIOUS
  <2> HIDE DEF x, b, r
  <2>3. r = [slots |-> [s EXCEPT ![b] = Zeroed], views |-> v, current |-> d,
             misstep |-> IF m = "none" /\ v[d] = b THEN "zeroed" ELSE m]
    BY <1>1, <2>1 DEF eddy_close_buffer
  <2>4. m = "none" /\ v[d] # b
    BY <2>2, <2>3
  <2> QED
    BY <2>1, <2>3, <2>4 DEF Editor
<1>4. Closes(ss, vs, c, x)
  <2>1. editor_close_view(Editor(ss, vs, c)).misstep = "none"
    BY <1>3
  <2> HIDE DEF x
  <2> QED
    BY <2>1, CloseView DEF x
<1>5. b \in DOMAIN ss
  BY DEF ViewsGood, CurrentGood
<1> HIDE DEF x, r
<1>6. /\ x.slots \in Table /\ Grown(ss, x.slots)
      /\ ViewsGood(x.slots, x.views) /\ CurrentGood(x.views, x.current)
      /\ \A v \in DOMAIN x.views : x.views[v] # b
  BY <1>3, <1>4 DEF Closes, GoodEditor
<1>7. /\ Len(ss) \in Nat /\ DOMAIN ss = 1 .. Len(ss)
      /\ Len(x.slots) \in Nat /\ DOMAIN x.slots = 1 .. Len(x.slots)
  BY <1>6, LenProperties DEF Table
<1>8. \A i \in DOMAIN ss : i \in DOMAIN x.slots
  BY <1>6, <1>7 DEF Grown
<1> HIDE DEF b
<1>9. /\ tt \in Table /\ DOMAIN tt = DOMAIN x.slots
      /\ \A j \in DOMAIN x.slots : j # b => tt[j] = x.slots[j]
  BY <1>5, <1>6, <1>8, ZeroedSound, ReplacedSlot
<1> HIDE DEF tt
<1>10. ViewsGood(tt, x.views)
  <2>1. ASSUME NEW v \in DOMAIN x.views, x.views[v] # Hole
        PROVE  /\ x.views[v] \in DOMAIN tt
               /\ tt[x.views[v]].edits < tt[x.views[v]].version
               /\ \A w \in DOMAIN x.views : x.views[w] = x.views[v] => w = v
    <3>1. /\ x.views[v] \in DOMAIN x.slots /\ x.views[v] # b
          /\ x.slots[x.views[v]].edits < x.slots[x.views[v]].version
          /\ \A w \in DOMAIN x.views : x.views[w] = x.views[v] => w = v
      BY <1>6, <2>1 DEF ViewsGood
    <3> QED
      BY <1>9, <3>1
  <2> QED
    BY <1>6, <2>1 DEF ViewsGood
<1>11. \A i \in DOMAIN ss : i # b /\ tt[i] = Zeroed => ss[i] = Zeroed
  BY <1>6, <1>8, <1>9 DEF Grown
<1>12. r.slots = tt /\ r.views = x.views /\ r.current = x.current
  BY <1>3 DEF Editor
<1>13. r = Editor(r.slots, r.views, r.current)
  BY <1>3, <1>12
<1>14. ClosesBuffer(ss, b, r)
  BY <1>6, <1>9, <1>10, <1>11, <1>12, <1>13 DEF ClosesBuffer
<1> QED
  BY <1>14 DEF b, r

-----------------------------------------------------------------------------
(* Opening one file after the other, and the names that a quit saves.  Both are  *)
(* recursive functions; that there are such functions is lemma ComputedUpTo.    *)

(* Opened is what its recursion says.                                          *)
LEMMA OpenedDef ==
  ASSUME NEW ss \in Table, NEW files \in Seq(Name), disk \in [Name -> Text \cup {Missing}]
  PROVE  Opened(ss, files) =
           [i \in 0 .. Len(files) |->
              IF i = 0 THEN ss ELSE eddy_open_buffer(Opened(ss, files)[i - 1], files[i]).slots]
<1> DEFINE n == Len(files)
           opens == [p \in Nat \X Table |->
                       IF p[1] \in 1 .. n THEN eddy_open_buffer(p[2], files[p[1]]).slots ELSE p[2]]
<1>1. n \in Nat /\ \A i \in 1 .. n : files[i] \in Name
  BY LenProperties, ElementOfSeq
<1>2. opens \in [Nat \X Table -> Table]
  <2>1. \A tt \in Table : \A m \in Name : eddy_open_buffer(tt, m).slots \in Table
    BY OpenBuffer DEF OpensWell
  <2> HIDE DEF n
  <2> QED
    BY <1>1, <2>1
<1>3. PICK h : Computes(h, n, Table, ss, opens)
  <2> HIDE DEF n, opens
  <2> QED
    BY <1>1, <1>2, ComputedUpTo
<1>4. \A i \in 1 .. n : h[i] = eddy_open_buffer(h[i - 1], files[i]).slots
  <2> SUFFICES ASSUME NEW i \in 1 .. n PROVE h[i] = eddy_open_buffer(h[i - 1], files[i]).slots
    OBVIOUS
  <2>1. i \in Nat /\ i - 1 \in 0 .. n /\ h[i - 1] \in Table
    BY <1>1, <1>3 DEF Computes
  <2>2. opens[<<i, h[i - 1]>>] = eddy_open_buffer(h[i - 1], files[i]).slots
    BY <2>1
  <2> HIDE DEF opens
  <2> QED
    BY <1>3, <2>2 DEF Computes
<1> HIDE DEF n, opens
<1>5. h = [i \in 0 .. n |-> IF i = 0 THEN ss ELSE eddy_open_buffer(h[i - 1], files[i]).slots]
  <2>1. h = [i \in 0 .. n |-> h[i]] /\ h[0] = ss
    BY <1>3 DEF Computes
  <2>2. \A i \in 0 .. n : i # 0 => i \in 1 .. n
    BY <1>1
  <2> QED
    BY <1>4, <2>1, <2>2
<1>6. \E f : f = [i \in 0 .. n |->
                    IF i = 0 THEN ss ELSE eddy_open_buffer(f[i - 1], files[i]).slots]
  BY <1>5
<1> QED
  BY <1>6 DEF Opened, n

(* The tables that opening files leaves: each has the files opened so far.      *)
HasOpened(ss, files, i, tt) ==
  tt \in Table /\ Grown(ss, tt) /\ \A j \in 1 .. i : files[j] \in NamesIn(tt)

LEMMA OpenedTables ==
  ASSUME NEW ss \in Table, NEW files \in Seq(Name), disk \in [Name -> Text \cup {Missing}]
  PROVE  HasOpened(ss, files, Len(files), Opened(ss, files)[Len(files)])
<1> DEFINE n == Len(files)
           op == Opened(ss, files)
           S == {i \in Nat : i <= n => HasOpened(ss, files, i, op[i])}
<1>1. n \in Nat /\ \A i \in 1 .. n : files[i] \in Name
  BY LenProperties, ElementOfSeq
<1>2. op[0] = ss /\ \A i \in 1 .. n : op[i] = eddy_open_buffer(op[i - 1], files[i]).slots
  <2>1. op = [i \in 0 .. n |-> IF i = 0 THEN ss
                               ELSE eddy_open_buffer(op[i - 1], files[i]).slots]
    BY OpenedDef
  <2>2. 0 \in 0 .. n /\ \A i \in 1 .. n : i \in 0 .. n /\ i # 0
    BY <1>1
  <2> HIDE DEF op, n
  <2> QED
    BY <2>1, <2>2
<1> HIDE DEF op
<1>3. 0 \in S
  <2>1. Grown(ss, ss)
    BY GrownSame
  <2> QED
    BY <1>2, <2>1 DEF HasOpened
<1>4. ASSUME NEW k \in S PROVE k + 1 \in S
  <2>1. k \in Nat
    OBVIOUS
  <2> SUFFICES ASSUME k + 1 <= n PROVE HasOpened(ss, files, k + 1, op[k + 1])
    BY <2>1
  <2>2. HasOpened(ss, files, k, op[k])
    BY <1>1, <2>1
  <2>3. k + 1 \in 1 .. n /\ (k + 1) - 1 = k
    BY <1>1, <2>1
  <2> HIDE DEF S
  <2> DEFINE o == eddy_open_buffer(op[k], files[k + 1])
  <2>4. op[k + 1] = o.slots /\ files[k + 1] \in Name
    BY <1>1, <1>2, <2>3
  <2>5. OpensWell(op[k], files[k + 1], o)
    BY <2>2, <2>4, OpenBuffer DEF HasOpened
  <2> HIDE DEF o
  <2>6. o.slots \in Table /\ Grown(op[k], o.slots) /\ op[k] \in Table /\ Grown(ss, op[k])
    BY <2>2, <2>5 DEF OpensWell, HasOpened
  <2>7. Grown(ss, o.slots)
    BY <2>6, GrownTwice
  <2>8. NamesIn(op[k]) \subseteq NamesIn(o.slots)
    BY <2>6, GrownNames
  <2>9. files[k + 1] \in NamesIn(o.slots)
    <3>1. files[k + 1] # NoName
      BY <2>4, EditorViewsAssumption
    <3> QED
      BY <2>5, <3>1 DEF OpensWell, NamesIn
  <2>10. ASSUME NEW j \in 1 .. k + 1 PROVE files[j] \in NamesIn(o.slots)
    <3>1. j = k + 1 \/ j \in 1 .. k
      BY <2>1
    <3> QED
      BY <2>2, <2>8, <2>9, <3>1 DEF HasOpened
  <2> QED
    BY <2>4, <2>6, <2>7, <2>10 DEF HasOpened
<1>5. S = Nat
  <2> HIDE DEF S
  <2>1. S \in SUBSET Nat
    BY DEF S
  <2> QED
    BY <1>3, <1>4, <2>1, SetInduction
<1>6. HasOpened(ss, files, n, op[n])
  BY <1>1, <1>5
<1> QED
  BY <1>6 DEF op

(* The names of a table, from its first entries.                               *)
NamesSoFar(ss, i, ns) ==
  /\ ns \in Seq(Name)
  /\ \A b \in 1 .. i : ss[b].name # NoName => \E j \in DOMAIN ns : ns[j] = ss[b].name

(* What a quit saves is a list of names, and has every one (NamesFrom).          *)
LEMMA NamesSaved ==
  ASSUME NEW ss \in Table
  PROVE  NamesSoFar(ss, Len(ss), NamesFrom(ss))
<1> DEFINE n == Len(ss)
           step == [p \in Nat \X Seq(Name) |->
                      IF p[1] \in 1 .. n /\ ss[p[1]].name # NoName
                      THEN Append(p[2], ss[p[1]].name) ELSE p[2]]
           Names(f) == [i \in 0 .. n |->
                          IF i = 0 THEN << >>
                          ELSE IF ss[i].name = NoName THEN f[i - 1]
                               ELSE Append(f[i - 1], ss[i].name)]
<1>1. n \in Nat /\ \A i \in 1 .. n : ss[i].name \in Name \cup {NoName}
  <2>1. n \in Nat /\ \A i \in 1 .. n : ss[i] \in SoundSlot
    BY LenProperties, ElementOfSeq DEF Table
  <2> QED
    BY <2>1 DEF SoundSlot, Slot
<1>2. << >> \in Seq(Name) /\ step \in [Nat \X Seq(Name) -> Seq(Name)]
  <2>1. \A ns \in Seq(Name) : \A m \in Name : Append(ns, m) \in Seq(Name)
    BY AppendProperties
  <2> HIDE DEF n
  <2> QED
    BY <1>1, <2>1
<1>3. PICK h : Computes(h, n, Seq(Name), << >>, step)
  <2> HIDE DEF n, step
  <2> QED
    BY <1>1, <1>2, ComputedUpTo
<1>4. \A i \in 1 .. n : h[i] = IF ss[i].name = NoName THEN h[i - 1]
                               ELSE Append(h[i - 1], ss[i].name)
  <2> SUFFICES ASSUME NEW i \in 1 .. n
               PROVE  h[i] = IF ss[i].name = NoName THEN h[i - 1]
                             ELSE Append(h[i - 1], ss[i].name)
    OBVIOUS
  <2>1. i \in Nat /\ i - 1 \in 0 .. n /\ h[i - 1] \in Seq(Name)
    BY <1>1, <1>3 DEF Computes
  <2>2. step[<<i, h[i - 1]>>] = IF ss[i].name = NoName THEN h[i - 1]
                                ELSE Append(h[i - 1], ss[i].name)
    BY <2>1
  <2> HIDE DEF step
  <2> QED
    BY <1>3, <2>2 DEF Computes
<1> HIDE DEF n, step
<1>5. h = Names(h)
  <2>1. h = [i \in 0 .. n |-> h[i]] /\ h[0] = << >>
    BY <1>3 DEF Computes
  <2>2. \A i \in 0 .. n : i # 0 => i \in 1 .. n
    BY <1>1
  <2> QED
    BY <1>4, <2>1, <2>2
<1>6. PICK f : f = Names(f) /\ NamesFrom(ss) = f[n]
  <2>1. \E f : f = Names(f)
    BY <1>5
  <2> DEFINE names == CHOOSE f : f = Names(f)
  <2>2. names = Names(names)
    <3> HIDE DEF Names
    <3> QED
      BY <2>1
  <2>3. NamesFrom(ss) = names[n]
    BY DEF NamesFrom, n
  <2> QED
    BY <2>2, <2>3
<1>7. f[0] = << >> /\ \A i \in 1 .. n : f[i] = IF ss[i].name = NoName THEN f[i - 1]
                                              ELSE Append(f[i - 1], ss[i].name)
  <2>1. 0 \in 0 .. n /\ \A i \in 1 .. n : i \in 0 .. n /\ i # 0
    BY <1>1
  <2> QED
    BY <1>6, <2>1
<1> HIDE DEF Names
<1> DEFINE S == {i \in Nat : i <= n => NamesSoFar(ss, i, f[i])}
<1>8. 0 \in S
  <2>1. \A b \in 1 .. 0 : FALSE
    OBVIOUS
  <2>2. f[0] \in Seq(Name)
    BY <1>2, <1>7
  <2>3. NamesSoFar(ss, 0, f[0])
    BY <2>1, <2>2 DEF NamesSoFar
  <2> HIDE DEF n
  <2> QED
    BY <2>3
<1>9. ASSUME NEW k \in S PROVE k + 1 \in S
  <2>1. k \in Nat
    OBVIOUS
  <2> SUFFICES ASSUME k + 1 <= n PROVE NamesSoFar(ss, k + 1, f[k + 1])
    BY <2>1
  <2>2. NamesSoFar(ss, k, f[k])
    BY <1>1, <2>1
  <2>3. k + 1 \in 1 .. n /\ (k + 1) - 1 = k /\ \A b \in 1 .. k + 1 : b = k + 1 \/ b \in 1 .. k
    BY <1>1, <2>1
  <2> HIDE DEF S
  <2> DEFINE m == ss[k + 1].name
  <2>4. f[k + 1] = IF m = NoName THEN f[k] ELSE Append(f[k], m)
    BY <1>7, <2>3
  <2>5. m = NoName \/ m \in Name
    BY <1>1, <2>3
  <2>6. CASE m = NoName
    BY <2>2, <2>3, <2>4, <2>6 DEF NamesSoFar
  <2>7. CASE m # NoName
    <3>1. m \in Name /\ f[k] \in Seq(Name) /\ f[k + 1] = Append(f[k], m)
      BY <2>2, <2>4, <2>5, <2>7 DEF NamesSoFar
    <3> DEFINE t == Append(f[k], m)
               old == f[k]
    <3> HIDE DEF m
    <3>2. /\ t \in Seq(Name) /\ Len(t) = Len(old) + 1
          /\ \A j \in 1 .. Len(old) : t[j] = old[j]
          /\ t[Len(old) + 1] = m
      BY <3>1, AppendProperties
    <3>3. /\ Len(old) \in Nat /\ DOMAIN old = 1 .. Len(old)
          /\ DOMAIN t = 1 .. Len(old) + 1
      BY <3>1, <3>2, LenProperties
    <3> HIDE DEF t, old
    <3>4. ASSUME NEW b \in 1 .. k + 1, ss[b].name # NoName
          PROVE  \E j \in DOMAIN t : t[j] = ss[b].name
      <4>1. CASE b = k + 1
        BY <3>2, <3>3, <4>1 DEF m
      <4>2. CASE b # k + 1
        <5>1. b \in 1 .. k
          BY <2>3, <4>2
        <5>2. PICK j \in DOMAIN old : old[j] = ss[b].name
          BY <2>2, <3>4, <5>1 DEF NamesSoFar, old
        <5> QED
          BY <3>2, <3>3, <5>2
      <4> QED
        BY <4>1, <4>2
    <3>5. NamesSoFar(ss, k + 1, t)
      BY <3>2, <3>4 DEF NamesSoFar
    <3> QED
      BY <3>1, <3>5 DEF t
  <2> QED
    BY <2>6, <2>7
<1>10. S = Nat
  <2> HIDE DEF S
  <2>1. S \in SUBSET Nat
    BY DEF S
  <2> QED
    BY <1>8, <1>9, <2>1, SetInduction
<1>11. NamesSoFar(ss, n, f[n])
  BY <1>1, <1>10
<1> QED
  BY <1>6, <1>11 DEF n

-----------------------------------------------------------------------------
(* The steps.                                                                 *)

\* What no step may do, in one formula: see the theorems.
StepFacts ==
  /\ InSession => \A b \in DOMAIN slots :
       slots'[b] = Zeroed /\ slots[b] # Zeroed =>
         /\ prompt = "close"
         /\ slots[b].name # NoName => disk'[slots[b].name] = slots[b].text
  /\ session = "quit" /\ session' = "running" => NamesIn(slots) \subseteq NamesIn(slots')

\* An editor that a command may leave: it forgets no buffer.
Fine(e) ==
  /\ e.slots \in Table /\ ViewsGood(e.slots, e.views) /\ CurrentGood(e.views, e.current)
  /\ \A b \in DOMAIN slots : e.slots[b] = Zeroed => slots[b] = Zeroed

(* A command that leaves such an editor keeps the invariant.                    *)
LEMMA FineCommand ==
  ASSUME IInv, NEW e, Fine(e), Command(e), misstep' = "none",
         disk' \in [Name -> Text \cup {Missing}]
  PROVE  IInv' /\ StepFacts
<1>1. /\ slots' = e.slots /\ views' = e.views /\ current' = e.current
      /\ session = "running" /\ session' = session
      /\ sessions' = sessions /\ prompt' = prompt /\ saved' = saved
  BY DEF Command, Listening, Becomes
<1>2. TablesGood'
  BY <1>1 DEF TablesGood, Fine
<1>3. Kinds'
  BY <1>1 DEF IInv, Kinds
<1>4. StepFacts
  BY <1>1 DEF StepFacts, Fine
<1> QED
  BY <1>2, <1>3, <1>4 DEF IInv

(* An editor whose table only grew is one.                                     *)
LEMMA GoodIsFine ==
  ASSUME slots \in Table, NEW e, GoodEditor(slots, e)
  PROVE  Fine(e)
<1>1. DOMAIN slots = 1 .. Len(slots) /\ DOMAIN e.slots = 1 .. Len(e.slots)
  BY LenProperties DEF Table, GoodEditor
<1> QED
  BY <1>1 DEF GoodEditor, Fine, Grown

(* One entry of the table is changed under its views.                          *)
LEMMA ChangedSlot ==
  ASSUME NEW ss \in Table, NEW vs, ViewsGood(ss, vs), NEW i \in DOMAIN ss, NEW x \in SoundSlot,
         x.edits < x.version, x = Zeroed => ss[i] = Zeroed
  PROVE  LET tt == [ss EXCEPT ![i] = x]
         IN  /\ tt \in Table /\ ViewsGood(tt, vs) /\ DOMAIN tt = DOMAIN ss
             /\ \A j \in DOMAIN ss : j # i => tt[j] = ss[j]
             /\ \A j \in DOMAIN ss : tt[j] = Zeroed => ss[j] = Zeroed
<1> DEFINE tt == [ss EXCEPT ![i] = x]
<1>1. /\ tt \in Table /\ DOMAIN tt = DOMAIN ss
      /\ tt[i] = x /\ \A j \in DOMAIN ss : j # i => tt[j] = ss[j]
  BY ReplacedSlot
<1> HIDE DEF tt
<1>2. ASSUME NEW v \in DOMAIN vs, vs[v] # Hole
      PROVE  /\ vs[v] \in DOMAIN tt /\ tt[vs[v]].edits < tt[vs[v]].version
             /\ \A w \in DOMAIN vs : vs[w] = vs[v] => w = v
  <2>1. /\ vs[v] \in DOMAIN ss /\ ss[vs[v]].edits < ss[vs[v]].version
        /\ \A w \in DOMAIN vs : vs[w] = vs[v] => w = v
    BY <1>2 DEF ViewsGood
  <2>2. CASE vs[v] = i
    BY <1>1, <2>1, <2>2
  <2>3. CASE vs[v] # i
    BY <1>1, <2>1, <2>3
  <2> QED
    BY <2>2, <2>3
<1>3. ViewsGood(tt, vs)
  BY <1>2 DEF ViewsGood
<1> QED
  BY <1>1, <1>3 DEF tt

(* The buffer that is shown: it was counted when it got its view, so that it has   *)
(* always a version that is not saved.                                         *)
LEMMA ShownBuffer ==
  ASSUME TablesGood
  PROVE  /\ Shown \in DOMAIN slots /\ slots[Shown] \in SoundSlot
         /\ slots[Shown].edits < slots[Shown].version
         /\ slots[Shown].savedVersion < slots[Shown].version
         /\ NeedsAsking(slots[Shown])
<1>1. Shown \in DOMAIN slots /\ slots[Shown].edits < slots[Shown].version
  BY DEF TablesGood, CurrentGood, ViewsGood, Shown
<1>2. slots[Shown] \in SoundSlot
  BY <1>1, ElementOfSeq DEF TablesGood, Table
<1>3. slots[Shown].savedVersion < slots[Shown].version
  BY <1>1, <1>2 DEF SoundSlot, Slot
<1> QED
  BY <1>1, <1>2, <1>3 DEF NeedsAsking

LEMMA NowIs == Now = Editor(slots, views, current)
BY DEF Now, Editor

LEMMA CurrentIsNumber ==
  ASSUME TablesGood
  PROVE  current \in Nat
<1>1. views \in Seq(Nat) /\ current \in DOMAIN views
  BY DEF TablesGood, ViewsGood, CurrentGood
<1> QED
  BY <1>1, LenProperties

(* Opening a file and showing it.                                             *)
LEMMA OpenFileStep ==
  ASSUME IInv, NEW n \in Name, OpenFile(n), misstep' = "none"
  PROVE  IInv' /\ StepFacts
<1> DEFINE o == eddy_open_buffer(slots, n)
<1>1. /\ slots \in Table /\ ViewsGood(slots, views) /\ CurrentGood(views, current)
      /\ disk \in [Name -> Text \cup {Missing}] /\ current \in Nat
  BY CurrentIsNumber DEF IInv, TablesGood, Kinds
<1>2. OpensWell(slots, n, o)
  BY <1>1, OpenBuffer
<1>3. PICK e : e = IF o.ok THEN editor_select_buffer(Editor(o.slots, views, current), o.ix)
                   ELSE Editor(o.slots, views, current)
  OBVIOUS
<1>4. Command(e) /\ disk' = disk
  BY <1>3, NowIs DEF OpenFile, Editor, Now
<1>5. e.misstep = "none"
  BY <1>4 DEF Command, Becomes
<1> HIDE DEF o
<1>6. /\ o.slots \in Table /\ Grown(slots, o.slots) /\ o.ix \in DOMAIN o.slots
      /\ ViewsGood(o.slots, views)
  BY <1>1, <1>2, GrownViews DEF OpensWell
<1>7. GoodEditor(slots, e)
  <2>1. CASE o.ok
    <3>1. e = editor_select_buffer(Editor(o.slots, views, current), o.ix)
      BY <1>3, <2>1
    <3>2. Selects(o.slots, views, o.ix, e)
      BY <1>1, <1>5, <1>6, <3>1, SelectBuffer
    <3>3. GoodEditor(o.slots, e)
      BY <3>2 DEF Selects
    <3>4. Grown(slots, e.slots)
      BY <1>1, <1>6, <3>3, GrownTwice DEF GoodEditor
    <3> QED
      BY <3>3, <3>4 DEF GoodEditor
  <2>2. CASE ~ o.ok
    <3>1. e = Editor(o.slots, views, current)
      BY <1>3, <2>2
    <3>2. e.slots = o.slots /\ e.views = views /\ e.current = current
      BY <3>1 DEF Editor
    <3> QED
      BY <1>1, <1>6, <3>1, <3>2 DEF GoodEditor
  <2> QED
    BY <2>1, <2>2
<1> QED
  BY <1>1, <1>4, <1>7, GoodIsFine, FineCommand

(* Switching to a buffer.                                                     *)
LEMMA SwitchStep ==
  ASSUME IInv, editor_cmd_switch_buffer, misstep' = "none"
  PROVE  IInv' /\ StepFacts
<1>1. /\ slots \in Table /\ ViewsGood(slots, views) /\ CurrentGood(views, current)
      /\ disk \in [Name -> Text \cup {Missing}] /\ current \in Nat
  BY CurrentIsNumber DEF IInv, TablesGood, Kinds
<1>2. PICK b \in DOMAIN slots : Command(editor_select_buffer(Now, b)) /\ disk' = disk
  BY DEF editor_cmd_switch_buffer
<1>3. PICK e : e = editor_select_buffer(Editor(slots, views, current), b)
  OBVIOUS
<1>4. Command(e) /\ e.misstep = "none"
  BY <1>2, <1>3, NowIs DEF Command, Becomes
<1>5. GoodEditor(slots, e)
  BY <1>1, <1>3, <1>4, SelectBuffer DEF Selects
<1> QED
  BY <1>1, <1>2, <1>4, <1>5, GoodIsFine, FineCommand

(* Closing the view that is current.                                          *)
LEMMA CloseViewStep ==
  ASSUME IInv, editor_cmd_close_view, misstep' = "none"
  PROVE  IInv' /\ StepFacts
<1>1. /\ slots \in Table /\ ViewsGood(slots, views) /\ CurrentGood(views, current)
      /\ disk \in [Name -> Text \cup {Missing}]
  BY DEF IInv, TablesGood, Kinds
<1>2. PICK e : e = editor_close_view(Editor(slots, views, current))
  OBVIOUS
<1>3. Command(e) /\ disk' = disk /\ e.misstep = "none"
  BY <1>2, NowIs DEF editor_cmd_close_view, Command, Becomes
<1>4. GoodEditor(slots, e)
  BY <1>1, <1>2, <1>3, CloseView DEF Closes
<1> QED
  BY <1>1, <1>3, <1>4, GoodIsFine, FineCommand

(* An edit of an entry counts as an edit and as a version.                      *)
LEMMA EditedSlot ==
  ASSUME NEW b \in Slot, NEW t \in Text
  PROVE  /\ Edited(b, t) \in Slot
         /\ Edited(b, t).edits = b.edits + 1 /\ Edited(b, t).version = b.version + 1
         /\ Edited(b, t).savedVersion = b.savedVersion
         /\ Edited(b, t).lines = b.lines /\ Edited(b, t).indexed = b.indexed
<1>1. b.version + 1 \in Nat /\ b.edits + 1 \in Nat
  BY DEF Slot
<1>2. Edited(b, t) \in Slot
  BY <1>1 DEF Edited, Slot
<1>3. /\ Edited(b, t).edits = b.edits + 1 /\ Edited(b, t).version = b.version + 1
      /\ Edited(b, t).savedVersion = b.savedVersion
      /\ Edited(b, t).lines = b.lines /\ Edited(b, t).indexed = b.indexed
  BY DEF Edited, Slot
<1> QED
  BY <1>2, <1>3

(* An edit of the buffer that is shown.                                        *)
LEMMA EditStep ==
  ASSUME IInv, NEW t \in Text, Edit(t), misstep' = "none"
  PROVE  IInv' /\ StepFacts
<1> DEFINE i == Shown
           b == slots[i]
           x == Edited(b, t)
           tt == [slots EXCEPT ![i] = x]
<1>1. /\ slots \in Table /\ ViewsGood(slots, views) /\ CurrentGood(views, current)
      /\ disk \in [Name -> Text \cup {Missing}]
  BY DEF IInv, TablesGood, Kinds
<1>2. PICK e : e = Editor(tt, views, current)
  OBVIOUS
<1>3. Command(e) /\ disk' = disk
  <2>1. [Now EXCEPT !.slots[Shown] = Edited(@, t)] = e
    BY <1>2 DEF Now, Editor
  <2> QED
    BY <2>1 DEF Edit
<1>4. i \in DOMAIN slots /\ b \in SoundSlot /\ b.edits < b.version
  BY ShownBuffer DEF IInv
<1> HIDE DEF i
<1>5. x \in SoundSlot /\ x.edits < x.version /\ x.version # 0
  <2> HIDE DEF b
  <2>1. b \in Slot /\ b.savedVersion <= b.edits /\ b.edits <= b.version
        /\ (~ b.lines => b.indexed = 0)
    BY <1>4 DEF SoundSlot
  <2>2. b.edits \in Nat /\ b.version \in Nat /\ b.savedVersion \in Nat
    BY <2>1 DEF Slot
  <2>3. /\ x.edits = b.edits + 1 /\ x.version = b.version + 1
        /\ x.savedVersion = b.savedVersion /\ x.lines = b.lines /\ x.indexed = b.indexed
    BY <2>1, EditedSlot
  <2>4. x \in Slot
    BY <2>1, EditedSlot
  <2> HIDE DEF x
  <2>5. x.savedVersion <= x.edits /\ x.edits <= x.version /\ x.version # 0
        /\ x.edits < x.version
    BY <1>4, <2>1, <2>2, <2>3
  <2> QED
    BY <2>1, <2>3, <2>4, <2>5 DEF SoundSlot
<1>6. x # Zeroed
  <2> HIDE DEF x
  <2> QED
    BY <1>5 DEF Zeroed
<1> HIDE DEF x
<1>7. /\ tt \in Table /\ ViewsGood(tt, views)
      /\ \A j \in DOMAIN slots : tt[j] = Zeroed => slots[j] = Zeroed
  BY <1>1, <1>4, <1>5, <1>6, ChangedSlot
<1> HIDE DEF tt
<1>8. Fine(e)
  <2>1. e.slots = tt /\ e.views = views /\ e.current = current
    BY <1>2 DEF Editor
  <2> QED
    BY <1>1, <1>7, <2>1 DEF Fine
<1> QED
  BY <1>1, <1>3, <1>8, FineCommand

(* What a save does to the buffer that is shown, and to the files.              *)
LEMMA SavedSlot ==
  ASSUME IInv, NEW n \in Name \cup {NoName}
  PROVE  LET b == slots[Shown]
             x == AfterSave(b, n)
             tt == [slots EXCEPT ![Shown] = x]
         IN  /\ tt \in Table /\ ViewsGood(tt, views) /\ DOMAIN tt = DOMAIN slots
             /\ \A j \in DOMAIN slots : j # Shown => tt[j] = slots[j]
             /\ \A j \in DOMAIN slots : tt[j] = Zeroed => slots[j] = Zeroed
             /\ DiskAfterSave(b, n) \in [Name -> Text \cup {Missing}]
             /\ b.name # NoName => DiskAfterSave(b, NoName)[b.name] = b.text
<1> DEFINE i == Shown
           b == slots[i]
           x == AfterSave(b, n)
           m == NameToWrite(b, n)
<1>1. /\ slots \in Table /\ ViewsGood(slots, views)
      /\ disk \in [Name -> Text \cup {Missing}]
  BY DEF IInv, TablesGood, Kinds
<1>2. i \in DOMAIN slots /\ b \in SoundSlot /\ b.edits < b.version /\ b.savedVersion < b.version
  BY ShownBuffer DEF IInv
<1> HIDE DEF i
<1>3. b.name \in Name \cup {NoName} /\ b.text \in Text
  <2> HIDE DEF b
  <2> QED
    BY <1>2 DEF SoundSlot, Slot
<1>4. Writes(b, n) => m \in Name
  BY <1>3 DEF Writes, NameToWrite
<1>5. x \in SoundSlot /\ x.edits < x.version /\ (x = Zeroed => b = Zeroed)
  <2>1. CASE Writes(b, n)
    <3>1. x = [b EXCEPT !.name = m, !.savedVersion = b.edits]
      BY <2>1 DEF AfterSave
    <3>2. m \in Name
      BY <1>4, <2>1
    <3> HIDE DEF m, b
    <3>3. x \in SoundSlot /\ x.edits < x.version /\ x.name = m
      <4>1. b \in Slot /\ b.savedVersion <= b.edits /\ b.edits <= b.version
            /\ (~ b.lines => b.indexed = 0)
        BY <1>2 DEF SoundSlot
      <4>2. b.edits \in Nat
        BY <4>1 DEF Slot
      <4>3. /\ x.name = m /\ x.edits = b.edits /\ x.version = b.version
            /\ x.savedVersion = b.edits /\ x.lines = b.lines /\ x.indexed = b.indexed
        BY <3>1, <4>1 DEF Slot
      <4>4. x \in Slot
        BY <3>1, <3>2, <4>1, <4>2 DEF Slot
      <4> HIDE DEF x
      <4> QED
        BY <1>2, <4>1, <4>2, <4>3, <4>4 DEF SoundSlot
    <3>4. x # Zeroed
      <4>1. Zeroed.name = NoName
        BY DEF Zeroed
      <4> QED
        BY <3>2, <3>3, <4>1, EditorViewsAssumption
    <3> QED
      BY <3>3, <3>4
  <2>2. CASE ~ Writes(b, n)
    <3>1. x = b
      BY <2>2 DEF AfterSave
    <3> QED
      BY <1>2, <3>1
  <2> QED
    BY <2>1, <2>2
<1>6. DiskAfterSave(b, n) \in [Name -> Text \cup {Missing}]
  <2> HIDE DEF m, b
  <2>1. CASE Writes(b, n)
    BY <1>1, <1>3, <1>4, <2>1 DEF DiskAfterSave, m
  <2>2. CASE ~ Writes(b, n)
    BY <1>1, <2>2 DEF DiskAfterSave
  <2> QED
    BY <2>1, <2>2
<1>7. ASSUME b.name # NoName
      PROVE  DiskAfterSave(b, NoName)[b.name] = b.text
  <2>1. b.savedVersion # b.version
    <3> HIDE DEF b
    <3> QED
      BY <1>2 DEF SoundSlot, Slot
  <2>2. Writes(b, NoName) /\ NameToWrite(b, NoName) = b.name /\ b.name \in Name
    BY <1>3, <1>7, <2>1 DEF Writes, NameToWrite
  <2> HIDE DEF b
  <2> QED
    BY <1>1, <2>2 DEF DiskAfterSave
<1> DEFINE tt == [slots EXCEPT ![i] = x]
<1> HIDE DEF x
<1>8. /\ tt \in Table /\ ViewsGood(tt, views) /\ DOMAIN tt = DOMAIN slots
      /\ \A j \in DOMAIN slots : j # i => tt[j] = slots[j]
      /\ \A j \in DOMAIN slots : tt[j] = Zeroed => slots[j] = Zeroed
  BY <1>1, <1>2, <1>5, ChangedSlot
<1> HIDE DEF tt
<1> QED
  BY <1>6, <1>7, <1>8 DEF i, x, tt

(* A save, under its own name or another.                                      *)
LEMMA SaveStep ==
  ASSUME IInv, NEW n \in Name \cup {NoName}, Save(n), misstep' = "none"
  PROVE  IInv' /\ StepFacts
<1> DEFINE x == AfterSave(slots[Shown], n)
           tt == [slots EXCEPT ![Shown] = x]
<1>1. CurrentGood(views, current)
  BY DEF IInv, TablesGood
<1>2. PICK e : e = Editor(tt, views, current)
  OBVIOUS
<1>3. Command(e) /\ disk' = DiskAfterSave(slots[Shown], n)
  <2>1. [Now EXCEPT !.slots[Shown] = AfterSave(@, n)] = e
    BY <1>2 DEF Now, Editor
  <2> QED
    BY <2>1 DEF Save
<1>4. /\ tt \in Table /\ ViewsGood(tt, views)
      /\ \A j \in DOMAIN slots : tt[j] = Zeroed => slots[j] = Zeroed
      /\ DiskAfterSave(slots[Shown], n) \in [Name -> Text \cup {Missing}]
  BY SavedSlot
<1> HIDE DEF tt
<1>5. Fine(e)
  <2>1. e.slots = tt /\ e.views = views /\ e.current = current
    BY <1>2 DEF Editor
  <2> QED
    BY <1>1, <1>4, <2>1 DEF Fine
<1> QED
  BY <1>3, <1>4, <1>5, FineCommand

(* A frame indexes the buffers whose index is behind.                          *)
LEMMA DrawStep ==
  ASSUME IInv, eddy_on_draw, misstep' = "none"
  PROVE  IInv' /\ StepFacts
<1> DEFINE tt == [b \in DOMAIN slots |->
                    IF slots[b].indexed = slots[b].version THEN slots[b]
                    ELSE buffer_build_indices(slots[b])]
<1>1. /\ slots \in Table /\ ViewsGood(slots, views) /\ CurrentGood(views, current)
      /\ disk \in [Name -> Text \cup {Missing}]
  BY DEF IInv, TablesGood, Kinds
<1>2. PICK e : e = Editor(tt, views, current)
  OBVIOUS
<1>3. Command(e) /\ disk' = disk
  <2>1. [Now EXCEPT !.slots = tt] = e
    BY <1>2 DEF Now, Editor
  <2> QED
    BY <2>1 DEF eddy_on_draw
<1>4. /\ Len(slots) \in Nat /\ DOMAIN slots = 1 .. Len(slots)
      /\ \A b \in DOMAIN slots : slots[b] \in SoundSlot
  BY <1>1, LenProperties, ElementOfSeq DEF Table
<1>5. ASSUME NEW b \in DOMAIN slots
      PROVE  /\ tt[b] \in SoundSlot
             /\ tt[b].edits = slots[b].edits /\ tt[b].version = slots[b].version
             /\ tt[b].name = slots[b].name
             /\ tt[b] = Zeroed => slots[b] = Zeroed
  <2>1. CASE slots[b].indexed = slots[b].version
    <3>1. tt[b] = slots[b]
      BY <2>1
    <3> QED
      BY <1>4, <3>1
  <2>2. CASE slots[b].indexed # slots[b].version
    <3>1. tt[b] = buffer_build_indices(slots[b])
      BY <2>2
    <3> HIDE DEF tt
    <3> QED
      BY <1>4, <3>1, BuiltIndices, LinesNotZeroed
  <2> QED
    BY <2>1, <2>2
<1>6. tt \in Table /\ DOMAIN tt = DOMAIN slots /\ Len(tt) = Len(slots)
  <2>1. tt \in [1 .. Len(slots) -> SoundSlot] /\ DOMAIN tt = DOMAIN slots
    <3>1. \A b \in DOMAIN slots : tt[b] \in SoundSlot
      BY <1>5
    <3>2. tt = [b \in DOMAIN slots |-> tt[b]]
      OBVIOUS
    <3> HIDE DEF tt
    <3> QED
      BY <1>4, <3>1, <3>2
  <2> HIDE DEF tt
  <2>2. tt \in Table
    BY <1>4, <2>1, SeqDef DEF Table
  <2> QED
    BY <1>4, <2>1, <2>2, LenProperties DEF Table
<1> HIDE DEF tt
<1>7. Grown(slots, tt)
  <2>1. \A b \in DOMAIN slots : slots[b].version \in Nat
    BY <1>4 DEF SoundSlot, Slot
  <2> QED
    BY <1>4, <1>5, <1>6, <2>1 DEF Grown
<1>8. ViewsGood(tt, views)
  BY <1>1, <1>6, <1>7, GrownViews
<1>9. GoodEditor(slots, e)
  <2>1. e.slots = tt /\ e.views = views /\ e.current = current
    BY <1>2 DEF Editor
  <2> QED
    BY <1>1, <1>2, <1>6, <1>7, <1>8, <2>1 DEF GoodEditor
<1> QED
  BY <1>1, <1>3, <1>9, GoodIsFine, FineCommand

(* Closing the buffer that is shown asks first, and then changes no table.       *)
LEMMA AskedFirst ==
  ASSUME IInv, editor_cmd_close_buffer
  PROVE  Ask("close")
BY ShownBuffer DEF IInv, editor_cmd_close_buffer

(* A question, and an answer or an end that leaves the tables alone.             *)
LEMMA TablesAlone ==
  ASSUME IInv, UNCHANGED editor, Kinds', ~ (session = "quit" /\ session' = "running")
  PROVE  IInv' /\ StepFacts
<1>1. slots' = slots /\ views' = views /\ current' = current
  BY DEF editor
<1>2. TablesGood'
  BY <1>1 DEF IInv, TablesGood
<1>3. StepFacts
  BY <1>1 DEF StepFacts
<1> QED
  BY <1>2, <1>3 DEF IInv

LEMMA AskStep ==
  ASSUME IInv, NEW question \in {"close", "quit"}, Ask(question)
  PROVE  IInv' /\ StepFacts
<1>1. Kinds'
  BY DEF IInv, Kinds, Ask, Listening, editor
<1> QED
  BY <1>1, TablesAlone DEF Ask, Listening

(* The answer that closes the buffer that is shown, after saving it.             *)
LEMMA AnswerCloseStep ==
  ASSUME IInv, NEW button \in Buttons, AnswerClose(button), misstep' = "none"
  PROVE  IInv' /\ StepFacts
<1>1. /\ slots \in Table /\ ViewsGood(slots, views) /\ CurrentGood(views, current)
      /\ disk \in [Name -> Text \cup {Missing}]
  BY DEF IInv, TablesGood, Kinds
<1>2. /\ session = "running" /\ session' = "running" /\ prompt = "close" /\ prompt' = "none"
      /\ sessions' = sessions /\ saved' = saved
  BY DEF AnswerClose, Answer
<1>3. CASE button # "Yes"
  <2>1. UNCHANGED <<editor, disk>>
    BY <1>3 DEF AnswerClose
  <2>2. Kinds'
    BY <1>2, <2>1 DEF IInv, Kinds, editor
  <2> QED
    BY <1>2, <2>1, <2>2, TablesAlone
<1>4. CASE button = "Yes"
  <2> DEFINE b == slots[Shown]
             tt == [slots EXCEPT ![Shown] = AfterSave(b, NoName)]
  <2>1. PICK e : e = editor_close_buffer(Editor(tt, views, current))
    OBVIOUS
  <2>2. Becomes(e) /\ disk' = DiskAfterSave(b, NoName)
    <3>1. [Now EXCEPT !.slots[Shown] = AfterSave(@, NoName)] = Editor(tt, views, current)
      BY DEF Now, Editor
    <3> HIDE DEF tt
    <3> QED
      BY <1>4, <2>1, <3>1 DEF AnswerClose
  <2>3. /\ tt \in Table /\ ViewsGood(tt, views) /\ DOMAIN tt = DOMAIN slots
        /\ \A j \in DOMAIN slots : j # Shown => tt[j] = slots[j]
        /\ DiskAfterSave(b, NoName) \in [Name -> Text \cup {Missing}]
        /\ b.name # NoName => DiskAfterSave(b, NoName)[b.name] = b.text
    BY SavedSlot
  <2> HIDE DEF tt
  <2>4. e.misstep = "none"
    BY <2>2 DEF Becomes
  <2>5. ClosesBuffer(tt, views[current], e)
    BY <1>1, <2>1, <2>3, <2>4, CloseBuffer
  <2>6. \A i \in DOMAIN slots : i # Shown /\ e.slots[i] = Zeroed => slots[i] = Zeroed
    BY <2>3, <2>5 DEF ClosesBuffer, Shown
  <2>7. slots' = e.slots /\ views' = e.views /\ current' = e.current
    BY <2>2 DEF Becomes
  <2>8. TablesGood'
    BY <2>5, <2>7 DEF TablesGood, ClosesBuffer
  <2>9. Kinds'
    BY <1>2, <2>2, <2>3 DEF IInv, Kinds
  <2>10. StepFacts
    <3> SUFFICES ASSUME NEW i \in DOMAIN slots, slots'[i] = Zeroed, slots[i] # Zeroed,
                        slots[i].name # NoName
                 PROVE  disk'[slots[i].name] = slots[i].text
      BY <1>2 DEF StepFacts
    <3>1. i = Shown
      BY <2>6, <2>7
    <3> QED
      BY <2>2, <2>3, <3>1
  <2> QED
    BY <2>8, <2>9, <2>10 DEF IInv
<1> QED
  BY <1>3, <1>4

(* A quit, whether it was asked for or forced: the names are saved.              *)
LEMMA QuitStep ==
  ASSUME IInv, eddy_quit, sessions' = sessions, prompt' \in {"none", "close", "quit"}
  PROVE  IInv' /\ StepFacts
<1>1. slots' = slots /\ saved' = NamesFrom(slots)
  BY DEF eddy_quit, editor
<1>2. NamesFrom(slots) \in Seq(Name)
  BY NamesSaved DEF IInv, TablesGood, NamesSoFar
<1>3. Kinds'
  BY <1>1, <1>2 DEF IInv, Kinds, eddy_quit, editor
<1> QED
  BY <1>3, TablesAlone DEF eddy_quit

LEMMA AnswerQuitStep ==
  ASSUME IInv, NEW button, AnswerQuit(button)
  PROVE  IInv' /\ StepFacts
<1>1. prompt' = "none" /\ sessions' = sessions /\ session = "running"
  BY DEF AnswerQuit, Answer
<1>2. CASE button = "Yes"
  BY <1>1, <1>2, QuitStep DEF AnswerQuit
<1>3. CASE button # "Yes"
  <2>1. UNCHANGED <<session, editor, saved, disk>>
    BY <1>3 DEF AnswerQuit
  <2>2. Kinds'
    BY <1>1, <2>1 DEF IInv, Kinds, editor
  <2> QED
    BY <1>1, <2>1, <2>2, TablesAlone
<1> QED
  BY <1>2, <1>3

LEMMA ForceQuitStep ==
  ASSUME IInv, eddy_cmd_force_quit
  PROVE  IInv' /\ StepFacts
BY QuitStep DEF IInv, Kinds, eddy_cmd_force_quit

LEMMA KilledStep ==
  ASSUME IInv, Killed
  PROVE  IInv' /\ StepFacts
<1>1. Kinds'
  BY DEF IInv, Kinds, Killed, editor
<1> QED
  BY <1>1, TablesAlone DEF Killed

(* The editor that is started on a table (eddy_start).                          *)
LEMMA StartedEditor ==
  ASSUME NEW ss \in Table, Started(ss).misstep = "none"
  PROVE  GoodEditor(ss, Started(ss))
<1> DEFINE some == IF ss = << >> THEN eddy_new_buffer(ss) ELSE ss
           none == << >>
<1>1. Len(ss) \in Nat /\ DOMAIN ss = 1 .. Len(ss)
  BY LenProperties DEF Table
<1>2. some \in Table /\ Grown(ss, some) /\ 1 \in DOMAIN some
  <2>1. CASE ss = << >>
    <3> DEFINE i == NewSlot(ss)
               tt == eddy_new_buffer(ss)
    <3>1. tt \in Table /\ i \in DOMAIN tt /\ Grown(ss, tt)
      BY NewBuffer
    <3>2. Len(tt) \in Nat /\ DOMAIN tt = 1 .. Len(tt)
      BY <3>1, LenProperties DEF Table
    <3> HIDE DEF i, tt
    <3>3. 1 \in DOMAIN tt
      BY <3>1, <3>2
    <3> QED
      BY <2>1, <3>1, <3>3 DEF tt
  <2>2. CASE ss # << >>
    <3>1. Len(ss) # 0
      BY <2>2, EmptySeq DEF Table
    <3>2. Grown(ss, ss)
      BY GrownSame
    <3> QED
      BY <1>1, <2>2, <3>1, <3>2
  <2> QED
    BY <2>1, <2>2
<1>3. PICK e : e = editor_select_buffer(Editor(some, none, 1), 1)
  OBVIOUS
<1>4. e = Started(ss)
  BY <1>3 DEF Started, Editor
<1>5. ViewsGood(some, none)
  <2>1. none \in Seq(Nat) /\ DOMAIN none = 1 .. 0
    OBVIOUS
  <2>2. \A v \in 1 .. 0 : FALSE
    OBVIOUS
  <2> HIDE DEF none, some
  <2> QED
    BY <2>1, <2>2 DEF ViewsGood
<1> HIDE DEF some, none
<1>6. GoodEditor(some, e)
  <2>1. e.misstep = "none"
    BY <1>4
  <2>2. Selects(some, none, 1, e)
    BY <1>2, <1>3, <1>5, <2>1, SelectBuffer
  <2> QED
    BY <2>2 DEF Selects
<1>7. Grown(ss, e.slots)
  BY <1>2, <1>6, GrownTwice DEF GoodEditor
<1> QED
  BY <1>4, <1>6, <1>7 DEF GoodEditor

(* The next session (eddy_start): its table has the files that were saved.       *)
LEMMA RestartStep ==
  ASSUME IInv, Restart, misstep' = "none"
  PROVE  IInv' /\ StepFacts
<1>1. /\ slots \in Table /\ saved \in Seq(Name) /\ sessions \in Nat
      /\ disk \in [Name -> Text \cup {Missing}] /\ prompt \in {"none", "close", "quit"}
      /\ session = "quit" => saved = NamesFrom(slots)
  BY DEF IInv, TablesGood, Kinds
<1>2. /\ session # "running" /\ sessions' = sessions + 1
      /\ prompt' = prompt /\ saved' = saved /\ disk' = disk
  BY DEF Restart
<1>3. CASE ~ eddy_open_dir(saved).ok
  <2>1. session' = "fatal" /\ UNCHANGED editor
    BY <1>3 DEF Restart
  <2>2. Kinds'
    BY <1>1, <1>2, <2>1 DEF IInv, Kinds, editor
  <2> QED
    BY <2>1, <2>2, TablesAlone
<1>4. CASE eddy_open_dir(saved).ok
  <2>1. PICK args \in Arguments :
          Becomes(Started(OpenArguments(eddy_open_dir(saved).slots, args)))
    BY <1>4 DEF Restart
  <2>2. session' = "running"
    BY <1>4 DEF Restart
  <2>3. PICK ss : ss = Opened(<< >>, saved)[Len(saved)]
    OBVIOUS
  <2>4. eddy_open_dir(saved).slots = ss
    BY <2>3 DEF eddy_open_dir
  <2>5. ss \in Table /\ \A j \in 1 .. Len(saved) : saved[j] \in NamesIn(ss)
    <3>1. << >> \in Table
      BY DEF Table
    <3> QED
      BY <1>1, <2>3, <3>1, OpenedTables DEF HasOpened
  <2>6. PICK tt : tt = Opened(ss, args)[Len(args)]
    OBVIOUS
  <2>7. args \in Seq(Name)
    BY EditorViewsAssumption
  <2>8. tt \in Table /\ Grown(ss, tt)
    BY <1>1, <2>5, <2>6, <2>7, OpenedTables DEF HasOpened
  <2>9. PICK e : e = Started(tt)
    OBVIOUS
  <2>10. Becomes(e)
    BY <2>1, <2>4, <2>6, <2>9 DEF OpenArguments
  <2>11. /\ e.misstep = "none"
         /\ slots' = e.slots /\ views' = e.views /\ current' = e.current
    BY <2>10 DEF Becomes
  <2>12. GoodEditor(tt, e)
    BY <2>8, <2>9, <2>11, StartedEditor
  <2>13. TablesGood'
    BY <2>11, <2>12 DEF TablesGood, GoodEditor
  <2>14. Kinds'
    BY <1>1, <1>2, <2>2 DEF Kinds
  <2>15. ASSUME session = "quit" PROVE NamesIn(slots) \subseteq NamesIn(slots')
    <3>1. NamesSoFar(slots, Len(slots), saved)
      BY <1>1, <2>15, NamesSaved
    <3>2. DOMAIN slots = 1 .. Len(slots) /\ DOMAIN saved = 1 .. Len(saved)
      BY <1>1, LenProperties DEF Table
    <3>3. NamesIn(slots) \subseteq NamesIn(ss)
      <4> SUFFICES ASSUME NEW b \in DOMAIN slots, slots[b].name # NoName
                   PROVE  slots[b].name \in NamesIn(ss)
        BY DEF NamesIn
      <4>1. PICK j \in DOMAIN saved : saved[j] = slots[b].name
        BY <3>1, <3>2 DEF NamesSoFar
      <4> QED
        BY <2>5, <3>2, <4>1
    <3>4. NamesIn(ss) \subseteq NamesIn(tt)
      BY <2>5, <2>8, GrownNames
    <3>5. NamesIn(tt) \subseteq NamesIn(e.slots)
      BY <2>8, <2>12, GrownNames DEF GoodEditor
    <3> QED
      BY <2>11, <3>3, <3>4, <3>5
  <2>16. StepFacts
    BY <1>2, <2>15 DEF StepFacts, InSession
  <2> QED
    BY <2>13, <2>14, <2>16 DEF IInv
<1> QED
  BY <1>3, <1>4

-----------------------------------------------------------------------------
(* The theorems.                                                              *)

(* Starting makes no misstep: there is no view yet.                              *)
LEMMA StartedSteady ==
  ASSUME NEW ss
  PROVE  Started(ss).misstep = "none"
<1> DEFINE some == IF ss = << >> THEN eddy_new_buffer(ss) ELSE ss
           e == [slots |-> some, views |-> << >>, current |-> 1, misstep |-> "none"]
<1>1. Started(ss) = editor_select_buffer(e, 1)
  BY DEF Started
<1> HIDE DEF some
<1>2. /\ {v \in DOMAIN e.views : e.views[v] = 1} = {}
      /\ {v \in DOMAIN e.views : e.views[v] = Hole} = {}
  OBVIOUS
<1>3. editor_select_buffer(e, 1).misstep = "none"
  BY <1>2 DEF editor_select_buffer
<1> QED
  BY <1>1, <1>3

(* The first session starts with good tables.                                  *)
LEMMA InitGood ==
  ASSUME Init
  PROVE  IInv
<1>1. /\ disk \in [Name -> Text \cup {Missing}] /\ saved = << >>
      /\ session = "running" /\ sessions = 1 /\ prompt = "none"
  BY EditorViewsAssumption DEF Init
<1>2. PICK args \in Arguments :
        LET e == Started(OpenArguments(<< >>, args))
        IN  slots = e.slots /\ views = e.views /\ current = e.current /\ misstep = e.misstep
  BY DEF Init
<1>3. PICK tt : tt = Opened(<< >>, args)[Len(args)]
  OBVIOUS
<1>4. tt \in Table
  <2>1. << >> \in Table /\ args \in Seq(Name)
    BY EditorViewsAssumption DEF Table
  <2> QED
    BY <1>1, <1>3, <2>1, OpenedTables DEF HasOpened
<1>5. PICK e : e = Started(tt)
  OBVIOUS
<1>6. slots = e.slots /\ views = e.views /\ current = e.current /\ e.misstep = "none"
  BY <1>2, <1>3, <1>5, StartedSteady DEF OpenArguments
<1>7. GoodEditor(tt, e)
  BY <1>4, <1>5, <1>6, StartedEditor
<1>8. TablesGood
  BY <1>6, <1>7 DEF TablesGood, GoodEditor
<1>9. Kinds
  <2>1. misstep = "none"
    BY <1>2, StartedSteady
  <2> QED
    BY <1>1, <2>1 DEF Kinds
<1> QED
  BY <1>8, <1>9 DEF IInv

(* Every step, and every one that changes nothing.                              *)
LEMMA EveryStep ==
  ASSUME IInv, [Next /\ misstep' = "none"]_vars
  PROVE  IInv' /\ StepFacts
<1>1. ASSUME NEW n \in Name, OpenFile(n), misstep' = "none" PROVE IInv' /\ StepFacts
  BY <1>1, OpenFileStep
<1>2. ASSUME editor_cmd_switch_buffer, misstep' = "none" PROVE IInv' /\ StepFacts
  BY <1>2, SwitchStep
<1>3. ASSUME editor_cmd_close_view, misstep' = "none" PROVE IInv' /\ StepFacts
  BY <1>3, CloseViewStep
<1>4. ASSUME NEW t \in Text, Edit(t), misstep' = "none" PROVE IInv' /\ StepFacts
  BY <1>4, EditStep
<1>5. ASSUME NEW n \in Name \cup {NoName}, Save(n), misstep' = "none" PROVE IInv' /\ StepFacts
  BY <1>5, SaveStep
<1>6. ASSUME eddy_on_draw, misstep' = "none" PROVE IInv' /\ StepFacts
  BY <1>6, DrawStep
<1>7. ASSUME editor_cmd_close_buffer PROVE IInv' /\ StepFacts
  BY <1>7, AskedFirst, AskStep
<1>8. ASSUME eddy_cmd_quit PROVE IInv' /\ StepFacts
  BY <1>8, AskStep DEF eddy_cmd_quit
<1>9. ASSUME NEW button \in Buttons, AnswerClose(button), misstep' = "none"
      PROVE  IInv' /\ StepFacts
  BY <1>9, AnswerCloseStep
<1>10. ASSUME NEW button \in Buttons \ {"Cancel"}, AnswerQuit(button) PROVE IInv' /\ StepFacts
  BY <1>10, AnswerQuitStep
<1>11. ASSUME eddy_cmd_force_quit PROVE IInv' /\ StepFacts
  BY <1>11, ForceQuitStep
<1>12. ASSUME Killed PROVE IInv' /\ StepFacts
  BY <1>12, KilledStep
<1>13. ASSUME Restart, misstep' = "none" PROVE IInv' /\ StepFacts
  BY <1>13, RestartStep
<1>14. ASSUME UNCHANGED vars PROVE IInv' /\ StepFacts
  <2>1. Kinds' /\ session' = session /\ UNCHANGED editor
    BY <1>14 DEF IInv, Kinds, vars, editor
  <2> QED
    BY <2>1, TablesAlone
<1> QED
  BY <1>1, <1>2, <1>3, <1>4, <1>5, <1>6, <1>7, <1>8, <1>9, <1>10, <1>11, <1>12, <1>13, <1>14
  DEF Next

(* The inductive invariant, of the behaviours in which no buffer gets the view of *)
(* a hole and none is zeroed under its view: eddy.c and editor.c keep the tables   *)
(* of buffers and of views in agreement.                                        *)
THEOREM Invariance == SteadySpec => []IInv
<1>1. IInv /\ [Next /\ misstep' = "none"]_vars => IInv'
  BY EveryStep
<1>2. Init => IInv
  BY InitGood
<1> QED
  BY <1>1, <1>2, PTL DEF SteadySpec

(* The types of the tables, in those behaviours.                                 *)
THEOREM TypeCorrect == SteadySpec => []TypeOK
<1>1. IInv => TypeOK
  <2> SUFFICES ASSUME IInv PROVE TypeOK
    OBVIOUS
  <2>1. slots \in Seq(Slot)
    <3>1. SoundSlot \subseteq Slot /\ slots \in Seq(SoundSlot)
      BY DEF IInv, TablesGood, Table, SoundSlot
    <3> QED
      BY <3>1, SeqMonotonic
  <2>2. views \in Seq(Nat) /\ DOMAIN views = 1 .. Len(views) /\ Len(views) \in Nat
    BY LenProperties DEF IInv, TablesGood, ViewsGood
  <2>3. DOMAIN slots = 1 .. Len(slots) /\ Len(slots) \in Nat
    BY <2>1, LenProperties
  <2>4. \A v \in 1 .. Len(views) : views[v] \in 0 .. Len(slots)
    BY <2>2, <2>3 DEF IInv, TablesGood, ViewsGood, Hole
  <2>5. views \in Seq(0 .. Len(slots))
    <3>1. views = [v \in 1 .. Len(views) |-> views[v]]
      BY <2>2
    <3> QED
      BY <2>2, <2>4, <3>1, SeqDef
  <2>6. current \in Nat \ {0}
    BY <2>2 DEF IInv, TablesGood, CurrentGood
  <2> QED
    BY <2>1, <2>5, <2>6 DEF TypeOK, IInv, Kinds
<1> QED
  BY <1>1, Invariance, PTL

(* In those behaviours the view that is current can be drawn and edited: it is in  *)
(* the table, shows a buffer, and that has lines or gets them with the next frame   *)
(* (editor.c uses all three without a test).                                     *)
THEOREM CurrentUsable == SteadySpec => []CurrentViewUsable
<1>1. IInv => CurrentViewUsable
  <2> SUFFICES ASSUME IInv PROVE CurrentViewUsable
    OBVIOUS
  <2>1. /\ Shown \in DOMAIN slots /\ slots[Shown] \in SoundSlot
        /\ slots[Shown].edits < slots[Shown].version
    BY ShownBuffer DEF IInv
  <2>2. current \in DOMAIN views
    BY DEF IInv, TablesGood, CurrentGood
  <2> DEFINE b == slots[Shown]
  <2>3. b.lines \/ b.indexed # b.version
    <3> HIDE DEF b
    <3>1. b \in SoundSlot /\ b.edits < b.version
      BY <2>1 DEF b
    <3>2. b.edits \in Nat /\ b.version \in Nat /\ (~ b.lines => b.indexed = 0)
      BY <3>1 DEF SoundSlot, Slot
    <3>3. b.version # 0
      BY <3>1, <3>2
    <3> QED
      BY <3>2, <3>3
  <2> QED
    BY <2>1, <2>2, <2>3 DEF CurrentViewUsable
<1> QED
  BY <1>1, Invariance, PTL

(* What a step does to a buffer that it forgets, in those behaviours.             *)
LEMMA StepsKeepFacts == SteadySpec => [][StepFacts]_vars
<1>1. IInv /\ [Next /\ misstep' = "none"]_vars => StepFacts
  BY EveryStep
<1>2. SteadySpec => [][IInv /\ (Next /\ misstep' = "none")]_vars
  BY Invariance, PTL DEF SteadySpec
<1> QED
  BY <1>1, <1>2, PTL

(* Within a session, a text that is not on disk goes only when a question was     *)
(* answered (editor_cmd_close_buffer, editor_are_you_sure_handler).              *)
THEOREM LossIsAsked == SteadySpec => NothingLostUnasked
<1>1. StepFacts =>
        (InSession /\ (\E b \in DOMAIN slots :
                         Forgets(b) /\ slots[b].text # StoredIn(disk, slots[b].name))
           => prompt = "close")
  BY DEF StepFacts, Forgets
<1> QED
  BY <1>1, StepsKeepFacts, PTL DEF NothingLostUnasked

(* A named document that is closed is on disk as it was shown: it is saved before  *)
(* its view is closed, and has always a version to save.                         *)
THEOREM ClosedIsKept == SteadySpec => ClosedIsOnDisk
<1>1. IInv /\ StepFacts =>
        (InSession => \A b \in DOMAIN slots :
           Forgets(b) /\ slots[b].name # NoName => StoredIn(disk', slots[b].name) = slots[b].text)
  <2> SUFFICES ASSUME IInv, StepFacts, InSession, NEW b \in DOMAIN slots, Forgets(b),
                      slots[b].name # NoName
               PROVE  StoredIn(disk', slots[b].name) = slots[b].text
    OBVIOUS
  <2>1. disk'[slots[b].name] = slots[b].text
    BY DEF StepFacts, Forgets
  <2>2. slots[b].text \in Text
    BY ElementOfSeq DEF IInv, TablesGood, Table, SoundSlot, Slot
  <2> QED
    BY <2>1, <2>2, EditorViewsAssumption DEF StoredIn
<1>2. SteadySpec => [][IInv /\ StepFacts]_vars
  BY StepsKeepFacts, Invariance, PTL
<1> QED
  BY <1>1, <1>2, PTL DEF ClosedIsOnDisk

(* The session after a quit has every document the last one had, whatever the     *)
(* command line adds (eddy_quit, eddy_start).                                    *)
THEOREM SessionsFollow == SteadySpec => SessionIsKept
<1>1. StepFacts =>
        (session = "quit" /\ session' = "running" => NamesIn(slots) \subseteq NamesIn(slots'))
  BY DEF StepFacts
<1> QED
  BY <1>1, StepsKeepFacts, PTL DEF SessionIsKept

=============================================================================
