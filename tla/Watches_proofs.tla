--------------------------- MODULE Watches_proofs ---------------------------
(***************************************************************************)
(* What writing, and delivering to a cache, does to the relation between   *)
(* an object and its cache.                                                *)
(***************************************************************************)
EXTENDS Watches, TLAPS, SequenceTheorems

\* A write keeps it.
LEMMA TrailsAppend ==
    ASSUME NEW T, NEW watch \in Seq(T), NEW obj \in T, NEW cached
    PROVE  Trails(cached, Append(watch, obj), obj)
BY DEF Trails

\* A delivery keeps it.
LEMMA TrailsTail ==
    ASSUME NEW T, NEW watch \in Seq(T), watch # << >>, NEW obj, NEW cached,
           Trails(cached, watch, obj)
    PROVE  Trails(Head(watch), Tail(watch), obj)
<1>1. /\ Len(watch) \in Nat \ {0}
      /\ Tail(watch) \in Seq(T) /\ Len(Tail(watch)) = Len(watch) - 1
      /\ \A i \in 1 .. Len(Tail(watch)) : Tail(watch)[i] = watch[i+1]
  BY HeadTailProperties, EmptySeq
<1>2. watch[Len(watch)] = obj
  BY DEF Trails
<1>3. Tail(watch) = << >> <=> Len(Tail(watch)) = 0
  <2>1. \A t \in Seq(T) : t # << >> => Len(t) \in Nat \ {0}
    BY EmptySeq, Zenon
  <2>2. Len(<< >>) = 0
    BY EmptySeq
  <2> QED
    BY <1>1, <2>1, <2>2
<1>4. CASE Len(watch) = 1
  <2>1. Tail(watch) = << >>
    BY <1>1, <1>4, <1>3
  <2>2. Head(watch) = watch[1]
    OBVIOUS
  <2> QED
    BY <1>2, <1>4, <2>1, <2>2 DEF Trails
<1>5. CASE Len(watch) > 1
  <2>1. Tail(watch) # << >>
    BY <1>1, <1>5, <1>3
  <2>2. Len(Tail(watch)) \in 1 .. Len(Tail(watch))
    BY <1>1, <1>5
  <2>3. Tail(watch)[Len(Tail(watch))] = watch[Len(Tail(watch)) + 1]
    BY <1>1, <2>2
  <2>4. Len(Tail(watch)) + 1 = Len(watch)
    BY <1>1
  <2> QED
    BY <1>2, <2>1, <2>3, <2>4 DEF Trails
<1> QED
  BY <1>1, <1>4, <1>5
=============================================================================
