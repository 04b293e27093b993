---------------------------- MODULE ArenaProofs ----------------------------
(***************************************************************************)
(* Proofs about Arena, for blocks, requests, ids and words of any size.    *)
(* ArenaInv, with WrapNeedsHuge, is inductive.                             *)
(***************************************************************************)
EXTENDS Arena, TLAPS

USE SizesAssumption, BlocksAssumption DEF SizesAssumption, BlocksAssumption

Inv == ArenaInv /\ WrapNeedsHuge

LEMMA ArenaInit == Init => Inv
<1> SUFFICES ASSUME Init PROVE Inv
  OBVIOUS
<1>1. blocks = <<[id |-> 0, wiped |-> FALSE, off |-> 0, cap |-> BlockSize]>>
  BY DEF Init, NewBlock
<1>2. TypeOK
  <2>1. [id |-> 0, wiped |-> FALSE, off |-> 0, cap |-> BlockSize] \in Blocks
    BY DEF Blocks
  <2>2. blocks \in Seq(Blocks)
    BY <1>1, <2>1
  <2>3. dirty \subseteq (Nat \ {0}) \X Nat /\ allocs \subseteq Regions
    BY DEF Init
  <2>4. current \in Nat \ {0} /\ largest \in Nat /\ status \in {"live", "locked", "corrupt", "freed"}
    BY DEF Init
  <2> QED
    BY <2>2, <2>3, <2>4 DEF Init, TypeOK
<1>3. ChainInOrder
  BY <1>1 DEF Init, ChainInOrder, Largest
<1> QED
  BY <1>2, <1>3 DEF Init, Inv, ArenaInv, AllocsInOrder, NoOverlap, FreshIsZero, WrapNeedsHuge

(* A caller gets units of a block that nobody has, and the block counts    *)
(* them.                                                                   *)
LEMMA GiveInv ==
  ASSUME Inv, NEW u \in Sizes, NEW b \in Nat \ {0}, NEW lo \in Nat, u # Word,
         Ask(u), Give(b, lo, u), blocks' \in Seq(Blocks), b >= current,
         b \in DOMAIN blocks', DOMAIN blocks \subseteq DOMAIN blocks',
         \A c \in DOMAIN blocks : c # b => blocks'[c] = blocks[c],
         \A c \in DOMAIN blocks' : c \in DOMAIN blocks \/ c = b,
         \A c \in DOMAIN blocks' : c >= b => c = b \/ c \in DOMAIN blocks,
         b \in DOMAIN blocks =>
           blocks[b].cap = blocks'[b].cap /\ lo = Start(b),
         b \notin DOMAIN blocks => lo = 0,
         blocks'[b].off = lo + u, lo + u <= blocks'[b].cap,
         blocks'[b].cap <= Largest'
  PROVE  Inv'
<1> DEFINE new == [b |-> b, lo |-> lo, hi |-> lo + u]
<1>0. /\ status = "live" /\ status' = "live" /\ current' = b /\ fresh' = FALSE
      /\ allocs' = allocs \cup {new}
      /\ UNCHANGED <<fd, db, dirty>>
      /\ u \in Nat /\ largest' \in Nat /\ largest' >= largest /\ Largest' >= Largest
  BY DEF Ask, Give, Inv, ArenaInv, TypeOK, Largest
<1>1. TypeOK'
  <2>1. new \in Regions
    BY <1>0 DEF Regions
  <2>2. allocs' \subseteq Regions
    BY <2>1, <1>0 DEF Inv, ArenaInv, TypeOK
  <2> QED
    BY <2>2, <1>0 DEF Inv, ArenaInv, TypeOK
<1>2. \A x \in allocs : /\ x \in Regions /\ x.b \in DOMAIN blocks
                        /\ x.lo <= x.hi /\ x.hi <= blocks[x.b].off
  BY DEF Inv, ArenaInv, TypeOK, AllocsInOrder
<1>3. \A x \in allocs : x.b = b => x.hi <= lo
  <2>1. ASSUME NEW x \in allocs, x.b = b
        PROVE  x.hi <= lo
    <3>1. b \in DOMAIN blocks /\ lo = Start(b) /\ x.hi <= blocks[b].off
      BY <2>1, <1>2
    <3>2. b # current => blocks[b].off = 0
      BY <3>1, <1>0, <1>2 DEF Inv, ArenaInv, ChainInOrder, TypeOK
    <3> QED
      BY <3>1, <3>2 DEF Start
  <2> QED
    BY <2>1
<1>4. \A x \in allocs : x.b \in DOMAIN blocks'
  BY <1>2
<1>5. AllocsInOrder'
  <2>1. ASSUME NEW x \in allocs
        PROVE  x.b \in DOMAIN blocks' /\ x.lo <= x.hi /\ x.hi <= blocks'[x.b].off
    <3>1. CASE x.b # b
      BY <2>1, <3>1, <1>2
    <3>2. CASE x.b = b
      BY <2>1, <3>2, <1>0, <1>2, <1>3 DEF Regions
    <3> QED
      BY <3>1, <3>2
  <2> QED
    BY <2>1, <1>0 DEF AllocsInOrder
<1>6. ChainInOrder'
  <2>1. ASSUME NEW c \in DOMAIN blocks'
        PROVE  /\ blocks'[c].off <= blocks'[c].cap
               /\ blocks'[c].cap <= Largest'
               /\ c > current' => blocks'[c].off = 0
    <3>1. CASE c = b
      BY <3>1, <1>0
    <3>2. CASE c # b
      <4>1. c \in DOMAIN blocks /\ blocks'[c] = blocks[c] /\ blocks[c] \in Blocks
        BY <2>1, <3>2 DEF Inv, ArenaInv, TypeOK
      <4>2. /\ blocks[c].off <= blocks[c].cap
            /\ blocks[c].cap <= Largest
            /\ c > current => blocks[c].off = 0
        BY <4>1, <1>0 DEF Inv, ArenaInv, ChainInOrder
      <4>3. c > b => c > current
        BY <4>1 DEF Inv, ArenaInv, TypeOK
      <4> QED
        <5>1. blocks'[c].cap \in Nat /\ Largest \in Nat /\ Largest' \in Nat
          BY <4>1, <1>0 DEF Blocks, Largest, Inv, ArenaInv, TypeOK
        <5> QED
          BY <4>1, <4>2, <4>3, <5>1, <1>0
    <3> QED
      BY <3>1, <3>2
  <2> QED
    BY <2>1, <1>0 DEF ChainInOrder
<1>7. NoOverlap'
  <2>1. \A x \in allocs : x.hi <= blocks'[x.b].cap /\ x.b \in DOMAIN blocks'
    <3>1. ASSUME NEW x \in allocs
          PROVE  x.hi <= blocks'[x.b].cap
      <4>1. x.hi <= blocks[x.b].cap /\ x.b \in DOMAIN blocks
        BY <3>1 DEF Inv, ArenaInv, NoOverlap
      <4> QED
        BY <4>1
    <3> QED
      BY <3>1, <1>4
  <2>2. \A x, y \in allocs : x # y => Disjoint(x, y)
    BY DEF Inv, ArenaInv, NoOverlap
  <2>3. \A x \in allocs : Disjoint(x, new) /\ Disjoint(new, x)
    BY <1>3, <1>0 DEF Disjoint
  <2>4. new.b \in DOMAIN blocks' /\ new.hi <= blocks'[new.b].cap
    BY <1>0
  <2> QED
    BY <2>1, <2>2, <2>3, <2>4, <1>0 DEF NoOverlap, Disjoint
<1>8. FreshIsZero'
  BY <1>0 DEF Inv, ArenaInv, FreshIsZero, Units
<1> QED
  BY <1>0, <1>1, <1>5, <1>6, <1>7, <1>8 DEF Inv, ArenaInv, WrapNeedsHuge

LEMMA AllocInv ==
  ASSUME Inv, NEW u \in Sizes, AllocInChain(u) \/ AllocNewBlock(u)
  PROVE  Inv'
<1>0. /\ status = "live" /\ current \in DOMAIN blocks /\ current \in Nat \ {0}
      /\ blocks \in Seq(Blocks) /\ Len(blocks) \in Nat /\ DOMAIN blocks = 1 .. Len(blocks)
      /\ \A b \in DOMAIN blocks : blocks[b].off <= blocks[b].cap
                                  /\ blocks[b] \in Blocks /\ blocks[b].cap <= Largest
  BY DEF AllocInChain, AllocNewBlock, Ask, Inv, ArenaInv, ChainInOrder, TypeOK
<1>1. largest \in Nat /\ u \in Nat /\ largest' \in Nat /\ u <= largest' /\ Largest <= Largest'
      /\ Largest \in Nat /\ Largest' \in Nat /\ BlockSize <= Largest' /\ u <= Largest'
  BY DEF AllocInChain, AllocNewBlock, Ask, Inv, ArenaInv, TypeOK, Largest
<1>2. CASE AllocInChain(u)
  <2>1. PICK b \in Fitting(u) :
          ~Wraps(b, u) /\ blocks' = BumpTo(b, u) /\ Give(b, Start(b), u)
    BY <1>2 DEF AllocInChain
  <2>2. b \in DOMAIN blocks /\ b >= current /\ b \in Nat \ {0} /\ Fits(b, u)
    BY <2>1, <1>0 DEF Fitting
  <2>3. Start(b) \in Nat /\ u # Word /\ Start(b) + u <= blocks[b].cap
    <3>1. blocks[b].off \in Nat /\ blocks[b].cap \in Nat
      BY <2>2, <1>0 DEF Blocks
    <3>2. Start(b) \in Nat
      BY <3>1 DEF Start
    <3>3. u # Word /\ Start(b) + u < Word
      BY <2>1, <3>2, <1>1 DEF Wraps
    <3>4. Start(b) + u <= blocks[b].cap
      BY <2>2, <3>3 DEF Fits, Aligned
    <3> QED
      BY <3>2, <3>3, <3>4
  <2>4. blocks' = [blocks EXCEPT ![b] = [blocks[b] EXCEPT !.off = Start(b) + u]]
    BY <2>1 DEF BumpTo
  <2>5. [blocks[b] EXCEPT !.off = Start(b) + u] \in Blocks
    <3>1. Start(b) + u \in Nat /\ blocks[b] \in Blocks
      BY <2>2, <2>3, <1>0, <1>1
    <3> QED
      BY <3>1 DEF Blocks
  <2>6. /\ blocks' \in Seq(Blocks) /\ DOMAIN blocks' = DOMAIN blocks
        /\ blocks'[b] = [blocks[b] EXCEPT !.off = Start(b) + u]
        /\ \A c \in DOMAIN blocks : c # b => blocks'[c] = blocks[c]
    BY <2>2, <2>4, <2>5, <1>0
  <2>7. blocks'[b].off = Start(b) + u /\ blocks'[b].cap = blocks[b].cap
    BY <2>2, <2>6, <1>0 DEF Blocks
  <2>8. blocks'[b].cap <= Largest'
    <3>1. blocks[b].cap \in Nat /\ blocks[b].cap <= Largest
      BY <2>2, <1>0 DEF Blocks
    <3> QED
      BY <3>1, <2>7, <1>1
  <2> QED
    BY <2>1, <2>2, <2>3, <2>6, <2>7, <2>8, <1>2, GiveInv DEF AllocInChain
<1>3. CASE AllocNewBlock(u)
  <2> DEFINE last == Len(blocks)
             id   == NextId
             new  == [NewBlock(id, NewSize(u)) EXCEPT !.off = u]
  <2>1. /\ Fitting(u) = {} /\ blocks' = Append(blocks, new) /\ Give(last + 1, 0, u)
    BY <1>3 DEF AllocNewBlock
  <2>2. u # Word
    <3>1. CASE u = Word
      <4>1. current \in Fitting(u)
        BY <3>1, <1>0 DEF Fitting, Fits, Aligned, Start, Blocks
      <4> QED
        BY <4>1, <2>1
    <3> QED
      BY <3>1
  <2>3. NewSize(u) \in Nat /\ u <= NewSize(u) /\ NewSize(u) <= Largest'
    BY <2>2, <1>1 DEF NewSize, Aligned, Largest
  <2>4. id \in 0 .. Ids - 1
    <3>1. last \in DOMAIN blocks /\ blocks[last].id \in 0 .. Ids - 1
      <4>1. last \in DOMAIN blocks
        BY <1>0
      <4> QED
        BY <4>1, <1>0 DEF Blocks
    <3> QED
      BY <3>1 DEF NextId
  <2>5. new \in Blocks /\ new.off = u /\ new.cap = NewSize(u)
    BY <2>3, <2>4, <1>1 DEF Blocks, NewBlock
  <2>6. /\ blocks' \in Seq(Blocks) /\ DOMAIN blocks' = 1 .. last + 1
        /\ blocks'[last + 1] = new
        /\ \A c \in DOMAIN blocks : blocks'[c] = blocks[c]
    BY <2>1, <2>5, <1>0
  <2>7. last + 1 \in Nat \ {0} /\ last + 1 >= current /\ last + 1 \notin DOMAIN blocks
    BY <1>0
  <2>8. blocks'[last + 1].off = 0 + u /\ blocks'[last + 1].cap = NewSize(u)
    BY <2>5, <2>6, <1>1
  <2> HIDE DEF last, id, new
  <2>9. \A c \in DOMAIN blocks' : c \in DOMAIN blocks \/ c = last + 1
    BY <2>6, <1>0 DEF last
  <2>10. DOMAIN blocks \subseteq DOMAIN blocks' /\ last + 1 \in DOMAIN blocks'
    BY <2>6, <2>7, <1>0 DEF last
  <2>11. Ask(u) /\ 0 + u <= blocks'[last + 1].cap /\ blocks'[last + 1].cap <= Largest'
    <3>1. Ask(u)
      BY <1>3 DEF AllocNewBlock
    <3> QED
      BY <3>1, <1>1, <2>3, <2>8
  <2> QED
    BY <2>1, <2>2, <2>6, <2>7, <2>8, <2>9, <2>10, <2>11, GiveInv
<1> QED
  BY <1>2, <1>3

(* Shredding some blocks, with or without their offsets.                   *)
LEMMA ShredInv ==
  ASSUME Inv, NEW bs \in SUBSET DOMAIN blocks, NEW rewind \in BOOLEAN,
         status = "live", status' = "live", Shred(bs, rewind),
         current' \in DOMAIN blocks, current' = current \/ (bs = DOMAIN blocks /\ rewind),
         fd' \in BOOLEAN, db' \in BOOLEAN, fresh' \in BOOLEAN, largest' = largest
  PROVE  Inv'
<1>1. /\ blocks' = [b \in DOMAIN blocks |->
            IF b \notin bs THEN blocks[b]
            ELSE [blocks[b] EXCEPT !.wiped = TRUE, !.off = IF rewind THEN 0 ELSE @]]
      /\ dirty' = {d \in dirty : d[1] \notin bs}
      /\ allocs' = {x \in allocs : ~(rewind /\ x.b \in bs)}
  BY DEF Shred
<1>2. blocks \in Seq(Blocks) /\ Len(blocks) \in Nat /\ DOMAIN blocks = 1 .. Len(blocks)
  BY DEF Inv, ArenaInv, TypeOK
<1>3. \A b \in DOMAIN blocks :
        /\ blocks'[b] \in Blocks
        /\ blocks'[b].cap = blocks[b].cap
        /\ blocks'[b].off = IF b \in bs /\ rewind THEN 0 ELSE blocks[b].off
  <2>1. \A b \in DOMAIN blocks : blocks[b] \in Blocks
    BY <1>2
  <2> QED
    BY <1>1, <2>1 DEF Blocks
<1>4. DOMAIN blocks' = DOMAIN blocks /\ blocks' \in Seq(Blocks)
  <2>1. DOMAIN blocks' = 1 .. Len(blocks)
    BY <1>1, <1>2
  <2>2. blocks' \in [1 .. Len(blocks) -> Blocks]
    BY <1>1, <1>2, <1>3
  <2> QED
    BY <1>2, <2>1, <2>2
<1>5. TypeOK'
  <2>1. dirty' \subseteq dirty /\ allocs' \subseteq allocs
    BY <1>1
  <2>2. current' \in Nat \ {0}
    BY <1>2
  <2> QED
    BY <2>1, <2>2, <1>4 DEF Inv, ArenaInv, TypeOK
<1>6. ChainInOrder'
  <2>1. \A b \in DOMAIN blocks : /\ blocks[b] \in Blocks
                                 /\ blocks[b].off <= blocks[b].cap /\ blocks[b].cap <= Largest
                                 /\ b > current => blocks[b].off = 0
    BY <1>2 DEF Inv, ArenaInv, ChainInOrder
  <2>2. ASSUME NEW b \in DOMAIN blocks
        PROVE  /\ blocks'[b].off <= blocks'[b].cap /\ blocks'[b].cap <= Largest
               /\ b > current' => blocks'[b].off = 0
    BY <2>1, <1>3 DEF Blocks
  <2>3. Largest' = Largest
    BY DEF Largest
  <2> QED
    BY <2>2, <2>3, <1>4 DEF ChainInOrder
<1>7. AllocsInOrder' /\ NoOverlap'
  BY <1>1, <1>3, <1>4 DEF Inv, ArenaInv, AllocsInOrder, NoOverlap, Disjoint
<1>8. FreshIsZero'
  <2>1. ASSUME NEW d \in dirty, d[1] \notin bs
        PROVE  \E x \in allocs' : d \in Units(x)
    <3>1. PICK x \in allocs : d \in Units(x)
      BY DEF Inv, ArenaInv, FreshIsZero
    <3>2. x.b = d[1]
      BY <3>1 DEF Units
    <3> QED
      BY <3>1, <3>2, <2>1, <1>1
  <2> QED
    BY <2>1, <1>1 DEF FreshIsZero, Units
<1> QED
  BY <1>5, <1>6, <1>7, <1>8 DEF Inv, ArenaInv, WrapNeedsHuge

LEMMA ArenaNext == Inv /\ [Next]_vars => Inv'
<1> SUFFICES ASSUME Inv, [Next]_vars PROVE Inv'
  OBVIOUS
<1> USE DEF flagVars
<1>1. ASSUME NEW u \in Sizes, AllocOutOfMemory(u)
      PROVE  Inv'
  <2>1. /\ status = "live" /\ status' = "locked" /\ current' = Len(blocks)
        /\ UNCHANGED <<blocks, fd, db, fresh, allocs, dirty>>
        /\ largest' \in Nat /\ largest' >= largest /\ largest \in Nat /\ Largest' >= Largest
    BY <1>1 DEF AllocOutOfMemory, Ask, Inv, ArenaInv, TypeOK, Largest
  <2>2. current \in DOMAIN blocks /\ Len(blocks) \in DOMAIN blocks /\ current <= Len(blocks)
        /\ Len(blocks) \in Nat \ {0}
    BY <2>1 DEF Inv, ArenaInv, ChainInOrder, TypeOK
  <2>3. TypeOK'
    BY <2>1, <2>2 DEF Inv, ArenaInv, TypeOK
  <2>4. ChainInOrder'
    <3>1. \A b \in DOMAIN blocks : blocks[b].cap <= Largest'
      <4>0. \A b \in DOMAIN blocks : blocks[b] \in Blocks /\ blocks[b].cap <= Largest
        BY <2>1 DEF Inv, ArenaInv, ChainInOrder, TypeOK
      <4>1. \A b \in DOMAIN blocks : blocks[b].cap \in Nat /\ blocks[b].cap <= Largest
        BY <4>0 DEF Blocks
      <4>2. Largest \in Nat /\ Largest' \in Nat
        BY <2>1 DEF Largest
      <4> QED
        BY <2>1, <4>1, <4>2
    <3>2. \A b \in DOMAIN blocks : ~(b > Len(blocks))
      BY DEF Inv, ArenaInv, TypeOK
    <3> QED
      BY <2>1, <2>2, <3>1, <3>2 DEF Inv, ArenaInv, ChainInOrder
  <2> QED
    BY <2>1, <2>3, <2>4 DEF Inv, ArenaInv, AllocsInOrder, NoOverlap, Disjoint, FreshIsZero,
       Units, WrapNeedsHuge
<1>2. ASSUME NEW u \in Sizes, AllocWraps(u)
      PROVE  Inv'
  <2>1. /\ status = "live" /\ status' = "corrupt"
        /\ UNCHANGED <<blocks, current, fd, db, fresh, allocs, dirty>>
        /\ largest' \in Nat /\ largest \in Nat /\ Largest' >= Largest /\ Largest' >= u
        /\ u \in Nat /\ Largest' \in Nat /\ Largest \in Nat /\ BlockSize <= Largest'
    BY <1>2 DEF AllocWraps, Ask, Inv, ArenaInv, TypeOK, Largest
  <2>2. TypeOK'
    BY <2>1 DEF Inv, ArenaInv, TypeOK
  <2>3. \A b \in DOMAIN blocks : /\ blocks[b] \in Blocks /\ blocks[b].cap <= Largest
                                 /\ blocks[b].off <= blocks[b].cap
    BY <2>1 DEF Inv, ArenaInv, ChainInOrder, TypeOK
  <2>4. ChainInOrder'
    <3>1. \A b \in DOMAIN blocks : blocks[b].cap <= Largest'
      BY <2>1, <2>3 DEF Blocks
    <3> QED
      BY <2>1, <3>1 DEF Inv, ArenaInv, ChainInOrder
  <2>5. CASE Header + NewSize(u) >= Word
    <3>1. NewSize(u) <= Largest' /\ NewSize(u) \in Nat
      BY <2>1 DEF NewSize, Aligned
    <3>2. Header + Largest' >= Word
      <4>1. \A n, l \in Nat : n <= l /\ Header + n >= Word => Header + l >= Word
        OBVIOUS
      <4> QED
        BY <4>1, <3>1, <2>1, <2>5
    <3> QED
      BY <2>1, <2>2, <2>4, <3>2 DEF Inv, ArenaInv, AllocsInOrder, NoOverlap, Disjoint,
         FreshIsZero, Units, WrapNeedsHuge
  <2>6. ASSUME NEW b \in Fitting(u), Wraps(b, u)
        PROVE  Inv'
    <3>1. b \in DOMAIN blocks
      BY <2>6, <2>1 DEF Fitting, Inv, ArenaInv, ChainInOrder, TypeOK
    <3>2. Start(b) <= Largest' /\ Start(b) \in Nat
      BY <3>1, <2>1, <2>3 DEF Start, Blocks
    <3>3. 2 * Largest' >= Word
      <4>1. \A n, l \in Nat : n <= l /\ u <= l /\ (u = Word \/ n + u >= Word) => 2 * l >= Word
        BY <2>1
      <4> QED
        BY <4>1, <2>6, <3>2, <2>1 DEF Wraps
    <3> QED
      BY <2>1, <2>2, <2>4, <3>3 DEF Inv, ArenaInv, AllocsInOrder, NoOverlap, Disjoint,
         FreshIsZero, Units, WrapNeedsHuge
  <2> QED
    BY <1>2, <2>5, <2>6 DEF AllocWraps
<1>3. ASSUME NEW x \in allocs, Write(x)
      PROVE  Inv'
  <2>1. /\ dirty' = dirty \cup Units(x)
        /\ UNCHANGED <<status, blocks, current, fd, db, fresh, allocs, largest>>
    BY <1>3 DEF Write
  <2>2. x.b \in Nat \ {0} /\ x.lo \in Nat /\ x.hi \in Nat
    BY DEF Inv, ArenaInv, TypeOK, Regions
  <2>3. x.lo .. x.hi - 1 \subseteq Nat
    BY <2>2
  <2>4. Units(x) \subseteq (Nat \ {0}) \X Nat
    BY <2>2, <2>3 DEF Units
  <2>5. TypeOK'
    BY <2>1, <2>4 DEF Inv, ArenaInv, TypeOK
  <2>6. FreshIsZero'
    BY <2>1 DEF Inv, ArenaInv, FreshIsZero, Units
  <2> QED
    BY <2>1, <2>5, <2>6 DEF Inv, ArenaInv, ChainInOrder, AllocsInOrder, NoOverlap, Disjoint,
       WrapNeedsHuge, Largest
<1>4. CASE Reset
  <2>1. 1 \in DOMAIN blocks
    BY <1>4 DEF Reset, Inv, ArenaInv, ChainInOrder, TypeOK
  <2> QED
    BY <1>4, <2>1, ShredInv DEF Reset, Inv, ArenaInv, TypeOK
<1>5. ASSUME NEW bs \in SUBSET DOMAIN blocks, NEW rewind \in BOOLEAN, ArenaShred(bs, rewind)
      PROVE  Inv'
  BY <1>5, ShredInv DEF ArenaShred, Inv, ArenaInv, TypeOK, ChainInOrder
<1>6. ASSUME NEW f \in BOOLEAN, NEW d \in BOOLEAN, SetContains(f, d)
      PROVE  Inv'
  BY <1>6 DEF SetContains, Inv, ArenaInv, TypeOK, ChainInOrder, AllocsInOrder, NoOverlap,
     Disjoint, FreshIsZero, Units, WrapNeedsHuge, Largest
<1>7. ASSUME NEW force \in BOOLEAN, Destroy(force)
      PROVE  Inv'
  <2>1. /\ status' = "freed" /\ blocks' = << >> /\ current' = 1
        /\ allocs' = {} /\ dirty' = {} /\ UNCHANGED <<fd, db, fresh, largest>>
    BY <1>7 DEF Destroy
  <2>2. TypeOK'
    <3>1. dirty' \subseteq (Nat \ {0}) \X Nat /\ blocks' \in Seq(Blocks)
      BY <2>1
    <3> QED
      BY <2>1, <3>1 DEF Inv, ArenaInv, TypeOK
  <2> QED
    BY <2>1, <2>2 DEF Inv, ArenaInv, ChainInOrder, AllocsInOrder, NoOverlap, FreshIsZero,
       WrapNeedsHuge
<1>8. CASE UNCHANGED vars
  BY <1>8 DEF vars, Inv, ArenaInv, TypeOK, ChainInOrder, AllocsInOrder, NoOverlap, Disjoint,
     FreshIsZero, Units, WrapNeedsHuge, Largest
<1>9. \A id \in 0 .. Ids - 1 : WithId(id) \in SUBSET DOMAIN blocks
  BY DEF WithId
<1>10. \A rewind \in BOOLEAN : ArenaShred({current}, rewind) => {current} \in SUBSET DOMAIN blocks
  BY DEF ArenaShred, Inv, ArenaInv, ChainInOrder
<1>11. CASE \E rewind \in BOOLEAN :
              \/ ArenaShred(DOMAIN blocks, rewind)
              \/ ArenaShred({current}, rewind)
              \/ \E id \in 0 .. Ids - 1 : ArenaShred(WithId(id), rewind)
  BY <1>5, <1>9, <1>10, <1>11
<1>12. CASE \E u \in Sizes : Alloc(u)
  BY <1>1, <1>2, <1>12, AllocInv DEF Alloc
<1> QED
  BY <1>3, <1>4, <1>6, <1>7, <1>8, <1>11, <1>12 DEF Next

LEMMA ArenaInvariance == Spec => []Inv
<1> QED
  BY ArenaInit, ArenaNext, PTL DEF Spec

(* The chain of blocks stays in order, and what is handed out of it is     *)
(* disjoint and zero (allocator.c:10-151).                                 *)
THEOREM ArenaHolds == Spec => []ArenaInv
<1>1. Inv => ArenaInv
  BY DEF Inv
<1> QED
  BY <1>1, ArenaInvariance, PTL

(* Offsets, capacities, ids and indexes keep their types, ids also when    *)
(* they wrap (allocator.c:112).                                            *)
THEOREM ArenaTypes == Spec => []TypeOK
<1>1. Inv => TypeOK
  BY DEF Inv, ArenaInv
<1> QED
  BY <1>1, ArenaInvariance, PTL

(* arena_alloc() hands out disjoint memory inside its blocks, whatever is  *)
(* reset, shredded or used again in between (allocator.c:98-124).          *)
THEOREM AllocsDisjoint == Spec => []NoOverlap
<1>1. Inv => NoOverlap
  BY DEF Inv, ArenaInv
<1> QED
  BY <1>1, ArenaInvariance, PTL

(* What it will hand out next is zero (allocator.c:34, 47).                *)
THEOREM FreshMemoryIsZero == Spec => []FreshIsZero
<1>1. Inv => FreshIsZero
  BY DEF Inv, ArenaInv
<1> QED
  BY <1>1, ArenaInvariance, PTL

(* Its unchecked sums are right up to requests of half a word.             *)
THEOREM SumsAreSafe == Spec => []WrapNeedsHuge
<1>1. Inv => WrapNeedsHuge
  BY DEF Inv
<1> QED
  BY <1>1, ArenaInvariance, PTL
=============================================================================
