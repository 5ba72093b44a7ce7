--------------------------- MODULE BufCacheProofs ----------------------------
(***************************************************************************)
(* Proofs about the buffer cache, for every number of buffers, blocks and  *)
(* hash chains.  The inductive invariant says whose each buffer is: on one *)
(* of the two lists, with the filesystem code, or with the call in         *)
(* progress, of which CallShape says what it may hold at each stage.       *)
(*                                                                         *)
(* Then, that the cache implements the memory of blocks of BlockStore.     *)
(***************************************************************************)
EXTENDS BufCache, ListFacts, FiniteSetTheorems

(* The two lists hold each buffer of S once, and no other. *)
Queues(list, first, S) ==
  /\ list \in Seq(Bufs) /\ first \in Seq(Bufs)
  /\ Distinct(list) /\ Distinct(first)
  /\ \A x \in Bufs : ~(OnList(list, x) /\ OnList(first, x))
  /\ \A x \in Bufs : OnList(list, x) \/ OnList(first, x) <=> x \in S

FreeBufs == {x \in Bufs : "BUSY" \notin flags[x]}

FreeOnLists == Queues(av, aged, FreeBufs)

BusyInHand == \A x \in Bufs : "BUSY" \in flags[x] <=> x \in InHand

(* What a call holds at each of its stages. *)
CallShape ==
  /\ call.op = "idle" => call = Idle
  /\ call.stage = "idle" => call = Idle
  /\ call.stage = "get" => /\ call.op \in {"bread", "getblk", "breada", "geteblk"}
                           /\ call.want = NONE <=> call.op = "geteblk"
  /\ call.op \in {"bread", "breada"} => call.want # NONE
  /\ call.stage = "read" => call.op \in {"bread", "breada"} /\ call.rbp \in Bufs
  /\ call.stage \in {"ahead", "readahead", "wait"} => call.op = "breada"
  /\ call.stage = "readahead" <=> call.rabp \in Bufs
  /\ call.rbp \in Bufs => call.stage \in {"read", "ahead", "readahead", "wait"}
  /\ call.rbp \notin held /\ call.rabp \notin held
  /\ call.rbp \in Bufs => call.rbp # call.rabp

(* The type invariant, by the pieces an action changes. *)
HeaderTyped ==
  /\ kernel \in Kernels
  /\ dev \in [Bufs -> {"root", "none"}]
  /\ flags \in [Bufs -> SUBSET Flags]
  /\ chain \in [DOMAIN NoChains -> SUBSET Bufs]
  /\ av \in Seq(Bufs) /\ aged \in Seq(Bufs) /\ (kernel # "211" => aged = <<>>)

CallTypes == [op : {"idle", "bread", "getblk", "breada", "geteblk", "sync", "fsync"},
              stage : {"idle", "get", "read", "ahead", "readahead", "wait", "flush",
                       "blkflush", "pool"},
              want : Blocks \union {NONE}, ahead : Blocks \union {NONE},
              rbp : Bufs \union {NULL}, rabp : Bufs \union {NULL}]

CallTyped == call \in CallTypes /\ held \subseteq Bufs /\ CallShape

AnswerTyped ==
  /\ u_error \in {OK, EIO}
  /\ answer = NONE \/ answer \in {"read", "write", "lost", "sync"}
                                   \X (Blocks \union {NONE}) \X (Values \union {OK, EIO})

DataTyped ==
  /\ blkno \in [Bufs -> {Fsbtodb(b) : b \in Blocks}]
  /\ data \in [Bufs -> Values] /\ disk \in [Blocks -> Values]

Inv ==
  /\ HeaderTyped /\ DataTyped /\ CallTyped /\ AnswerTyped
  /\ FreeOnLists /\ BusyInHand


-----------------------------------------------------------------------------
(* What the lists do.                                                      *)

LEMMA QueuesWithout ==
  ASSUME NEW list, NEW first, NEW S, Queues(list, first, S), NEW x
  PROVE  Queues(Without(list, x), Without(first, x), S \ {x})
<1>1. /\ Without(list, x) \in Seq(Bufs) /\ Distinct(Without(list, x))
      /\ \A y : OnList(Without(list, x), y) <=> OnList(list, y) /\ y # x
  BY Removes DEF Queues, Without
<1>2. /\ Without(first, x) \in Seq(Bufs) /\ Distinct(Without(first, x))
      /\ \A y : OnList(Without(first, x), y) <=> OnList(first, y) /\ y # x
  BY Removes DEF Queues, Without
<1> QED BY <1>1, <1>2 DEF Queues

LEMMA WithoutEmpty == ASSUME NEW x PROVE Without(<<>>, x) = <<>>
<1>1. ~\E i \in 1 .. Len(<<>>) : <<>>[i] = x
  OBVIOUS
<1> QED BY <1>1 DEF Without, RemoveFirst

LEMMA QueuesRequeue ==
  ASSUME NEW x \in Bufs, NEW f, NEW list, NEW first, NEW S,
         Queues(list, first, S), x \notin S, Requeue(x, f, list, first)
  PROVE  Queues(av', aged', S \union {x}) /\ (kernel # "211" => aged' = first)
<1>1. ~OnList(list, x) /\ ~OnList(first, x)
  BY DEF Queues
<1>2. \/ av' = list /\ aged' = <<x>> \o first /\ kernel = "211"
      \/ av' = list /\ aged' = Append(first, x) /\ kernel = "211"
      \/ av' = <<x>> \o list /\ aged' = first
      \/ av' = Append(list, x) /\ aged' = first
  BY DEF Requeue
<1>3. CASE av' = list /\ aged' = <<x>> \o first /\ kernel = "211"
  BY <1>3, <1>1, Prepends DEF Queues
<1>4. CASE av' = list /\ aged' = Append(first, x) /\ kernel = "211"
  BY <1>4, <1>1, Appends DEF Queues
<1>5. CASE av' = <<x>> \o list /\ aged' = first
  BY <1>5, <1>1, Prepends DEF Queues
<1>6. CASE av' = Append(list, x) /\ aged' = first
  BY <1>6, <1>1, Appends DEF Queues
<1> QED BY <1>2, <1>3, <1>4, <1>5, <1>6

LEMMA OldestIsFree ==
  ASSUME FreeOnLists, HasFree PROVE Oldest \in FreeBufs
<1> DEFINE q == aged \o av
<1>1. /\ av \in Seq(Bufs) /\ aged \in Seq(Bufs)
      /\ Len(av) \in Nat /\ Len(aged) \in Nat /\ Len(q) = Len(aged) + Len(av)
      /\ q \in Seq(Bufs)
  BY LenProperties, ConcatProperties DEF FreeOnLists, Queues
<1>2. 1 \in 1 .. Len(q)
  <2>1. Len(av) > 0 \/ Len(aged) > 0
    BY <1>1, EmptySeq DEF HasFree
  <2> QED BY <1>1, <2>1
<1>3. Oldest = q[1] /\ q[1] \in Bufs
  BY <1>1, <1>2 DEF Oldest
<1>4. OnList(aged, Oldest) \/ OnList(av, Oldest)
  BY <1>1, <1>2, <1>3, JoinedOn DEF OnList
<1> QED BY <1>3, <1>4 DEF FreeOnLists, Queues

LEMMA FirstDirtyIsFree ==
  ASSUME FreeOnLists, NEW x \in Bufs, FirstDirty(x) PROVE x \in FreeBufs /\ IsDirty(x)
<1>1. OnList(av \o aged, x) /\ IsDirty(x)
  BY DEF FirstDirty, OnList
<1> QED BY <1>1, JoinedOn DEF FreeOnLists, Queues

(* binit's list holds every buffer once. *)
LEMMA OrderEnumerates ==
  /\ Order \in Seq(Bufs) /\ Distinct(Order)
  /\ \A x \in Bufs : OnList(Order, x)
<1> DEFINE n == Cardinality(Bufs)
<1>1. IsFiniteSet(Bufs) /\ n \in Nat
  BY BufCacheAssumption, FS_CardinalityType
<1>2. \E s \in [1 .. n -> Bufs] : IsInjective(s) /\ \A x \in Bufs : \E k \in 1 .. n : s[k] = x
  <2>1. PICK s : s \in Bijection(1 .. n, Bufs)
    BY <1>1, FS_CardinalityType DEF ExistsBijection
  <2> QED BY <2>1 DEF Bijection, Injection, Surjection, IsInjective
<1>3. Order \in [1 .. n -> Bufs] /\ IsInjective(Order)
  BY <1>2 DEF Order
<1>4. Order \in Seq(Bufs) /\ Len(Order) = n
  BY <1>1, <1>3
<1>5. Distinct(Order)
  BY <1>3, <1>4 DEF Distinct, IsInjective
<1>6. Order \in Surjection(1 .. n, Bufs)
  <2>1. IsFiniteSet(1 .. n) /\ Cardinality(1 .. n) = n
    BY <1>1, FS_Interval
  <2>2. Order \in Injection(1 .. n, Bufs)
    BY <1>3 DEF Injection
  <2> HIDE DEF n
  <2> QED BY <1>1, <2>1, <2>2, FS_Injection DEF n
<1> QED BY <1>4, <1>5, <1>6 DEF OnList, Surjection

-----------------------------------------------------------------------------
(* The cache's two ways with a buffer: it releases a busy one, or one it   *)
(* has unlinked to write it, and it takes an available one.                *)

LEMMA Releases ==
  ASSUME HeaderTyped, NEW x \in Bufs, NEW f \in SUBSET Flags, NEW late \in SUBSET {"AGE"},
         NEW list, NEW first, Queues(list, first, FreeBufs \ {x}),
         kernel # "211" => first = <<>>, BrelseThen(x, f, list, first, late)
  PROVE  /\ HeaderTyped' /\ FreeOnLists' /\ kernel' = kernel
         /\ \A y \in Bufs : "BUSY" \in flags'[y] <=> "BUSY" \in flags[y] /\ y # x
<1>1. Queues(av', aged', (FreeBufs \ {x}) \union {x}) /\ (kernel # "211" => aged' = first)
  BY QueuesRequeue DEF BrelseThen
<1>2. kernel' = kernel
  BY DEF BrelseThen
<1>3. flags' \in [Bufs -> SUBSET Flags]
  BY DEF HeaderTyped, BrelseThen, ReleasedFlags, Flags
<1>4. \A y \in Bufs : "BUSY" \in flags'[y] <=> "BUSY" \in flags[y] /\ y # x
  BY DEF HeaderTyped, BrelseThen, ReleasedFlags
<1>5. FreeOnLists'
  BY <1>1, <1>4 DEF FreeOnLists, FreeBufs, Queues
<1>6. dev' \in [Bufs -> {"root", "none"}]
  BY DEF HeaderTyped, BrelseThen, ReleasedDev
<1>7. chain' \in [DOMAIN NoChains' -> SUBSET Bufs]
  BY <1>2 DEF HeaderTyped, BrelseThen, Unhash, NoChains, BSD
<1> QED BY <1>1, <1>2, <1>3, <1>4, <1>5, <1>6, <1>7 DEF HeaderTyped, Queues

LEMMA Takes ==
  ASSUME HeaderTyped, FreeOnLists, NEW x \in FreeBufs, NEW g \in SUBSET Flags, "BUSY" \in g,
         av' = Without(av, x), aged' = Without(aged, x), flags' = [flags EXCEPT ![x] = g]
  PROVE  /\ FreeOnLists' /\ flags' \in [Bufs -> SUBSET Flags]
         /\ av' \in Seq(Bufs) /\ aged' \in Seq(Bufs) /\ (kernel # "211" => aged' = <<>>)
         /\ \A y \in Bufs : "BUSY" \in flags'[y] <=> "BUSY" \in flags[y] \/ y = x
<1>1. Queues(av', aged', FreeBufs \ {x})
  BY QueuesWithout DEF FreeOnLists
<1>2. flags' \in [Bufs -> SUBSET Flags]
  BY DEF HeaderTyped, FreeBufs
<1>3. \A y \in Bufs : "BUSY" \in flags'[y] <=> "BUSY" \in flags[y] \/ y = x
  BY DEF HeaderTyped, FreeBufs
<1>4. FreeBufs' = FreeBufs \ {x}
  BY <1>3 DEF FreeBufs
<1> QED BY <1>1, <1>2, <1>3, <1>4, WithoutEmpty DEF FreeOnLists, HeaderTyped, Queues

(* bwrite of a busy buffer, or of one that is unlinked for it. *)
LEMMA Writes ==
  ASSUME Inv, NEW x \in Bufs, NEW v \in Values, NEW ok \in BOOLEAN, NEW waits \in BOOLEAN,
         NEW list, NEW first, \/ x \in FreeBufs /\ list = Without(av, x) /\ first = Without(aged, x)
                              \/ x \notin FreeBufs /\ list = av /\ first = aged,
         WriteAndRelease(x, v, list, first, ok, waits)
  PROVE  /\ HeaderTyped' /\ FreeOnLists' /\ kernel' = kernel /\ disk' \in [Blocks -> Values]
         /\ \A y \in Bufs : "BUSY" \in flags'[y] <=> "BUSY" \in flags[y] /\ y # x
<1> DEFINE f == IoDone(WriteFlags(flags[x]), ok)
           late == IF ~waits /\ IsDirty(x) /\ kernel # "v6" THEN {"AGE"} ELSE {}
<1>1. HeaderTyped /\ FreeOnLists
  BY DEF Inv
<1>2. f \in SUBSET Flags /\ late \in SUBSET {"AGE"}
  BY <1>1 DEF HeaderTyped, Flags, IoDone, WriteFlags
<1>3. Queues(list, first, FreeBufs \ {x}) /\ (kernel # "211" => first = <<>>)
  <2>1. CASE x \in FreeBufs
    BY <2>1, <1>1, QueuesWithout, WithoutEmpty DEF FreeOnLists, HeaderTyped
  <2>2. CASE x \notin FreeBufs
    <3>1. FreeBufs \ {x} = FreeBufs
      BY <2>2
    <3> QED BY <2>2, <3>1, <1>1 DEF FreeOnLists, HeaderTyped
  <2> QED BY <2>1, <2>2
<1>4. BrelseThen(x, f, list, first, late)
  BY DEF WriteAndRelease
<1>5. disk' \in [Blocks -> Values]
  BY DEF WriteAndRelease, DskWrite, Inv, DataTyped
<1> HIDE DEF f, late
<1> QED BY <1>1, <1>2, <1>3, <1>4, <1>5, Releases

-----------------------------------------------------------------------------
(* The steps of a call.                                                    *)

LEMMA BlockOfBuf ==
  ASSUME DataTyped, NEW x \in Bufs PROVE BlockOf(x) \in Blocks
<1>1. PICK b \in Blocks : blkno[x] = Fsbtodb(b)
  BY DEF DataTyped
<1>2. Dbtofsb(Fsbtodb(b)) = b
  BY DEF Dbtofsb, Fsbtodb, Blocks
<1> QED BY <1>1, <1>2 DEF BlockOf

(* A call that returns x has no other buffer. *)
LEMMA Returns ==
  ASSUME CallTyped, AnswerTyped, NEW x \in Bufs, NEW f \in SUBSET Flags, NEW d \in Values,
         Return(x, f, d)
  PROVE  /\ CallTyped' /\ AnswerTyped'
         /\ InHand' = held \union {x}
<1>1. CallTyped'
  BY NoneIsNoBlock, BufCacheAssumption DEF CallTyped, Return, CallTypes, CallShape, Idle
<1>2. AnswerTyped'
  BY DEF AnswerTyped, Return, GetError, CallTyped, CallTypes
<1>3. InHand' = held \union {x}
  BY DEF Return, InHand, Idle
<1> QED BY <1>1, <1>2, <1>3

LEMMA GetHitInv ==
  ASSUME Inv, NEW x \in Bufs, GetHit(x) PROVE Inv'
<1> USE DEF Inv
<1>1. x \in FreeBufs
  BY DEF GetHit, FreeBufs
<1>2. flags[x] \union {"BUSY"} \in SUBSET Flags
  BY DEF HeaderTyped, Flags
<1>3. /\ HeaderTyped' /\ FreeOnLists' /\ kernel' = kernel
      /\ \A y \in Bufs : "BUSY" \in flags'[y] <=> "BUSY" \in flags[y] \/ y = x
  <2>1. /\ av' = Without(av, x) /\ aged' = Without(aged, x) /\ kernel' = kernel
        /\ flags' = [flags EXCEPT ![x] = flags[x] \union {"BUSY"}]
    BY DEF GetHit
  <2>2. /\ FreeOnLists' /\ flags' \in [Bufs -> SUBSET Flags]
        /\ av' \in Seq(Bufs) /\ aged' \in Seq(Bufs) /\ (kernel # "211" => aged' = <<>>)
        /\ \A y \in Bufs : "BUSY" \in flags'[y] <=> "BUSY" \in flags[y] \/ y = x
    BY <1>1, <1>2, <2>1, Takes
  <2>3. HeaderTyped'
    BY <2>1, <2>2 DEF GetHit, HeaderTyped, NoChains, BSD
  <2> QED BY <2>1, <2>2, <2>3
<1>4. DataTyped'
  BY <1>3 DEF DataTyped, GetHit, Fsbtodb, BSD
<1>5. call.rbp = NULL /\ call.rabp = NULL
  BY DEF GetHit, CallTyped, CallShape, CallTypes
<1>6. x \notin held
  BY <1>1 DEF BusyInHand, InHand, FreeBufs
<1>7. CallTyped' /\ AnswerTyped' /\ InHand' = held \union {x}
  <2>1. CASE Return(x, flags[x], data[x])
    BY <2>1, Returns DEF HeaderTyped, DataTyped
  <2>2. CASE /\ call.op # "getblk" /\ call' = [call EXCEPT !.stage = "read", !.rbp = x]
             /\ answer' = NONE /\ UNCHANGED <<held, u_error>>
    <3>1. call \in CallTypes /\ held \subseteq Bufs /\ CallShape /\ x \in Bufs
      BY DEF CallTyped
    <3>2. call.op \in {"bread", "breada"} /\ call.want # NONE /\ call.stage = "get"
      BY <2>2, <3>1 DEF GetHit, CallShape
    <3>3. /\ call' \in CallTypes /\ call'.op = call.op /\ call'.stage = "read"
          /\ call'.want = call.want /\ call'.rbp = x /\ call'.rabp = call.rabp
      BY <2>2, <3>1 DEF CallTypes
    <3>4. CallShape'
      BY <2>2, <3>1, <3>2, <3>3, <1>5, <1>6, BufCacheAssumption DEF CallShape
    <3>5. InHand' = held \union {x}
      BY <2>2, <3>1, <3>3, <1>5, BufCacheAssumption DEF InHand
    <3>6. AnswerTyped'
      BY <2>2 DEF AnswerTyped
    <3> QED BY <2>2, <3>1, <3>3, <3>4, <3>5, <3>6 DEF CallTyped
  <2> QED BY <2>1, <2>2 DEF GetHit
<1>8. BusyInHand'
  BY <1>3, <1>5, <1>7 DEF BusyInHand, InHand
<1> QED BY <1>3, <1>4, <1>7, <1>8

(* The buffer getblk reassigns. *)
LEMMA Reassigns ==
  ASSUME Inv, HasFree, NEW g \in SUBSET Flags, "BUSY" \in g,
         av' = Without(av, Oldest), aged' = Without(aged, Oldest),
         flags' = [flags EXCEPT ![Oldest] = g], kernel' = kernel,
         dev' \in [Bufs -> {"root", "none"}], chain' \in [DOMAIN chain -> SUBSET Bufs]
  PROVE  /\ HeaderTyped' /\ FreeOnLists'
         /\ Oldest \in Bufs /\ Oldest \notin InHand
         /\ \A y \in Bufs : "BUSY" \in flags'[y] <=> "BUSY" \in flags[y] \/ y = Oldest
<1>1. Oldest \in FreeBufs
  BY OldestIsFree DEF Inv
<1>2. Oldest \in Bufs /\ Oldest \notin InHand
  BY <1>1 DEF FreeBufs, BusyInHand, Inv
<1>3. /\ FreeOnLists' /\ flags' \in [Bufs -> SUBSET Flags]
      /\ av' \in Seq(Bufs) /\ aged' \in Seq(Bufs) /\ (kernel # "211" => aged' = <<>>)
      /\ \A y \in Bufs : "BUSY" \in flags'[y] <=> "BUSY" \in flags[y] \/ y = Oldest
  <2> HIDE DEF Oldest
  <2> QED BY <1>1, Takes DEF Inv
<1>4. HeaderTyped'
  BY <1>3 DEF HeaderTyped, Inv, NoChains, BSD
<1> QED BY <1>2, <1>3, <1>4

LEMMA TakeHeadInv ==
  ASSUME Inv, TakeHead PROVE Inv'
<1> USE DEF Inv
<1> DEFINE x == Oldest
<1>0. PICK b \in Blocks :
        /\ Looking(b) /\ HasFree
        /\ av' = Without(av, x) /\ aged' = Without(aged, x)
        /\ flags' = [flags EXCEPT ![x] = {"BUSY"}]
        /\ dev' = [dev EXCEPT ![x] = "root"]
        /\ blkno' = [blkno EXCEPT ![x] = Fsbtodb(b)]
        /\ chain' = [h \in DOMAIN chain |->
                       IF h = HashOf(b) THEN chain[h] \union {x} ELSE chain[h] \ {x}]
        /\ CASE call.op = "getblk" -> Return(x, {}, data[x])
             [] call.stage = "ahead" ->
                  /\ call' = [call EXCEPT !.stage = "readahead", !.rabp = x]
                  /\ answer' = NONE
                  /\ UNCHANGED <<held, u_error>>
             [] OTHER ->
                  /\ call' = [call EXCEPT !.stage = "read", !.rbp = x]
                  /\ answer' = NONE
                  /\ UNCHANGED <<held, u_error>>
        /\ UNCHANGED <<kernel, data, disk>>
  BY Zenon DEF TakeHead
<1>1. \/ call.op = "getblk" /\ Return(x, {}, data[x])
      \/ /\ call.op # "getblk" /\ call.stage = "ahead"
         /\ call' = [call EXCEPT !.stage = "readahead", !.rabp = x]
         /\ answer' = NONE /\ UNCHANGED <<held, u_error>>
      \/ /\ call.op # "getblk" /\ call.stage # "ahead"
         /\ call' = [call EXCEPT !.stage = "read", !.rbp = x]
         /\ answer' = NONE /\ UNCHANGED <<held, u_error>>
  BY <1>0 DEF CallTyped, CallShape
<1>2. x \in Bufs /\ x \notin InHand
  BY <1>0, <1>1, OldestIsFree DEF FreeBufs, BusyInHand
<1> HIDE DEF x
<1>3. /\ HeaderTyped' /\ FreeOnLists'
      /\ \A y \in Bufs : "BUSY" \in flags'[y] <=> "BUSY" \in flags[y] \/ y = x
  <2>1. {"BUSY"} \in SUBSET Flags /\ "BUSY" \in {"BUSY"}
    BY DEF Flags
  <2>2. dev' \in [Bufs -> {"root", "none"}] /\ chain' \in [DOMAIN chain -> SUBSET Bufs]
    BY <1>0, <1>1, <1>2 DEF HeaderTyped
  <2>3. kernel' = kernel
    BY <1>0, <1>1
  <2> QED BY <1>0, <1>1, <2>1, <2>2, <2>3, Reassigns DEF x
<1>4. DataTyped'
  BY <1>0, <1>1, <1>2 DEF DataTyped, Fsbtodb, BSD
<1>5. Looking(b) => call.stage \in {"get", "ahead"} /\ (call.stage = "get" => call.want # NONE)
  BY NoneIsNoBlock DEF Looking
<1>6. call.rabp = NULL /\ (call.stage # "ahead" => call.rbp = NULL)
  BY <1>0, <1>1, <1>5 DEF CallTyped, CallTypes, CallShape
<1>7. CallTyped' /\ AnswerTyped' /\ InHand' = InHand \union {x}
  <2>1. CASE call.op = "getblk" /\ Return(x, {}, data[x])
    <3>1. call.rbp = NULL
      BY <2>1, <1>0, <1>1, <1>5, <1>6 DEF CallTyped, CallShape
    <3> QED BY <2>1, <3>1, <1>2, <1>6, Returns DEF DataTyped, InHand
  <2>2. CASE /\ call.op # "getblk" /\ call.stage = "ahead"
             /\ call' = [call EXCEPT !.stage = "readahead", !.rabp = x]
             /\ answer' = NONE /\ UNCHANGED <<held, u_error>>
    <3>1. AnswerTyped'
      BY <2>2 DEF AnswerTyped
    <3>2. CallTyped' /\ InHand' = InHand \union {x}
      BY <2>2, <1>2, <1>6, BufCacheAssumption DEF CallTyped, CallTypes, CallShape, Idle, InHand
    <3> QED BY <3>1, <3>2
  <2>3. CASE /\ call.op # "getblk" /\ call.stage # "ahead"
             /\ call' = [call EXCEPT !.stage = "read", !.rbp = x]
             /\ answer' = NONE /\ UNCHANGED <<held, u_error>>
    <3>1. AnswerTyped'
      BY <2>3 DEF AnswerTyped
    <3>2. CallTyped' /\ InHand' = InHand \union {x}
      BY <2>3, <1>0, <1>1, <1>2, <1>5, <1>6, BufCacheAssumption
      DEF CallTyped, CallTypes, CallShape, Idle, InHand
    <3> QED BY <3>1, <3>2
  <2> QED BY <1>0, <1>1, <2>1, <2>2, <2>3
<1>8. BusyInHand'
  BY <1>3, <1>7 DEF BusyInHand
<1> QED BY <1>3, <1>4, <1>7, <1>8

LEMMA TakeEmptyInv ==
  ASSUME Inv, TakeEmpty PROVE Inv'
<1> USE DEF Inv
<1> DEFINE x == Oldest
           g == {"BUSY"} \union IF kernel = "211" THEN {"INVAL"} ELSE {}
<1>1. /\ call.op = "geteblk" /\ HasFree
      /\ av' = Without(av, x) /\ aged' = Without(aged, x)
      /\ flags' = [flags EXCEPT ![x] = g]
      /\ dev' = [dev EXCEPT ![x] = "none"]
      /\ chain' = [h \in DOMAIN chain |-> chain[h] \ {x}]
      /\ Return(x, {}, data[x])
      /\ UNCHANGED <<kernel, blkno, data, disk>>
  BY DEF TakeEmpty
<1>2. x \in Bufs /\ x \notin InHand
  BY <1>1, OldestIsFree DEF FreeBufs, BusyInHand
<1>3. g \in SUBSET Flags /\ "BUSY" \in g
  BY DEF Flags
<1> HIDE DEF x, g
<1>4. /\ HeaderTyped' /\ FreeOnLists'
      /\ \A y \in Bufs : "BUSY" \in flags'[y] <=> "BUSY" \in flags[y] \/ y = x
  <2>1. dev' \in [Bufs -> {"root", "none"}] /\ chain' \in [DOMAIN chain -> SUBSET Bufs]
    BY <1>1, <1>2 DEF HeaderTyped
  <2>2. kernel' = kernel
    BY <1>1
  <2> QED BY <1>1, <1>3, <2>1, <2>2, Reassigns DEF x
<1>5. DataTyped'
  BY <1>1 DEF DataTyped, Fsbtodb, BSD
<1>6. CallTyped' /\ AnswerTyped' /\ InHand' = held \union {x}
  BY <1>1, <1>2, Returns DEF DataTyped
<1>7. InHand = held
  BY <1>1 DEF InHand, CallTyped, CallShape, CallTypes
<1>8. BusyInHand'
  BY <1>4, <1>6, <1>7 DEF BusyInHand
<1> QED BY <1>4, <1>5, <1>6, <1>8

LEMMA ReadInv ==
  ASSUME Inv, NEW ok \in BOOLEAN, Read(ok) PROVE Inv'
<1> USE DEF Inv
<1> DEFINE x == call.rbp
<1>1. x \in Bufs /\ x \notin held /\ call.op \in {"bread", "breada"} /\ call.rabp = NULL
  BY DEF Read, CallTyped, CallTypes, CallShape
<1>2. BlockOf(x) \in Blocks
  BY <1>1, BlockOfBuf
<1>3. DataTyped'
  BY <1>1, <1>2 DEF Read, DataTyped, DskRead, Fsbtodb, BSD
<1>4. flags' \in [Bufs -> SUBSET Flags]
      /\ \A y \in Bufs : "BUSY" \in flags'[y] <=> "BUSY" \in flags[y]
  BY <1>1 DEF Read, HeaderTyped, IoDone, Flags
<1>5. HeaderTyped' /\ FreeOnLists'
  <2>1. FreeBufs' = FreeBufs
    BY <1>4 DEF FreeBufs
  <2> QED BY <2>1, <1>4 DEF Read, HeaderTyped, queues, NoChains, BSD, FreeOnLists
<1>6. CallTyped' /\ AnswerTyped' /\ InHand' = InHand
  <2>1. CASE call.op = "bread" /\ Return(x, flags'[x], data'[x])
    <3>1. flags'[x] \in SUBSET Flags /\ data'[x] \in Values
      BY <1>1, <1>3, <1>4 DEF DataTyped
    <3>2. CallTyped' /\ AnswerTyped' /\ InHand' = held \union {x}
      <4> HIDE DEF x
      <4> DEFINE f == flags'[x]
                 d == data'[x]
      <4> SUFFICES ASSUME f \in SUBSET Flags, d \in Values, Return(x, f, d)
                   PROVE  CallTyped' /\ AnswerTyped' /\ InHand' = held \union {x}
        BY <2>1, <3>1
      <4> HIDE DEF f, d
      <4>1. CallTyped'
        BY <1>1, NoneIsNoBlock, BufCacheAssumption
        DEF CallTyped, Return, CallTypes, CallShape, Idle
      <4>2. AnswerTyped'
        BY DEF AnswerTyped, Return, GetError, CallTyped, CallTypes
      <4>3. InHand' = held \union {x}
        BY <1>1, BufCacheAssumption DEF Return, InHand, Idle
      <4> QED BY <4>1, <4>2, <4>3
    <3> QED BY <3>2, <1>1, BufCacheAssumption DEF InHand
  <2>2. CASE /\ call.op = "breada" /\ call' = [call EXCEPT !.stage = "ahead"]
             /\ answer' = NONE /\ UNCHANGED <<held, u_error>>
    <3>1. AnswerTyped'
      BY <2>2 DEF AnswerTyped
    <3>2. CallTyped' /\ InHand' = InHand
      BY <2>2, <1>1, BufCacheAssumption DEF Read, CallTyped, CallTypes, CallShape, Idle, InHand
    <3> QED BY <3>1, <3>2
  <2> QED BY <2>1, <2>2 DEF Read
<1>7. BusyInHand'
  BY <1>4, <1>6 DEF BusyInHand
<1> QED BY <1>3, <1>5, <1>6, <1>7

LEMMA ReadAheadInv ==
  ASSUME Inv, NEW ok \in BOOLEAN, ReadAhead(ok) PROVE Inv'
<1> USE DEF Inv
<1> DEFINE x == call.rabp
<1>1. x \in Bufs /\ x \notin held /\ x # call.rbp /\ call.op = "breada"
  BY BufCacheAssumption DEF ReadAhead, CallTyped, CallTypes, CallShape
<1>2. BlockOf(x) \in Blocks
  BY <1>1, BlockOfBuf
<1>3. x \notin FreeBufs
  BY <1>1, BufCacheAssumption DEF BusyInHand, InHand, FreeBufs
<1>4. /\ HeaderTyped' /\ FreeOnLists' /\ kernel' = kernel
      /\ \A y \in Bufs : "BUSY" \in flags'[y] <=> "BUSY" \in flags[y] /\ y # x
  <2> DEFINE f == IoDone(flags[x], ok)
  <2>1. f \in SUBSET Flags
    BY <1>1 DEF HeaderTyped, IoDone, Flags
  <2>2. Queues(av, aged, FreeBufs \ {x})
    <3>1. FreeBufs \ {x} = FreeBufs
      BY <1>3
    <3> QED BY <3>1 DEF FreeOnLists
  <2>3. BrelseThen(x, f, av, aged, {})
    BY DEF ReadAhead, Brelse
  <2> HIDE DEF x, f
  <2>4. {} \in SUBSET {"AGE"} /\ (kernel # "211" => aged = <<>>)
    BY DEF HeaderTyped
  <2> QED BY <1>1, <2>1, <2>2, <2>3, <2>4, Releases
<1>5. DataTyped'
  BY <1>1, <1>2, <1>4 DEF ReadAhead, DataTyped, DskRead, Fsbtodb, BSD
<1>6. AnswerTyped'
  BY DEF ReadAhead, AnswerTyped
<1>7. CallTyped' /\ InHand' = InHand \ {x}
  <2>1. call \in CallTypes /\ held \subseteq Bufs /\ CallShape /\ call.stage = "readahead"
    BY DEF ReadAhead, CallTyped
  <2>2. call' = [call EXCEPT !.stage = "wait", !.rabp = NULL] /\ held' = held
    BY DEF ReadAhead
  <2>3. /\ call' \in CallTypes /\ call'.op = call.op /\ call'.stage = "wait"
        /\ call'.want = call.want /\ call'.rbp = call.rbp /\ call'.rabp = NULL
    BY <2>1, <2>2 DEF CallTypes
  <2>4. call'.rbp \notin held /\ call'.rabp \notin held /\ call'.rabp \notin Bufs
    BY <2>1, <2>3, BufCacheAssumption DEF CallShape
  <2>5. CallShape'
    BY <1>1, <2>1, <2>2, <2>3, <2>4 DEF CallShape
  <2>6. InHand' = InHand \ {x}
    BY <1>1, <2>2, <2>3, BufCacheAssumption DEF InHand
  <2> QED BY <2>1, <2>2, <2>3, <2>5, <2>6 DEF CallTyped
<1>8. BusyInHand'
  BY <1>4, <1>7 DEF BusyInHand
<1> QED BY <1>4, <1>5, <1>6, <1>7, <1>8

LEMMA WaitInv ==
  ASSUME Inv, Wait PROVE Inv'
<1> USE DEF Inv
<1>1. HeaderTyped' /\ DataTyped' /\ FreeOnLists' /\ FreeBufs' = FreeBufs /\ flags' = flags
  BY DEF Wait, header, queues, HeaderTyped, DataTyped, FreeOnLists, FreeBufs, NoChains,
         Fsbtodb, BSD
<1>2. call.rabp = NULL
  BY DEF Wait, CallTyped, CallTypes, CallShape
<1>3. CallTyped' /\ AnswerTyped' /\ InHand' = InHand
  <2>1. CASE call.rbp # NULL /\ Return(call.rbp, flags[call.rbp], data[call.rbp])
    <3>1. call.rbp \in Bufs
      BY <2>1 DEF CallTyped, CallTypes
    <3>2. flags[call.rbp] \in SUBSET Flags /\ data[call.rbp] \in Values
      BY <3>1 DEF HeaderTyped, DataTyped
    <3>3. CallTyped' /\ AnswerTyped' /\ InHand' = held \union {call.rbp}
      BY <2>1, <3>1, <3>2, Returns
    <3> QED BY <3>1, <3>3, <1>2, BufCacheAssumption DEF InHand
  <2>2. CASE /\ call.rbp = NULL
             /\ call' = [Idle EXCEPT !.op = "bread", !.stage = "get", !.want = call.want]
             /\ answer' = NONE /\ UNCHANGED <<held, u_error>>
    <3>1. AnswerTyped'
      BY <2>2 DEF AnswerTyped
    <3>2. CallTyped' /\ InHand' = InHand
      BY <2>2, <1>2, BufCacheAssumption DEF Wait, CallTyped, CallTypes, CallShape, Idle, InHand
    <3> QED BY <3>1, <3>2
  <2> QED BY <2>1, <2>2 DEF Wait
<1>4. BusyInHand'
  BY <1>1, <1>3 DEF BusyInHand
<1> QED BY <1>1, <1>3, <1>4

(* A step that touches no buffer. *)
LEMMA KeepsHeaders ==
  ASSUME Inv, UNCHANGED <<header, queues, disk>>, InHand' = InHand
  PROVE  HeaderTyped' /\ DataTyped' /\ FreeOnLists' /\ BusyInHand'
BY DEF Inv, header, queues, HeaderTyped, DataTyped, FreeOnLists, FreeBufs, BusyInHand,
       NoChains, Fsbtodb, BSD

LEMMA NoReadAheadInv ==
  ASSUME Inv, NoReadAhead PROVE Inv'
<1>1. UNCHANGED <<header, queues, disk>>
  BY DEF NoReadAhead
<1>2. CallTyped' /\ InHand' = InHand
  BY BufCacheAssumption DEF NoReadAhead, Inv, CallTyped, CallTypes, CallShape, Idle, InHand
<1>3. AnswerTyped'
  BY DEF NoReadAhead, Inv, AnswerTyped
<1> QED BY <1>1, <1>2, <1>3, KeepsHeaders DEF Inv

(* The ends of a sync and of an fsync. *)
LEMMA FlushedInv ==
  ASSUME Inv, Flushed \/ Fsynced PROVE Inv'
<1>1. UNCHANGED <<header, queues, disk>>
  BY DEF Flushed, Fsynced
<1>2. CallTyped' /\ InHand' = InHand
  BY BufCacheAssumption
  DEF Flushed, Fsynced, Inv, CallTyped, CallTypes, CallShape, Idle, InHand
<1>3. AnswerTyped'
  BY DEF Flushed, Fsynced, Inv, AnswerTyped
<1> QED BY <1>1, <1>2, <1>3, KeepsHeaders DEF Inv

(* A buffer that is written off the list. *)
LEMMA WritesFree ==
  ASSUME Inv, NEW x \in FreeBufs, NEW ok \in BOOLEAN, NEW waits \in BOOLEAN,
         WriteAndRelease(x, data[x], Without(av, x), Without(aged, x), ok, waits),
         UNCHANGED <<blkno, data, call, held>>
  PROVE  /\ HeaderTyped' /\ DataTyped' /\ CallTyped' /\ FreeOnLists' /\ BusyInHand'
         /\ Unheard(BlockOf(x), ok) = NONE
            \/ Unheard(BlockOf(x), ok) \in {"lost"} \X Blocks \X {EIO}
<1>1. x \in Bufs /\ "BUSY" \notin flags[x] /\ data[x] \in Values
  BY DEF FreeBufs, Inv, DataTyped
<1>2. /\ HeaderTyped' /\ FreeOnLists' /\ kernel' = kernel /\ disk' \in [Blocks -> Values]
      /\ \A y \in Bufs : "BUSY" \in flags'[y] <=> "BUSY" \in flags[y] /\ y # x
  BY <1>1, Writes
<1>3. DataTyped'
  BY <1>2 DEF Inv, DataTyped, Fsbtodb, BSD
<1>4. CallTyped'
  BY DEF Inv, CallTyped, CallShape
<1>5. BusyInHand'
  BY <1>1, <1>2 DEF Inv, BusyInHand, InHand
<1>6. BlockOf(x) \in Blocks
  BY <1>1, BlockOfBuf DEF Inv
<1> QED BY <1>2, <1>3, <1>4, <1>5, <1>6 DEF Unheard

LEMMA WriteHeadInv ==
  ASSUME Inv, NEW ok \in BOOLEAN, WriteHead(ok) PROVE Inv'
<1> DEFINE x == Oldest
<1>1. x \in FreeBufs
  BY OldestIsFree DEF Inv, WriteHead
<1>2. /\ WriteAndRelease(x, data[x], Without(av, x), Without(aged, x), ok, FALSE)
      /\ answer' = Unheard(BlockOf(x), ok)
      /\ UNCHANGED <<blkno, data, call, held, u_error>>
  BY DEF WriteHead
<1> HIDE DEF x
<1>3. /\ HeaderTyped' /\ DataTyped' /\ CallTyped' /\ FreeOnLists' /\ BusyInHand'
      /\ answer' = NONE \/ answer' \in {"lost"} \X Blocks \X {EIO}
  BY <1>1, <1>2, WritesFree
<1>4. AnswerTyped'
  BY <1>2, <1>3 DEF Inv, AnswerTyped
<1> QED BY <1>3, <1>4 DEF Inv

LEMMA FlushOneInv ==
  ASSUME Inv, NEW x \in Bufs, NEW ok \in BOOLEAN, FlushOne(x, ok) PROVE Inv'
<1>1. x \in FreeBufs
  BY FirstDirtyIsFree DEF Inv, FlushOne
<1>2. /\ HeaderTyped' /\ DataTyped' /\ CallTyped' /\ FreeOnLists' /\ BusyInHand'
      /\ answer' = NONE \/ answer' \in {"lost"} \X Blocks \X {EIO}
  BY <1>1, WritesFree DEF FlushOne
<1>3. AnswerTyped'
  BY <1>2 DEF FlushOne, Inv, AnswerTyped
<1> QED BY <1>2, <1>3 DEF Inv

LEMMA FsyncOneInv ==
  ASSUME Inv, NEW x \in Bufs, NEW ok \in BOOLEAN, FsyncOne(x, ok) PROVE Inv'
<1>1. x \in FreeBufs
  BY DEF FreeBufs, FsyncOne
<1>2. /\ HeaderTyped' /\ DataTyped' /\ CallTyped' /\ FreeOnLists' /\ BusyInHand'
      /\ answer' = NONE \/ answer' \in {"lost"} \X Blocks \X {EIO}
  BY <1>1, WritesFree DEF FsyncOne
<1>3. AnswerTyped'
  BY <1>2 DEF FsyncOne, Inv, AnswerTyped, GetError
<1> QED BY <1>2, <1>3 DEF Inv

-----------------------------------------------------------------------------
(* What the filesystem code does.                                          *)

(* The calls of the cache, and the ends of the operations that touch none. *)
LEMMA EnterInv ==
  ASSUME Inv, \/ Begin \/ CallSync \/ CallSyncUnmodified \/ CallGeteblk
              \/ \E b \in Blocks : \/ CallBread(b) \/ CallGetblk(b) \/ CallFsync(b)
                                   \/ \E r \in Blocks : CallBreada(b, r)
  PROVE  Inv'
<1>1. UNCHANGED <<header, queues, disk, held>> /\ call = Idle /\ answer' = NONE
      /\ u_error' \in {u_error, OK}
  BY DEF Begin, CallSync, CallSyncUnmodified, CallGeteblk, CallBread, CallGetblk, CallFsync,
         CallBreada, MayAsk, Enter
<1>2. AnswerTyped'
  BY <1>1 DEF Inv, AnswerTyped
<1>3. \/ call' = Idle
      \/ \E op \in {"sync", "geteblk"}, stage \in {"flush", "get"} :
           /\ op = "sync" <=> stage = "flush"
           /\ call' = [Idle EXCEPT !.op = op, !.stage = stage]
      \/ \E op \in {"bread", "getblk", "fsync"}, stage \in {"get", "blkflush", "pool"}, b \in Blocks :
           /\ stage = "get" <=> op # "fsync"
           /\ call' = [Idle EXCEPT !.op = op, !.stage = stage, !.want = b]
      \/ \E b \in Blocks, r \in Blocks, stage \in {"get", "ahead"} :
           call' = [Idle EXCEPT !.op = "breada", !.want = b, !.ahead = r, !.stage = stage]
  BY <1>1, Zenon DEF Begin, CallSync, CallSyncUnmodified, CallGeteblk, CallBread, CallGetblk,
                     CallFsync, CallBreada, Enter
<1>4. CallTyped' /\ InHand' = InHand
  <2>1. call' \in CallTypes /\ call'.rbp = NULL /\ call'.rabp = NULL
    <3>1. CASE call' = Idle
      BY <3>1 DEF CallTypes, Idle
    <3>2. ASSUME NEW op \in {"sync", "geteblk"}, NEW stage \in {"flush", "get"},
                 call' = [Idle EXCEPT !.op = op, !.stage = stage]
          PROVE  call' \in CallTypes /\ call'.rbp = NULL /\ call'.rabp = NULL
      BY <3>2 DEF CallTypes, Idle
    <3>3. ASSUME NEW op \in {"bread", "getblk", "fsync"},
                 NEW stage \in {"get", "blkflush", "pool"}, NEW b \in Blocks,
                 call' = [Idle EXCEPT !.op = op, !.stage = stage, !.want = b]
          PROVE  call' \in CallTypes /\ call'.rbp = NULL /\ call'.rabp = NULL
      BY <3>3 DEF CallTypes, Idle
    <3>4. ASSUME NEW b \in Blocks, NEW r \in Blocks, NEW stage \in {"get", "ahead"},
                 call' = [Idle EXCEPT !.op = "breada", !.want = b, !.ahead = r, !.stage = stage]
          PROVE  call' \in CallTypes /\ call'.rbp = NULL /\ call'.rabp = NULL
      BY <3>4 DEF CallTypes, Idle
    <3> QED BY <1>3, <3>1, <3>2, <3>3, <3>4
  <2>2. CallShape'
    <3>1. /\ held' = held /\ held \subseteq Bufs /\ CallShape
          /\ NULL \notin Bufs /\ NULL \notin held
      BY <1>1, BufCacheAssumption DEF Inv, CallTyped
    <3>2. call'.rbp \notin Bufs /\ call'.rabp \notin Bufs
      BY <2>1, <3>1
    <3>3. CASE call' = Idle
      BY <3>1, <3>2, <3>3, <1>1 DEF CallShape
    <3>4. ASSUME NEW op \in {"sync", "geteblk"}, NEW stage \in {"flush", "get"},
                 op = "sync" <=> stage = "flush",
                 call' = [Idle EXCEPT !.op = op, !.stage = stage]
          PROVE  CallShape'
      BY <2>1, <3>1, <3>2, <3>4 DEF CallShape, Idle
    <3>5. ASSUME NEW op \in {"bread", "getblk", "fsync"},
                 NEW stage \in {"get", "blkflush", "pool"}, NEW b \in Blocks,
                 stage = "get" <=> op # "fsync",
                 call' = [Idle EXCEPT !.op = op, !.stage = stage, !.want = b]
          PROVE  CallShape'
      BY <2>1, <3>1, <3>2, <3>5, NoneIsNoBlock DEF CallShape, Idle
    <3>6. ASSUME NEW b \in Blocks, NEW r \in Blocks, NEW stage \in {"get", "ahead"},
                 call' = [Idle EXCEPT !.op = "breada", !.want = b, !.ahead = r, !.stage = stage]
          PROVE  CallShape'
      BY <2>1, <3>1, <3>2, <3>6, NoneIsNoBlock DEF CallShape, Idle
    <3> QED BY <1>3, <3>3, <3>4, <3>5, <3>6
  <2> QED BY <1>1, <2>1, <2>2 DEF Inv, CallTyped, InHand, Idle
<1> QED BY <1>1, <1>2, <1>4, KeepsHeaders DEF Inv

(* The filesystem code holds x, and no call is in progress. *)
LEMMA HeldIsBusy ==
  ASSUME Inv, NEW x \in held PROVE x \in Bufs /\ x \notin FreeBufs
BY DEF Inv, CallTyped, BusyInHand, InHand, FreeBufs

LEMMA LeavesHand ==
  ASSUME Inv, call = Idle, UNCHANGED call, NEW x, held' = held \ {x},
         \A y \in Bufs : "BUSY" \in flags'[y] <=> "BUSY" \in flags[y] /\ y # x
  PROVE  CallTyped' /\ BusyInHand'
<1>1. CallTyped'
  BY BufCacheAssumption DEF Inv, CallTyped, CallShape, Idle
<1>2. BusyInHand'
  BY BufCacheAssumption DEF Inv, BusyInHand, InHand, Idle
<1> QED BY <1>1, <1>2

LEMMA ReleasesHeld ==
  ASSUME Inv, NEW x \in held, NEW f \in SUBSET Flags, Brelse(x, f)
  PROVE  /\ HeaderTyped' /\ FreeOnLists' /\ kernel' = kernel
         /\ \A y \in Bufs : "BUSY" \in flags'[y] <=> "BUSY" \in flags[y] /\ y # x
<1>1. x \in Bufs /\ FreeBufs \ {x} = FreeBufs
  BY HeldIsBusy
<1>2. {} \in SUBSET {"AGE"} /\ (kernel # "211" => aged = <<>>)
  BY DEF Inv, HeaderTyped
<1>3. Queues(av, aged, FreeBufs \ {x}) /\ BrelseThen(x, f, av, aged, {})
  BY <1>1 DEF Inv, FreeOnLists, Brelse
<1> QED BY <1>1, <1>2, <1>3, Releases DEF Inv

LEMMA ReleaseInv ==
  ASSUME Inv, NEW x \in Bufs, Release(x) PROVE Inv'
<1>1. x \in held /\ flags[x] \in SUBSET Flags /\ Brelse(x, flags[x])
  BY DEF Release, Inv, HeaderTyped
<1>2. /\ HeaderTyped' /\ FreeOnLists' /\ kernel' = kernel
      /\ \A y \in Bufs : "BUSY" \in flags'[y] <=> "BUSY" \in flags[y] /\ y # x
  BY <1>1, ReleasesHeld
<1>3. CallTyped' /\ BusyInHand'
  BY <1>2, LeavesHand DEF Release
<1>4. DataTyped' /\ AnswerTyped'
  BY <1>2 DEF Release, Inv, DataTyped, AnswerTyped, Fsbtodb, BSD
<1> QED BY <1>2, <1>3, <1>4 DEF Inv

LEMMA BdwriteInv ==
  ASSUME Inv, NEW x \in Bufs, NEW v \in Values, Bdwrite(x, v) PROVE Inv'
<1>1. flags[x] \union {"DELWRI", "DONE"} \in SUBSET Flags
  BY DEF Inv, HeaderTyped, Flags
<1>2. /\ HeaderTyped' /\ FreeOnLists' /\ kernel' = kernel
      /\ \A y \in Bufs : "BUSY" \in flags'[y] <=> "BUSY" \in flags[y] /\ y # x
  BY <1>1, ReleasesHeld DEF Bdwrite, GiveBack
<1>3. CallTyped' /\ BusyInHand'
  BY <1>2, LeavesHand DEF Bdwrite, GiveBack
<1>4. DataTyped' /\ AnswerTyped'
  BY <1>2 DEF Bdwrite, GiveBack, Inv, DataTyped, AnswerTyped, Fsbtodb, BSD
<1> QED BY <1>2, <1>3, <1>4 DEF Inv

LEMMA BwriteInv ==
  ASSUME Inv, NEW x \in Bufs, NEW v \in Values, NEW ok \in BOOLEAN,
         Bwrite(x, v, ok) \/ Bawrite(x, v, ok)
  PROVE  Inv'
<1>1. /\ GiveBack(x, v) /\ x \in held
      /\ \E waits \in BOOLEAN : WriteAndRelease(x, v, av, aged, ok, waits)
  BY DEF Bwrite, Bawrite, GiveBack
<1>2. BlockOf(x) \in Blocks
  BY BlockOfBuf DEF Inv
<1>3. /\ HeaderTyped' /\ FreeOnLists' /\ kernel' = kernel /\ disk' \in [Blocks -> Values]
      /\ \A y \in Bufs : "BUSY" \in flags'[y] <=> "BUSY" \in flags[y] /\ y # x
  BY <1>1, HeldIsBusy, Writes
<1>4. CallTyped' /\ BusyInHand'
  BY <1>1, <1>3, LeavesHand DEF GiveBack
<1>5. DataTyped'
  BY <1>1, <1>3 DEF GiveBack, Inv, DataTyped, Fsbtodb, BSD
<1>6. AnswerTyped'
  <2>1. u_error' \in {OK, EIO}
    BY DEF Bwrite, Bawrite, GetError, Inv, AnswerTyped
  <2>2. CASE Bwrite(x, v, ok)
    BY <2>1, <2>2, <1>2 DEF Bwrite, AnswerTyped
  <2>3. CASE Bawrite(x, v, ok)
    BY <2>1, <2>3, <1>2 DEF Bawrite, Unheard, AnswerTyped
  <2> QED BY <2>2, <2>3
<1> QED BY <1>3, <1>4, <1>5, <1>6 DEF Inv

-----------------------------------------------------------------------------
(* binit, at the start and after a crash.                                  *)
LEMMA AllFreeLists ==
  ASSUME NEW list, NEW first, AllFree(list, first)
  PROVE  Queues(list, first, Bufs) /\ (kernel # "211" => first = <<>>)
<1>1. <<>> \in Seq(Bufs) /\ Distinct(<<>>) /\ \A x : ~OnList(<<>>, x)
  BY DEF Distinct, OnList
<1> QED BY <1>1, OrderEnumerates DEF AllFree, Queues

LEMMA InitInv == Init => Inv
<1> SUFFICES ASSUME Init PROVE Inv
  OBVIOUS
<1>0. Queues(av, aged, Bufs) /\ (kernel # "211" => aged = <<>>)
  BY AllFreeLists DEF Init
<1>1. HeaderTyped
  <2>1. NoChains \in [DOMAIN NoChains -> SUBSET Bufs]
    BY DEF NoChains
  <2> QED BY <1>0, <2>1 DEF Init, HeaderTyped, BinitFlags, Flags, Queues
<1>2. DataTyped
  <2>1. 0 \in Blocks /\ Fsbtodb(0) = 0
    BY BufCacheAssumption DEF Blocks, Fsbtodb
  <2> QED BY <2>1, BufCacheAssumption DEF Init, DataTyped
<1>3. CallTyped /\ AnswerTyped
  BY BufCacheAssumption DEF Init, CallTyped, CallTypes, CallShape, Idle, AnswerTyped
<1>4. FreeBufs = Bufs
  BY DEF Init, FreeBufs, BinitFlags
<1>5. FreeOnLists
  BY <1>0, <1>4 DEF FreeOnLists
<1>6. BusyInHand
  BY <1>4, BufCacheAssumption DEF BusyInHand, InHand, Init, Idle, FreeBufs
<1> QED BY <1>1, <1>2, <1>3, <1>5, <1>6 DEF Inv

LEMMA CrashInv ==
  ASSUME Inv, Crash PROVE Inv'
<1>0. Queues(av', aged', Bufs) /\ (kernel # "211" => aged' = <<>>)
  BY AllFreeLists DEF Crash
<1>1. HeaderTyped'
  <2>1. NoChains \in [DOMAIN NoChains' -> SUBSET Bufs]
    BY DEF Crash, NoChains, BSD
  <2> QED BY <1>0, <2>1 DEF Crash, Inv, HeaderTyped, BinitFlags, Flags, Queues
<1>2. DataTyped'
  <2>1. 0 \in Blocks /\ Fsbtodb(0)' = 0
    BY BufCacheAssumption DEF Blocks, Fsbtodb, BSD
  <2> QED BY <2>1, BufCacheAssumption DEF Crash, Inv, DataTyped
<1>3. CallTyped' /\ AnswerTyped'
  BY BufCacheAssumption DEF Crash, CallTyped, CallTypes, CallShape, Idle, AnswerTyped
<1>4. FreeBufs' = Bufs
  BY DEF Crash, FreeBufs, BinitFlags
<1>5. FreeOnLists'
  BY <1>0, <1>4 DEF FreeOnLists
<1>6. BusyInHand'
  BY <1>4, BufCacheAssumption DEF BusyInHand, InHand, Crash, Idle, FreeBufs
<1> QED BY <1>1, <1>2, <1>3, <1>5, <1>6 DEF Inv

LEMMA NextInv == Inv /\ [Next]_vars => Inv'
<1> SUFFICES ASSUME Inv, [Next]_vars PROVE Inv'
  OBVIOUS
<1>1. CASE UNCHANGED vars
  BY <1>1 DEF vars, header, queues, Inv, HeaderTyped, DataTyped, CallTyped, CallShape,
              AnswerTyped, FreeOnLists, FreeBufs, BusyInHand, InHand, NoChains, Fsbtodb, BSD
<1>2. CASE Step
  BY <1>2, GetHitInv, TakeHeadInv, TakeEmptyInv, NoReadAheadInv, WaitInv, FlushedInv,
     WriteHeadInv, ReadInv, ReadAheadInv, FlushOneInv, FsyncOneInv
  DEF Step
<1>3. CASE Client
  BY <1>3, EnterInv, ReleaseInv, BdwriteInv, BwriteInv DEF Client
<1>4. CASE Crash
  BY <1>4, CrashInv
<1> QED BY <1>1, <1>2, <1>3, <1>4 DEF Next

(* Whatever is called, and whenever the process dies, the headers, the     *)
(* lists, the calls and the answers are well formed.                       *)
THEOREM TypeCorrect == Spec => []TypeOK
<1>1. Inv => TypeOK
  BY DEF Inv, HeaderTyped, DataTyped, CallTyped, CallTypes, AnswerTyped, TypeOK
<1> QED BY InitInv, NextInv, <1>1, PTL DEF Spec

(* However many buffers there are and whatever fails, a buffer is on the   *)
(* available lists, and once, if and only if it is not busy, and a busy    *)
(* one is in somebody's hands: brelse and notavail never lose a buffer and *)
(* never give one to two callers.                                          *)
THEOREM NoBufferIsLost == Spec => []AvailableIffNotBusy
<1>1. Inv => AvailableIffNotBusy
  <2> SUFFICES ASSUME Inv PROVE AvailableIffNotBusy
    OBVIOUS
  <2>1. av \in Seq(Bufs) /\ aged \in Seq(Bufs) /\ Queues(av, aged, FreeBufs)
    BY DEF Inv, FreeOnLists, Queues
  <2>2. \A x \in Bufs : OnList(av \o aged, x) <=> "BUSY" \notin flags[x]
    BY <2>1, JoinedOn DEF Queues, FreeBufs
  <2>3. Distinct(av \o aged)
    BY <2>1, JoinedDistinct DEF Queues
  <2> QED BY <2>2, <2>3 DEF OnList, Distinct, AvailableIffNotBusy, Inv, BusyInHand
<1> QED BY InitInv, NextInv, <1>1, PTL DEF Spec

-----------------------------------------------------------------------------
(* One buffer per block.                                                   *)

(* A volume of V6 whose block numbers are not negative in an int16_t. *)
Fits == "v6" \in Kernels => FSize <= BlknoRange \div 2

(* A buffer that is marked invalid has no block. *)
InvalidHasNone == \A x \in Bufs : "INVAL" \in flags[x] => dev[x] = "none"

Chained == OneBufferPerBlock /\ InvalidHasNone

LEMMA BlockNumbers ==
  ASSUME HeaderTyped, NEW b \in Blocks
  PROVE  /\ Dbtofsb(Fsbtodb(b)) = b
         /\ HashOf(b) \in DOMAIN chain
         /\ Fits => Sought(b) = Fsbtodb(b)
<1>1. b \in Nat /\ b < FSize /\ FSize \in Nat /\ BlknoRange \in Nat
  BY BufCacheAssumption DEF Blocks
<1>2. Dbtofsb(Fsbtodb(b)) = b
  BY <1>1 DEF Dbtofsb, Fsbtodb
<1>3. HashOf(b) \in DOMAIN chain
  BY <1>1, BufCacheAssumption DEF HashOf, HeaderTyped, NoChains
<1>4. Fits => Sought(b) = Fsbtodb(b)
  BY <1>1 DEF Fits, Sought, Fsbtodb, Int16, HeaderTyped, BSD
<1> QED BY <1>2, <1>3, <1>4

(* What getblk finds is every buffer of the block. *)
LEMMA HoldersAre ==
  ASSUME Fits, Inv, Chained, NEW b \in Blocks
  PROVE  Holders(b) = {x \in Bufs : dev[x] = "root" /\ blkno[x] = Fsbtodb(b)}
<1>1. Sought(b) = Fsbtodb(b) /\ HashOf(b) \in DOMAIN chain /\ Dbtofsb(Fsbtodb(b)) = b
  BY BlockNumbers DEF Inv
<1>2. chain[HashOf(b)] \subseteq Bufs
  BY <1>1 DEF Inv, HeaderTyped
<1>3. \A x \in Bufs : dev[x] = "root" /\ blkno[x] = Fsbtodb(b) => x \in chain[HashOf(b)]
  BY <1>1 DEF Chained, OneBufferPerBlock, BlockOf
<1>4. \A x \in Bufs : dev[x] = "root" => "INVAL" \notin flags[x]
  BY DEF Chained, InvalidHasNone
<1> QED BY <1>1, <1>2, <1>3, <1>4 DEF Holders

LEMMA SameChains ==
  ASSUME Chained, UNCHANGED <<kernel, dev, blkno, chain>>,
         \A x \in Bufs : "INVAL" \in flags'[x] => "INVAL" \in flags[x]
  PROVE  Chained'
BY DEF Chained, OneBufferPerBlock, InvalidHasNone, BlockOf, Dbtofsb, HashOf, BSD

LEMMA ReleaseChained ==
  ASSUME Inv, Chained, NEW x \in Bufs, NEW f \in SUBSET Flags, NEW late \in SUBSET {"AGE"},
         "INVAL" \in f => "INVAL" \in flags[x],
         NEW list, NEW first, BrelseThen(x, f, list, first, late), UNCHANGED blkno
  PROVE  Chained'
<1>1. UNCHANGED <<kernel, blkno>> /\ dev' = [dev EXCEPT ![x] = ReleasedDev(x, f)]
  BY DEF BrelseThen
<1>2. \A y \in Bufs : y # x => dev'[y] = dev[y]
  BY <1>1 DEF Inv, HeaderTyped
<1>3. dev'[x] = IF "ERROR" \in f THEN "none" ELSE dev[x]
  BY <1>1 DEF Inv, HeaderTyped, ReleasedDev
<1>4. \A y \in Bufs : BlockOf(y)' = BlockOf(y)
  BY <1>1 DEF BlockOf, Dbtofsb, BSD
<1>5. \A b \in Blocks : HashOf(b)' = HashOf(b)
  BY <1>1 DEF HashOf, BSD
<1>6. DOMAIN chain' = DOMAIN chain
      /\ \A y \in Bufs, h \in DOMAIN chain :
           y # x \/ "ERROR" \notin f => (y \in chain'[h] <=> y \in chain[h])
  BY DEF BrelseThen, Unhash, Inv, HeaderTyped
<1>7. \A y \in Bufs : BlockOf(y) \in Blocks
  BY BlockOfBuf DEF Inv
<1>8. OneBufferPerBlock'
  <2>1. ASSUME NEW y \in Bufs, NEW z \in Bufs, dev'[y] = "root", dev'[z] = "root",
               blkno'[y] = blkno'[z]
        PROVE  y = z
    BY <2>1, <1>1, <1>2, <1>3 DEF Chained, OneBufferPerBlock
  <2>2. ASSUME NEW y \in Bufs, dev'[y] = "root", NEW h \in DOMAIN chain'
        PROVE  y \in chain'[h] <=> h = HashOf(BlockOf(y))'
    <3>1. dev[y] = "root" /\ (y # x \/ "ERROR" \notin f)
      BY <2>2, <1>2, <1>3
    <3>2. y \in chain'[h] <=> y \in chain[h]
      BY <2>2, <3>1, <1>6
    <3>3. HashOf(BlockOf(y))' = HashOf(BlockOf(y))
      BY <1>1 DEF HashOf, BlockOf, Dbtofsb, BSD
    <3> QED BY <2>2, <3>1, <3>2, <3>3, <1>6 DEF Chained, OneBufferPerBlock
  <2> QED BY <2>1, <2>2 DEF OneBufferPerBlock
<1>9. InvalidHasNone'
  <2>1. \A y \in Bufs : "INVAL" \in flags'[y] => "INVAL" \in flags[y]
    BY DEF BrelseThen, ReleasedFlags, Inv, HeaderTyped
  <2> QED BY <2>1, <1>2, <1>3 DEF Chained, InvalidHasNone, Inv, HeaderTyped
<1> QED BY <1>8, <1>9 DEF Chained

LEMMA WriteChained ==
  ASSUME Inv, Chained, NEW x \in Bufs, NEW v, NEW ok \in BOOLEAN, NEW waits \in BOOLEAN,
         NEW list, NEW first, WriteAndRelease(x, v, list, first, ok, waits), UNCHANGED blkno
  PROVE  Chained'
<1> DEFINE f == IoDone(WriteFlags(flags[x]), ok)
           late == IF ~waits /\ IsDirty(x) /\ kernel # "v6" THEN {"AGE"} ELSE {}
<1>1. f \in SUBSET Flags /\ late \in SUBSET {"AGE"} /\ ("INVAL" \in f => "INVAL" \in flags[x])
  BY DEF Inv, HeaderTyped, Flags, IoDone, WriteFlags
<1>2. BrelseThen(x, f, list, first, late)
  BY DEF WriteAndRelease
<1> HIDE DEF f, late
<1> QED BY <1>1, <1>2, ReleaseChained

LEMMA TakeHeadChained ==
  ASSUME Fits, Inv, Chained, TakeHead PROVE Chained'
<1>0. Oldest \in Bufs
  BY OldestIsFree DEF TakeHead, Inv, FreeBufs
<1>1. PICK x \in Bufs : x = Oldest
  BY <1>0
<1>2. PICK b \in Blocks :
        /\ ~Incore(b)
        /\ flags' = [flags EXCEPT ![x] = {"BUSY"}]
        /\ dev' = [dev EXCEPT ![x] = "root"]
        /\ blkno' = [blkno EXCEPT ![x] = Fsbtodb(b)]
        /\ chain' = [h \in DOMAIN chain |->
                       IF h = HashOf(b) THEN chain[h] \union {x} ELSE chain[h] \ {x}]
        /\ kernel' = kernel
  BY <1>1, Zenon DEF TakeHead
<1>3. \A y \in Bufs : ~(dev[y] = "root" /\ blkno[y] = Fsbtodb(b))
  BY <1>2, HoldersAre DEF Incore
<1>4. /\ dev'[x] = "root" /\ blkno'[x] = Fsbtodb(b)
      /\ \A y \in Bufs \ {x} : dev'[y] = dev[y] /\ blkno'[y] = blkno[y]
  BY <1>2, <1>1 DEF Inv, HeaderTyped, DataTyped
<1>5. HashOf(BlockOf(x))' = HashOf(b)
  <2>1. BlockOf(x)' = Dbtofsb(Fsbtodb(b))
    BY <1>2, <1>4 DEF BlockOf, Dbtofsb, BSD
  <2>2. BlockOf(x)' = b
    BY <2>1, BlockNumbers DEF Inv
  <2> QED BY <2>2, <1>2 DEF HashOf, BSD
<1>6. \A y \in Bufs \ {x} : HashOf(BlockOf(y))' = HashOf(BlockOf(y))
  BY <1>2, <1>4 DEF BlockOf, Dbtofsb, HashOf, BSD
<1>7. OneBufferPerBlock'
  <2>1. ASSUME NEW y \in Bufs, NEW z \in Bufs, dev'[y] = "root", dev'[z] = "root",
               blkno'[y] = blkno'[z]
        PROVE  y = z
    BY <2>1, <1>3, <1>4 DEF Chained, OneBufferPerBlock
  <2>2. ASSUME NEW y \in Bufs, dev'[y] = "root", NEW h \in DOMAIN chain'
        PROVE  y \in chain'[h] <=> h = HashOf(BlockOf(y))'
    <3>1. CASE y = x
      <4>1. h \in DOMAIN chain /\ (x \in chain'[h] <=> h = HashOf(b))
        BY <2>2, <1>2
      <4> QED BY <3>1, <4>1, <1>5
    <3>2. CASE y # x
      <4>1. dev[y] = "root" /\ h \in DOMAIN chain /\ (y \in chain'[h] <=> y \in chain[h])
        BY <3>2, <2>2, <1>2, <1>4
      <4> QED BY <4>1, <3>2, <1>6 DEF Chained, OneBufferPerBlock
    <3> QED BY <3>1, <3>2
  <2> QED BY <2>1, <2>2 DEF OneBufferPerBlock
<1>8. InvalidHasNone'
  BY <1>2, <1>1, <1>4 DEF Chained, InvalidHasNone, Inv, HeaderTyped
<1> QED BY <1>7, <1>8 DEF Chained

LEMMA TakeEmptyChained ==
  ASSUME Inv, Chained, TakeEmpty PROVE Chained'
<1>0. Oldest \in Bufs
  BY OldestIsFree DEF TakeEmpty, Inv, FreeBufs
<1>1. PICK x \in Bufs : x = Oldest
  BY <1>0
<1>2. /\ flags' = [flags EXCEPT ![x] = {"BUSY"} \union IF kernel = "211" THEN {"INVAL"} ELSE {}]
      /\ dev' = [dev EXCEPT ![x] = "none"]
      /\ chain' = [h \in DOMAIN chain |-> chain[h] \ {x}]
      /\ UNCHANGED <<kernel, blkno>>
  BY <1>1 DEF TakeEmpty
<1>3. dev'[x] = "none" /\ \A y \in Bufs \ {x} : dev'[y] = dev[y] /\ flags'[y] = flags[y]
  BY <1>2, <1>1 DEF Inv, HeaderTyped
<1>4. \A y \in Bufs : HashOf(BlockOf(y))' = HashOf(BlockOf(y))
  BY <1>2 DEF BlockOf, Dbtofsb, HashOf, BSD
<1>5. OneBufferPerBlock'
  <2>1. ASSUME NEW y \in Bufs, NEW z \in Bufs, dev'[y] = "root", dev'[z] = "root",
               blkno'[y] = blkno'[z]
        PROVE  y = z
    BY <2>1, <1>2, <1>3 DEF Chained, OneBufferPerBlock
  <2>2. ASSUME NEW y \in Bufs, dev'[y] = "root", NEW h \in DOMAIN chain'
        PROVE  y \in chain'[h] <=> h = HashOf(BlockOf(y))'
    <3>1. y # x /\ dev[y] = "root" /\ h \in DOMAIN chain /\ (y \in chain'[h] <=> y \in chain[h])
      BY <2>2, <1>2, <1>3
    <3> QED BY <3>1, <1>4 DEF Chained, OneBufferPerBlock
  <2> QED BY <2>1, <2>2 DEF OneBufferPerBlock
<1>6. InvalidHasNone'
  BY <1>3 DEF Chained, InvalidHasNone
<1> QED BY <1>5, <1>6 DEF Chained

LEMMA InitChained == (Init => Chained) /\ (Crash => Chained')
<1>1. ASSUME Init PROVE Chained
  BY <1>1 DEF Init, Chained, OneBufferPerBlock, InvalidHasNone
<1>2. ASSUME Crash PROVE Chained'
  BY <1>2 DEF Crash, Chained, OneBufferPerBlock, InvalidHasNone
<1> QED BY <1>1, <1>2

LEMMA NextChained == Fits /\ Inv /\ Chained /\ [Next]_vars => Chained'
<1> SUFFICES ASSUME Fits, Inv, Chained, [Next]_vars PROVE Chained'
  OBVIOUS
<1>1. CASE UNCHANGED vars
  BY <1>1, SameChains DEF vars, header
<1>2. CASE Step
  <2>1. ASSUME NEW x \in Bufs, GetHit(x) PROVE Chained'
    BY <2>1, SameChains DEF GetHit, Inv, HeaderTyped
  <2>2. ASSUME NEW ok \in BOOLEAN, Read(ok) PROVE Chained'
    <3>1. call.rbp \in Bufs
      BY <2>2 DEF Read, Inv, CallTyped, CallShape
    <3> QED BY <2>2, <3>1, SameChains DEF Read, Inv, HeaderTyped, IoDone
  <2>3. ASSUME NEW ok \in BOOLEAN, ReadAhead(ok) PROVE Chained'
    <3> DEFINE x == call.rabp
               f == IoDone(flags[x], ok)
    <3>1. x \in Bufs
      BY <2>3 DEF ReadAhead, Inv, CallTyped, CallShape
    <3>2. f \in SUBSET Flags /\ ("INVAL" \in f => "INVAL" \in flags[x]) /\ {} \in SUBSET {"AGE"}
      BY <3>1 DEF Inv, HeaderTyped, Flags, IoDone
    <3>3. BrelseThen(x, f, av, aged, {}) /\ UNCHANGED blkno
      BY <2>3 DEF ReadAhead, Brelse
    <3> HIDE DEF x, f
    <3> QED BY <3>1, <3>2, <3>3, ReleaseChained
  <2>4. ASSUME NEW ok \in BOOLEAN, WriteHead(ok) PROVE Chained'
    <3>1. Oldest \in Bufs
      BY <2>4, OldestIsFree DEF WriteHead, Inv, FreeBufs
    <3> QED BY <2>4, <3>1, WriteChained DEF WriteHead
  <2>5. ASSUME NEW x \in Bufs, NEW ok \in BOOLEAN, FlushOne(x, ok) \/ FsyncOne(x, ok)
        PROVE  Chained'
    BY <2>5, WriteChained DEF FlushOne, FsyncOne
  <2>6. ASSUME NoReadAhead \/ Wait \/ Flushed \/ Fsynced PROVE Chained'
    BY <2>6, SameChains DEF NoReadAhead, Wait, Flushed, Fsynced, header
  <2> QED BY <1>2, <2>1, <2>2, <2>3, <2>4, <2>5, <2>6, TakeHeadChained, TakeEmptyChained
          DEF Step
<1>3. CASE Client
  <2>1. ASSUME NEW x \in Bufs, Release(x) PROVE Chained'
    <3>1. BrelseThen(x, flags[x], av, aged, {}) /\ flags[x] \in SUBSET Flags
          /\ {} \in SUBSET {"AGE"} /\ UNCHANGED blkno
      BY <2>1 DEF Release, Brelse, Inv, HeaderTyped
    <3> QED BY <3>1, ReleaseChained
  <2>2. ASSUME NEW x \in Bufs, NEW v \in Values, Bdwrite(x, v) PROVE Chained'
    <3> DEFINE f == flags[x] \union {"DELWRI", "DONE"}
    <3>1. f \in SUBSET Flags /\ ("INVAL" \in f => "INVAL" \in flags[x]) /\ {} \in SUBSET {"AGE"}
      BY DEF Inv, HeaderTyped, Flags
    <3>2. BrelseThen(x, f, av, aged, {}) /\ UNCHANGED blkno
      BY <2>2 DEF Bdwrite, GiveBack, Brelse
    <3> HIDE DEF f
    <3> QED BY <3>1, <3>2, ReleaseChained
  <2>3. ASSUME NEW x \in Bufs, NEW v \in Values, NEW ok \in BOOLEAN,
               Bwrite(x, v, ok) \/ Bawrite(x, v, ok)
        PROVE  Chained'
    BY <2>3, WriteChained DEF Bwrite, Bawrite, GiveBack
  <2>4. ASSUME \/ Begin \/ CallSync \/ CallSyncUnmodified \/ CallGeteblk
               \/ \E b \in Blocks : \/ CallBread(b) \/ CallGetblk(b) \/ CallFsync(b)
                                    \/ \E r \in Blocks : CallBreada(b, r)
        PROVE  Chained'
    BY <2>4, SameChains DEF header, Begin, CallSync, CallSyncUnmodified, CallGeteblk, CallBread,
       CallGetblk, CallFsync, CallBreada, Enter
  <2> QED BY <1>3, <2>1, <2>2, <2>3, <2>4 DEF Client
<1>4. CASE Crash
  BY <1>4, InitChained
<1> QED BY <1>1, <1>2, <1>3, <1>4 DEF Next

(* However many buffers, blocks and hash chains there are and whatever the *)
(* disk does, getblk never gives a block a second buffer, and a buffer is  *)
(* in the chain of its block and in no other; for V6, if the block numbers *)
(* of the volume fit in the int16_t in which getblk receives them.         *)
THEOREM BlocksHaveOneBuffer ==
  ASSUME Fits PROVE Spec => []OneBufferPerBlock
<1>1. Init => Inv /\ Chained
  BY InitInv, InitChained
<1>2. Inv /\ Chained /\ [Next]_vars => (Inv /\ Chained)'
  BY NextInv, NextChained
<1>3. Inv /\ Chained => OneBufferPerBlock
  BY DEF Chained
<1> QED BY <1>1, <1>2, <1>3, PTL DEF Spec

-----------------------------------------------------------------------------
(* A delayed write keeps its buffer.                                       *)

(* A failed buffer has lost its block. *)
Delayed ==
  /\ DirtyKeepsItsBlock
  /\ \A x \in Bufs : "ERROR" \in flags[x] => dev[x] = "none"

ReadsWork == "read" \notin MayFail

(* What a buffer is released with. *)
LEMMA ReleaseDelayed ==
  ASSUME Inv, Delayed, NEW x \in Bufs, NEW f \in SUBSET Flags, NEW late \in SUBSET {"AGE"},
         "DELWRI" \in f => dev[x] = "root" /\ "DONE" \in f /\ "ERROR" \notin f,
         NEW list, NEW first, BrelseThen(x, f, list, first, late)
  PROVE  Delayed'
<1>1. \A y \in Bufs \ {x} : dev'[y] = dev[y] /\ flags'[y] = flags[y]
  BY DEF BrelseThen, Inv, HeaderTyped
<1>2. /\ dev'[x] = IF "ERROR" \in f THEN "none" ELSE dev[x]
      /\ flags'[x] = (f \ {"BUSY", "AGE"}) \union late
  BY DEF BrelseThen, ReleasedDev, ReleasedFlags, Inv, HeaderTyped
<1> QED BY <1>1, <1>2 DEF Delayed, DirtyKeepsItsBlock, IsDirty

LEMMA WriteDelayed ==
  ASSUME Inv, Delayed, NEW x \in Bufs, NEW v, NEW ok \in BOOLEAN, NEW waits \in BOOLEAN,
         NEW list, NEW first, WriteAndRelease(x, v, list, first, ok, waits)
  PROVE  Delayed'
<1> DEFINE f == IoDone(WriteFlags(flags[x]), ok)
           late == IF ~waits /\ IsDirty(x) /\ kernel # "v6" THEN {"AGE"} ELSE {}
<1>1. f \in SUBSET Flags /\ late \in SUBSET {"AGE"} /\ "DELWRI" \notin f
  BY DEF Inv, HeaderTyped, Flags, IoDone, WriteFlags
<1>2. BrelseThen(x, f, list, first, late)
  BY DEF WriteAndRelease
<1> HIDE DEF f, late
<1> QED BY <1>1, <1>2, ReleaseDelayed

LEMMA InitDelayed == (Init => Delayed) /\ (Crash => Delayed')
<1>1. ASSUME Init PROVE Delayed
  BY <1>1 DEF Init, Delayed, DirtyKeepsItsBlock, IsDirty, BinitFlags
<1>2. ASSUME Crash PROVE Delayed'
  BY <1>2 DEF Crash, Delayed, DirtyKeepsItsBlock, IsDirty, BinitFlags
<1> QED BY <1>1, <1>2

LEMMA SameDelayed ==
  ASSUME Delayed, UNCHANGED <<dev, flags>> PROVE Delayed'
BY DEF Delayed, DirtyKeepsItsBlock, IsDirty

LEMMA NextDelayed == ReadsWork /\ Inv /\ Delayed /\ [Next]_vars => Delayed'
<1> SUFFICES ASSUME ReadsWork, Inv, Delayed, [Next]_vars PROVE Delayed'
  OBVIOUS
<1>1. CASE UNCHANGED vars
  BY <1>1, SameDelayed DEF vars, header
<1>2. CASE Step
  <2>1. ASSUME NEW x \in Bufs, GetHit(x) PROVE Delayed'
    BY <2>1 DEF GetHit, Inv, HeaderTyped, Delayed, DirtyKeepsItsBlock, IsDirty
  <2>2. ASSUME TakeHead \/ TakeEmpty PROVE Delayed'
    <3>1. Oldest \in Bufs
      BY <2>2, OldestIsFree DEF TakeHead, TakeEmpty, Inv, FreeBufs
    <3>2. /\ \A y \in Bufs \ {Oldest} : dev'[y] = dev[y] /\ flags'[y] = flags[y]
          /\ flags'[Oldest] \subseteq {"BUSY", "INVAL"}
      <4>1. CASE TakeHead
        BY <3>1, <4>1 DEF TakeHead, Inv, HeaderTyped
      <4>2. CASE TakeEmpty
        BY <3>1, <4>2 DEF TakeEmpty, Inv, HeaderTyped
      <4> QED BY <2>2, <4>1, <4>2
    <3> QED BY <3>1, <3>2 DEF Delayed, DirtyKeepsItsBlock, IsDirty
  <2>3. ASSUME NEW ok \in BOOLEAN, Read(ok) PROVE Delayed'
    <3>1. call.rbp \in Bufs /\ ok
      BY <2>3 DEF Read, Inv, CallTyped, CallShape, Outcomes, ReadsWork
    <3> QED BY <2>3, <3>1
            DEF Read, Inv, HeaderTyped, IoDone, Delayed, DirtyKeepsItsBlock, IsDirty
  <2>4. ASSUME NEW ok \in BOOLEAN, ReadAhead(ok) PROVE Delayed'
    <3> DEFINE x == call.rabp
               f == IoDone(flags[x], ok)
    <3>1. x \in Bufs /\ ok
      BY <2>4 DEF ReadAhead, Inv, CallTyped, CallShape, Outcomes, ReadsWork
    <3>2. /\ f \in SUBSET Flags /\ {} \in SUBSET {"AGE"}
          /\ "DELWRI" \in f => dev[x] = "root" /\ "DONE" \in f /\ "ERROR" \notin f
      BY <3>1 DEF Inv, HeaderTyped, Flags, IoDone, Delayed, DirtyKeepsItsBlock, IsDirty
    <3>3. BrelseThen(x, f, av, aged, {})
      BY <2>4 DEF ReadAhead, Brelse
    <3> HIDE DEF x, f
    <3> QED BY <3>1, <3>2, <3>3, ReleaseDelayed
  <2>5. ASSUME NEW ok \in BOOLEAN, WriteHead(ok) PROVE Delayed'
    <3>1. Oldest \in Bufs
      BY <2>5, OldestIsFree DEF WriteHead, Inv, FreeBufs
    <3> QED BY <2>5, <3>1, WriteDelayed DEF WriteHead
  <2>6. ASSUME NEW x \in Bufs, NEW ok \in BOOLEAN, FlushOne(x, ok) \/ FsyncOne(x, ok)
        PROVE  Delayed'
    BY <2>6, WriteDelayed DEF FlushOne, FsyncOne
  <2>7. ASSUME NoReadAhead \/ Wait \/ Flushed \/ Fsynced PROVE Delayed'
    BY <2>7, SameDelayed DEF NoReadAhead, Wait, Flushed, Fsynced, header
  <2> QED BY <1>2, <2>1, <2>2, <2>3, <2>4, <2>5, <2>6, <2>7 DEF Step
<1>3. CASE Client
  <2>1. ASSUME NEW x \in Bufs, Release(x) PROVE Delayed'
    <3>1. /\ BrelseThen(x, flags[x], av, aged, {}) /\ flags[x] \in SUBSET Flags
          /\ {} \in SUBSET {"AGE"}
          /\ "DELWRI" \in flags[x] =>
               dev[x] = "root" /\ "DONE" \in flags[x] /\ "ERROR" \notin flags[x]
      BY <2>1 DEF Release, Brelse, Inv, HeaderTyped, Delayed, DirtyKeepsItsBlock, IsDirty
    <3> QED BY <3>1, ReleaseDelayed
  <2>2. ASSUME NEW x \in Bufs, NEW v \in Values, Bdwrite(x, v) PROVE Delayed'
    <3> DEFINE f == flags[x] \union {"DELWRI", "DONE"}
    <3>1. /\ f \in SUBSET Flags /\ {} \in SUBSET {"AGE"}
          /\ dev[x] = "root" /\ "DONE" \in f /\ "ERROR" \notin f
      BY <2>2 DEF Bdwrite, GiveBack, Inv, HeaderTyped, Flags, Delayed
    <3>2. BrelseThen(x, f, av, aged, {})
      BY <2>2 DEF Bdwrite, Brelse
    <3> HIDE DEF f
    <3> QED BY <3>1, <3>2, ReleaseDelayed
  <2>3. ASSUME NEW x \in Bufs, NEW v \in Values, NEW ok \in BOOLEAN,
               Bwrite(x, v, ok) \/ Bawrite(x, v, ok)
        PROVE  Delayed'
    BY <2>3, WriteDelayed DEF Bwrite, Bawrite
  <2>4. ASSUME \/ Begin \/ CallSync \/ CallSyncUnmodified \/ CallGeteblk
               \/ \E b \in Blocks : \/ CallBread(b) \/ CallGetblk(b) \/ CallFsync(b)
                                    \/ \E r \in Blocks : CallBreada(b, r)
        PROVE  Delayed'
    BY <2>4, SameDelayed DEF header, Begin, CallSync, CallSyncUnmodified, CallGeteblk, CallBread,
       CallGetblk, CallFsync, CallBreada, Enter
  <2> QED BY <1>3, <2>1, <2>2, <2>3, <2>4 DEF Client
<1>4. CASE Crash
  BY <1>4, InitDelayed
<1> QED BY <1>1, <1>2, <1>3, <1>4 DEF Next

(* As long as the disk does not refuse a read, a dirty buffer holds its     *)
(* block until it is written or the write fails: getblk, brelse and a      *)
(* failed bwrite never leave one that a later flush would write over       *)
(* another's block.                                                        *)
THEOREM DelayedWritesKeepTheirBlock ==
  ASSUME ReadsWork PROVE Spec => []DirtyKeepsItsBlock
<1>1. Init => Inv /\ Delayed
  BY InitInv, InitDelayed
<1>2. Inv /\ Delayed /\ [Next]_vars => (Inv /\ Delayed)'
  BY NextInv, NextDelayed
<1>3. Inv /\ Delayed => DirtyKeepsItsBlock
  BY DEF Delayed
<1> QED BY <1>1, <1>2, <1>3, PTL DEF Spec

-----------------------------------------------------------------------------
(* The cache implements BlockStore.  Assumed: the block numbers of a V6    *)
(* volume fit in an int16_t (Fits), the disk refuses no read (ReadsWork),  *)
(* and the image is as large as its superblock says (WholeImage).  Writes  *)
(* may fail.                                                               *)

WholeImage == ImageSize = 0 \/ ImageSize >= FSize

(* x is the buffer of block b. *)
Has(x, b) == dev[x] = "root" /\ blkno[x] = Fsbtodb(b)

IsRead(x) == "DONE" \in flags[x]

(* A buffer that was read or written through is what the disk holds. *)
Coherent ==
  \A x \in Bufs : dev[x] = "root" /\ IsRead(x) /\ ~IsDirty(x) => data[x] = disk[BlockOf(x)]

(* The buffers of the call in progress: what is being read has not been    *)
(* read, what has been read is of the block that was asked for.            *)
Pending ==
  /\ call.stage = "read" => Has(call.rbp, call.want) /\ ~IsRead(call.rbp)
  /\ call.stage \in {"ahead", "readahead", "wait"} /\ call.rbp \in Bufs
       => Has(call.rbp, call.want) /\ IsRead(call.rbp)
  /\ call.stage = "readahead" => dev[call.rabp] = "root" /\ ~IsRead(call.rabp)
  /\ call.stage \in {"flush", "blkflush", "pool"} => held = {}

Good == Inv /\ Chained /\ Delayed /\ Coherent /\ Pending

-----------------------------------------------------------------------------
(* What a read would answer, by the one buffer of a block.                 *)

ViewFact ==
  \A b \in Blocks :
    /\ \A x \in Bufs : Has(x, b) => View(b) = IF IsRead(x) THEN data[x] ELSE disk[b]
    /\ (\A x \in Bufs : ~Has(x, b)) => View(b) = disk[b]

LEMMA Views == ASSUME Fits PROVE Inv /\ Chained /\ Delayed => ViewFact
<1> SUFFICES ASSUME Inv, Chained, Delayed, NEW b \in Blocks
    PROVE  /\ \A x \in Bufs : Has(x, b) => View(b) = IF IsRead(x) THEN data[x] ELSE disk[b]
           /\ (\A x \in Bufs : ~Has(x, b)) => View(b) = disk[b]
  BY DEF ViewFact
<1> DEFINE valid == {x \in Holders(b) : "DONE" \in flags[x] /\ "ERROR" \notin flags[x]}
<1>1. View(b) = IF valid = {} THEN disk[b] ELSE data[CHOOSE x \in valid : TRUE]
  BY DEF View
<1>2. valid = {x \in Bufs : Has(x, b) /\ IsRead(x)}
  BY HoldersAre DEF Has, IsRead, Delayed
<1> HIDE DEF valid
<1>3. ASSUME NEW x \in Bufs, Has(x, b) PROVE View(b) = IF IsRead(x) THEN data[x] ELSE disk[b]
  <2>1. \A y \in Bufs : Has(y, b) => y = x
    BY <1>3 DEF Has, Chained, OneBufferPerBlock
  <2>2. CASE IsRead(x)
    <3>1. valid = {x}
      BY <2>1, <2>2, <1>2, <1>3
    <3> QED BY <3>1, <2>2, <1>1
  <2>3. CASE ~IsRead(x)
    <3>1. valid = {}
      BY <2>1, <2>3, <1>2
    <3> QED BY <3>1, <2>3, <1>1
  <2> QED BY <2>2, <2>3
<1> QED BY <1>1, <1>2, <1>3

LEMMA ItsBlock ==
  ASSUME Inv, NEW x \in Bufs, dev[x] = "root" PROVE BlockOf(x) \in Blocks /\ Has(x, BlockOf(x))
<1>1. PICK b \in Blocks : blkno[x] = Fsbtodb(b)
  BY DEF Inv, DataTyped
<1>2. BlockOf(x) = b
  BY <1>1, BlockNumbers DEF BlockOf, Inv
<1> QED BY <1>1, <1>2 DEF Has

LEMMA ItsOnlyBlock ==
  ASSUME Inv, NEW x \in Bufs, NEW b \in Blocks, Has(x, b) PROVE b = BlockOf(x)
BY BlockNumbers DEF Inv, Has, BlockOf

LEMMA AllOnDisk == ASSUME WholeImage PROVE \A b \in Blocks : OnDisk(b)
BY BufCacheAssumption DEF WholeImage, OnDisk, VirtualSize, Blocks

-----------------------------------------------------------------------------
(* A step changes at most one buffer.                                      *)

Touches(x) ==
  /\ kernel' = kernel
  /\ \A y \in Bufs \ {x} : /\ dev'[y] = dev[y] /\ blkno'[y] = blkno[y]
                           /\ data'[y] = data[y] /\ flags'[y] = flags[y]

(* Only x can change what is seen, and only of its blocks. *)
LEMMA OtherBlocks ==
  ASSUME ViewFact, ViewFact', NEW x, Touches(x), NEW b \in Blocks,
         disk'[b] = disk[b], ~Has(x, b), ~(dev'[x] = "root" /\ blkno'[x] = Fsbtodb(b))
  PROVE  View(b)' = View(b)
<1>1. Fsbtodb(b)' = Fsbtodb(b)
  BY DEF Touches, Fsbtodb, BSD
<1>2. \A y \in Bufs : Has(y, b)' <=> Has(y, b)
  BY <1>1 DEF Touches, Has
<1>3. CASE \E y \in Bufs : Has(y, b)
  <2>1. PICK y \in Bufs : Has(y, b)
    BY <1>3
  <2>2. data'[y] = data[y] /\ flags'[y] = flags[y] /\ Has(y, b)'
    BY <2>1, <1>2 DEF Touches
  <2>3. View(b) = IF IsRead(y) THEN data[y] ELSE disk[b]
    BY <2>1 DEF ViewFact
  <2>4. View(b)' = IF IsRead(y)' THEN data'[y] ELSE disk'[b]
    BY <2>2 DEF ViewFact
  <2> QED BY <2>2, <2>3, <2>4 DEF IsRead
<1>4. CASE \A y \in Bufs : ~Has(y, b)
  <2>1. View(b) = disk[b]
    BY <1>4 DEF ViewFact
  <2>2. View(b)' = disk'[b]
    BY <1>2, <1>4 DEF ViewFact
  <2> QED BY <2>1, <2>2
<1> QED BY <1>3, <1>4

LEMMA OthersCoherent ==
  ASSUME Inv, Chained, Coherent, NEW x \in Bufs, Touches(x),
         \A b \in Blocks : disk'[b] = disk[b] \/ Has(x, b),
         dev'[x] = "root" /\ "DONE" \in flags'[x] /\ "DELWRI" \notin flags'[x]
           => data'[x] = disk'[Dbtofsb(blkno'[x])]
  PROVE  Coherent'
<1> SUFFICES ASSUME NEW y \in Bufs, dev'[y] = "root", IsRead(y)', ~IsDirty(y)'
             PROVE  data'[y] = disk'[BlockOf(y)']
  BY DEF Coherent
<1>1. BlockOf(y)' = Dbtofsb(blkno'[y])
  BY DEF BlockOf, Touches, Dbtofsb, BSD
<1>2. CASE y = x
  BY <1>1, <1>2 DEF IsRead, IsDirty
<1>3. CASE y # x
  <2>1. dev[y] = "root" /\ IsRead(y) /\ ~IsDirty(y) /\ data'[y] = data[y] /\ blkno'[y] = blkno[y]
    BY <1>3 DEF Touches, IsRead, IsDirty
  <2>2. data[y] = disk[BlockOf(y)] /\ BlockOf(y)' = BlockOf(y)
    BY <2>1, <1>1 DEF Coherent, BlockOf
  <2>3. BlockOf(y) \in Blocks /\ Has(y, BlockOf(y))
    BY <2>1, ItsBlock
  <2>4. ~Has(x, BlockOf(y))
    BY <2>3, <1>3 DEF Has, Chained, OneBufferPerBlock
  <2> QED BY <2>1, <2>2, <2>3, <2>4
<1> QED BY <1>2, <1>3

SameView == disk' = disk /\ \A b \in Blocks : View(b)' = View(b)

(* A step that changes no block, no content and no state of a content. *)
LEMMA SameBlocks ==
  ASSUME ViewFact, ViewFact', Coherent, UNCHANGED <<kernel, dev, blkno, data, disk>>,
         \A x \in Bufs : /\ "DONE" \in flags'[x] <=> "DONE" \in flags[x]
                         /\ "DELWRI" \in flags'[x] <=> "DELWRI" \in flags[x]
  PROVE  SameView /\ Coherent'
<1>1. \A x \in Bufs, b \in Blocks : Has(x, b)' <=> Has(x, b)
  BY DEF Has, Fsbtodb, BSD
<1>2. \A x \in Bufs : (IsRead(x)' <=> IsRead(x)) /\ (IsDirty(x)' <=> IsDirty(x))
  BY DEF IsRead, IsDirty
<1>3. ASSUME NEW b \in Blocks PROVE View(b)' = View(b)
  <2>1. CASE \E x \in Bufs : Has(x, b)
    <3>1. PICK x \in Bufs : Has(x, b) /\ Has(x, b)'
      BY <2>1, <1>1
    <3> QED BY <3>1, <1>2 DEF ViewFact
  <2>2. CASE \A x \in Bufs : ~Has(x, b)
    <3>1. \A x \in Bufs : ~Has(x, b)'
      BY <2>2, <1>1
    <3> QED BY <2>2, <3>1 DEF ViewFact
  <2> QED BY <2>1, <2>2
<1>4. Coherent'
  BY <1>2 DEF Coherent, BlockOf, Dbtofsb, BSD
<1> QED BY <1>3, <1>4 DEF SameView

(* A clean buffer is given to another block, or to none. *)
LEMMA Reassigned ==
  ASSUME Inv, Chained, Chained', Coherent, ViewFact, ViewFact', NEW x \in Bufs, Touches(x),
         ~IsDirty(x), disk' = disk, "DONE" \notin flags'[x] \/ dev'[x] = "none"
  PROVE  SameView /\ Coherent'
<1>0. \A b : Fsbtodb(b)' = Fsbtodb(b)
  BY DEF Touches, Fsbtodb, BSD
<1>1. \A y \in Bufs \ {x}, b \in Blocks : Has(y, b)' <=> Has(y, b)
  BY <1>0 DEF Touches, Has
<1>2. ASSUME NEW b \in Blocks PROVE View(b)' = View(b)
  <2>1. CASE Has(x, b)
    <3>1. View(b) = disk[b]
      BY <2>1, ItsOnlyBlock DEF ViewFact, Coherent, Has
    <3>2. \A y \in Bufs \ {x} : ~Has(y, b)'
      BY <2>1, <1>1 DEF Has, Chained, OneBufferPerBlock
    <3>3. View(b)' = disk'[b]
      BY <3>2 DEF ViewFact, Has, IsRead
    <3> QED BY <3>1, <3>3
  <2>2. CASE ~Has(x, b) /\ Has(x, b)'
    <3>1. View(b)' = disk'[b]
      BY <2>2 DEF ViewFact, Has, IsRead
    <3>2. \A y \in Bufs : ~Has(y, b)
      <4>1. ASSUME NEW y \in Bufs, Has(y, b) PROVE FALSE
        <5>1. y # x /\ Has(y, b)'
          BY <4>1, <2>2, <1>1
        <5> QED BY <5>1, <2>2 DEF Has, Chained, OneBufferPerBlock
      <4> QED BY <4>1
    <3> QED BY <3>1, <3>2 DEF ViewFact
  <2>3. CASE ~Has(x, b) /\ ~Has(x, b)'
    BY <2>3, <1>0, OtherBlocks DEF Has
  <2> QED BY <2>1, <2>2, <2>3
<1>3. Coherent'
  BY OthersCoherent DEF Inv, HeaderTyped
<1> QED BY <1>2, <1>3 DEF SameView

(* A block is read into the buffer that waits for it. *)
LEMMA Filled ==
  ASSUME Inv, Chained, Coherent, ViewFact, ViewFact', NEW x \in Bufs, Touches(x),
         dev[x] = "root", dev'[x] = "root", blkno'[x] = blkno[x], disk' = disk,
         ~IsRead(x), "DONE" \in flags'[x], data'[x] = disk[BlockOf(x)]
  PROVE  SameView /\ Coherent'
<1>0. \A b : Fsbtodb(b)' = Fsbtodb(b)
  BY DEF Touches, Fsbtodb, BSD
<1>1. ASSUME NEW b \in Blocks PROVE View(b)' = View(b)
  <2>1. CASE Has(x, b)
    <3>1. View(b) = disk[b] /\ b = BlockOf(x)
      BY <2>1, ItsOnlyBlock DEF ViewFact
    <3>2. Has(x, b)' /\ IsRead(x)'
      BY <2>1, <1>0 DEF Has, IsRead
    <3>3. View(b)' = data'[x]
      BY <3>2 DEF ViewFact
    <3> QED BY <3>1, <3>3
  <2>2. CASE ~Has(x, b)
    BY <2>2, OtherBlocks DEF Has
  <2> QED BY <2>1, <2>2
<1>2. Dbtofsb(blkno'[x]) = BlockOf(x)
  BY DEF BlockOf
<1>3. Coherent'
  BY <1>2, OthersCoherent
<1> QED BY <1>1, <1>3 DEF SameView

(* x takes content v, for the block it has. *)
Puts(x, v) ==
  blkno' = blkno /\ data'[x] = v /\ \A y \in Bufs \ {x} : data'[y] = data[y]

LEMMA BrelseTouches ==
  ASSUME Inv, NEW x \in Bufs, NEW f \in SUBSET Flags, NEW late \in SUBSET {"AGE"},
         NEW list, NEW first, BrelseThen(x, f, list, first, late),
         NEW v \in Values, Puts(x, v)
  PROVE  /\ Touches(x) /\ data'[x] = v
         /\ dev'[x] = IF "ERROR" \in f THEN "none" ELSE dev[x]
         /\ flags'[x] = (f \ {"BUSY", "AGE"}) \union late
BY DEF BrelseThen, Touches, ReleasedDev, ReleasedFlags, Puts, Inv, HeaderTyped

(* The block of x is written: it is v, or what the disk holds. *)
WroteBlock(x, v, ok) ==
  /\ BlockOf(x) \in Blocks
  /\ \A b \in Blocks \ {BlockOf(x)} : View(b)' = View(b)
  /\ disk' = IF ok THEN [disk EXCEPT ![BlockOf(x)] = v] ELSE disk
  /\ \A b \in Blocks : b = BlockOf(x) => View(b)' = IF ok THEN v ELSE disk[b]

LEMMA Written ==
  ASSUME WholeImage, Inv, Chained, Coherent, ViewFact, ViewFact', NEW x \in Bufs,
         dev[x] = "root", NEW v \in Values, NEW ok \in BOOLEAN,
         NEW waits \in BOOLEAN, NEW list, NEW first,
         WriteAndRelease(x, v, list, first, ok, waits), Puts(x, v)
  PROVE  Touches(x) /\ Coherent' /\ WroteBlock(x, v, ok)
<1> DEFINE f == IoDone(WriteFlags(flags[x]), ok)
           late == IF ~waits /\ IsDirty(x) /\ kernel # "v6" THEN {"AGE"} ELSE {}
<1>1. BlockOf(x) \in Blocks /\ Has(x, BlockOf(x))
  BY ItsBlock
<1>2. disk' = IF ok THEN [disk EXCEPT ![BlockOf(x)] = v] ELSE disk
  BY <1>1, AllOnDisk DEF WriteAndRelease, DskWrite
<1>3. /\ "DONE" \in f /\ "DELWRI" \notin f /\ ("ERROR" \in f <=> ~ok)
      /\ f \in SUBSET Flags /\ late \in SUBSET {"AGE"}
  BY DEF IoDone, WriteFlags, Flags, Inv, HeaderTyped
<1>4. BrelseThen(x, f, list, first, late)
  BY DEF WriteAndRelease
<1> HIDE DEF f, late
<1>0. blkno' = blkno
  BY DEF Puts
<1>5. /\ Touches(x) /\ data'[x] = v
      /\ dev'[x] = (IF ok THEN "root" ELSE "none")
      /\ "DONE" \in flags'[x] /\ "DELWRI" \notin flags'[x]
  <2>1. /\ Touches(x) /\ data'[x] = v
        /\ dev'[x] = IF "ERROR" \in f THEN "none" ELSE dev[x]
        /\ flags'[x] = (f \ {"BUSY", "AGE"}) \union late
    BY <1>3, <1>4, BrelseTouches
  <2> QED BY <2>1, <1>3
<1>6. \A b : Fsbtodb(b)' = Fsbtodb(b)
  BY <1>5 DEF Touches, Fsbtodb, BSD
<1>7. \A b \in Blocks \ {BlockOf(x)} : ~Has(x, b) /\ disk'[b] = disk[b]
  BY <1>1, <1>2, ItsOnlyBlock DEF Inv, DataTyped
<1>8. ASSUME NEW b \in Blocks \ {BlockOf(x)} PROVE View(b)' = View(b)
  <2>1. ~(dev'[x] = "root" /\ blkno'[x] = Fsbtodb(b))
    BY <1>0, <1>7 DEF Has
  <2> QED BY <2>1, <1>5, <1>7, OtherBlocks
<1>9. ASSUME NEW b \in Blocks, b = BlockOf(x) PROVE View(b)' = IF ok THEN v ELSE disk[b]
  <2>1. CASE ok
    <3>1. Has(x, b)' /\ IsRead(x)'
      BY <2>1, <1>0, <1>1, <1>5, <1>6, <1>9 DEF Has, IsRead
    <3> QED BY <3>1, <2>1, <1>5 DEF ViewFact
  <2>2. CASE ~ok
    <3>1. \A y \in Bufs : ~Has(y, b)'
      BY <2>2, <1>1, <1>5, <1>6, <1>9 DEF Has, Touches, Chained, OneBufferPerBlock
    <3>2. View(b)' = disk'[b]
      BY <3>1 DEF ViewFact
    <3> QED BY <3>2, <2>2, <1>2
  <2> QED BY <2>1, <2>2
<1>10. Coherent'
  <2>1. \A b \in Blocks : disk'[b] = disk[b] \/ Has(x, b)
    BY <1>1, <1>7
  <2>2. Dbtofsb(blkno'[x]) = BlockOf(x)
    BY <1>0 DEF BlockOf
  <2>3. dev'[x] = "root" => data'[x] = disk'[BlockOf(x)]
    BY <1>1, <1>2, <1>5 DEF Inv, DataTyped
  <2> QED BY <2>1, <2>2, <2>3, <1>5, OthersCoherent
<1> QED BY <1>1, <1>2, <1>5, <1>8, <1>9, <1>10 DEF WroteBlock

-----------------------------------------------------------------------------
(* The steps of the store, in terms of View.                               *)

LEMMA QuietStep ==
  ASSUME SameView, answer' = NONE PROVE Store!Next
<1>1. [b \in Blocks |-> View(b)]' = [b \in Blocks |-> View(b)] /\ disk' = disk
  BY DEF SameView
<1> QED BY <1>1 DEF Store!Next, Store!Quiet

LEMMA ReadStep ==
  ASSUME SameView, NEW b \in Blocks, answer' = <<"read", b, View(b)>> PROVE Store!Next
<1>1. [c \in Blocks |-> View(c)]' = [c \in Blocks |-> View(c)] /\ disk' = disk
  BY DEF SameView
<1>2. Store!Read(b)
  BY <1>1 DEF Store!Read
<1> QED BY <1>2 DEF Store!Next

LEMMA SyncStep ==
  ASSUME Inv, SameView, \A b \in Blocks : View(b) = disk[b],
         answer' \in {<<"sync", NONE, OK>>, <<"sync", NONE, EIO>>}
  PROVE  Store!Next
<1>1. [b \in Blocks |-> View(b)]' = [b \in Blocks |-> View(b)] /\ disk' = disk
  BY DEF SameView
<1>2. [b \in Blocks |-> View(b)] = disk
  BY DEF Inv, DataTyped
<1>3. Store!Sync
  BY <1>1, <1>2 DEF Store!Sync
<1> QED BY <1>3 DEF Store!Next

(* The step that stores v in block b: in memory, or on the disk as well, or *)
(* not, if the disk refuses it.                                            *)
LEMMA StoreStep ==
  ASSUME NEW b \in Blocks, NEW v \in Values, \A c \in Blocks \ {b} : View(c)' = View(c),
         View(b)' = v, disk' = disk, answer' = NONE
  PROVE  Store!Next
<1>1. [c \in Blocks |-> View(c)]' = [[c \in Blocks |-> View(c)] EXCEPT ![b] = v]
  OBVIOUS
<1>2. Store!Store(b, v)
  BY <1>1 DEF Store!Store
<1> QED BY <1>2 DEF Store!Next

LEMMA ThroughStep ==
  ASSUME NEW b \in Blocks, NEW v \in Values, \A c \in Blocks \ {b} : View(c)' = View(c),
         View(b)' = v, disk' = [disk EXCEPT ![b] = v], answer' \in {<<"write", b, OK>>, NONE}
  PROVE  Store!Next
<1>1. [c \in Blocks |-> View(c)]' = [[c \in Blocks |-> View(c)] EXCEPT ![b] = v]
  OBVIOUS
<1>2. Store!WriteThrough(b, v)
  BY <1>1 DEF Store!WriteThrough
<1> QED BY <1>2 DEF Store!Next

LEMMA LoseStep ==
  ASSUME NEW b \in Blocks, \A c \in Blocks \ {b} : View(c)' = View(c),
         View(b)' = disk[b], disk' = disk,
         answer' \in {<<"write", b, EIO>>, <<"lost", b, EIO>>}
  PROVE  Store!Next
<1>1. [c \in Blocks |-> View(c)]' = [[c \in Blocks |-> View(c)] EXCEPT ![b] = disk[b]]
  OBVIOUS
<1>2. Store!Lose(b)
  BY <1>1 DEF Store!Lose
<1> QED BY <1>2 DEF Store!Next

LEMMA FlushStep ==
  ASSUME NEW b \in Blocks, \A c \in Blocks : View(c)' = View(c),
         disk' = [disk EXCEPT ![b] = View(b)], answer' = NONE
  PROVE  Store!Next
<1>1. [c \in Blocks |-> View(c)]' = [c \in Blocks |-> View(c)]
  OBVIOUS
<1>2. Store!Flush(b)
  BY <1>1 DEF Store!Flush
<1> QED BY <1>2 DEF Store!Next

LEMMA CrashStep ==
  ASSUME Inv, \A b \in Blocks : View(b)' = disk[b], disk' = disk, answer' = NONE
  PROVE  Store!Next
<1>1. [b \in Blocks |-> View(b)]' = disk
  BY DEF Inv, DataTyped
<1>2. Store!Crash
  BY <1>1 DEF Store!Crash
<1> QED BY <1>2 DEF Store!Next

-----------------------------------------------------------------------------
(* Each step of the cache is one of the store's, and keeps the invariant.  *)

Simulates == Store!Next /\ Coherent' /\ Pending'

(* What is known of the two states of a step. *)
Before == Inv /\ Chained /\ Delayed /\ Coherent /\ Pending /\ ViewFact
After == Inv' /\ Chained' /\ Delayed' /\ ViewFact'

(* No call is in progress after the step. *)
LEMMA PendingIdle == ASSUME call' = Idle PROVE Pending'
BY DEF Pending, Idle

(* The buffers of the call in progress are not x. *)
LEMMA PendingSame ==
  ASSUME Inv, Pending, NEW x \in FreeBufs, Touches(x), UNCHANGED <<call, held>>
  PROVE  Pending'
<1>1. x # call.rbp /\ x # call.rabp
  BY BufCacheAssumption DEF Inv, BusyInHand, InHand, FreeBufs
<1>2. \A b : Fsbtodb(b)' = Fsbtodb(b)
  BY DEF Touches, Fsbtodb, BSD
<1>3. ASSUME NEW y \in Bufs \ {x}
      PROVE  /\ dev'[y] = dev[y] /\ (IsRead(y)' <=> IsRead(y))
             /\ \A b : Has(y, b)' <=> Has(y, b)
  BY <1>2, <1>3 DEF Touches, IsRead, Has
<1>4. ASSUME call'.stage = "read" PROVE Has(call.rbp, call.want)' /\ ~IsRead(call.rbp)'
  <2>1. call.rbp \in Bufs \ {x} /\ Has(call.rbp, call.want) /\ ~IsRead(call.rbp)
    BY <1>1, <1>4 DEF Inv, CallTyped, CallShape, Pending
  <2> QED BY <2>1, <1>2 DEF Touches, IsRead, Has
<1>5. ASSUME call'.stage \in {"ahead", "readahead", "wait"}, call'.rbp \in Bufs
      PROVE  Has(call.rbp, call.want)' /\ IsRead(call.rbp)'
  <2>1. call.rbp \in Bufs \ {x} /\ Has(call.rbp, call.want) /\ IsRead(call.rbp)
    BY <1>1, <1>5 DEF Pending
  <2> QED BY <2>1, <1>2 DEF Touches, IsRead, Has
<1>6. ASSUME call'.stage = "readahead" PROVE dev'[call'.rabp] = "root" /\ ~IsRead(call.rabp)'
  <2>1. call.rabp \in Bufs \ {x} /\ dev[call.rabp] = "root" /\ ~IsRead(call.rabp)
    BY <1>1, <1>6 DEF Inv, CallTyped, CallShape, Pending
  <2> QED BY <2>1 DEF Touches, IsRead
<1> QED BY <1>4, <1>5, <1>6 DEF Pending

LEMMA GetHitSim ==
  ASSUME Fits, Before, After, NEW x \in Bufs, GetHit(x) PROVE Simulates
<1> USE DEF Before, After
<1>1. SameView /\ Coherent'
  BY SameBlocks DEF GetHit, Inv, HeaderTyped
<1>2. call.want \in Blocks /\ Has(x, call.want)
  <2>1. call.want \in Blocks
    BY DEF GetHit, Inv, CallTyped, CallTypes
  <2> QED BY <2>1, HoldersAre DEF GetHit, Has
<1>3. CASE (call.op = "getblk" \/ IsRead(x)) /\ Return(x, flags[x], data[x])
  <2>1. Pending'
    BY <1>3, PendingIdle DEF Return
  <2>2. CASE Reads(call.op)
    <3>1. IsRead(x) /\ "ERROR" \notin flags[x]
      BY <2>2, <1>2, <1>3 DEF Reads, Delayed, Has
    <3>2. View(call.want) = data[x]
      BY <3>1, <1>2 DEF ViewFact
    <3>3. answer' = <<"read", call.want, View(call.want)>>
      BY <3>1, <3>2, <2>2, <1>3 DEF Return
    <3> QED BY <3>3, <2>1, <1>1, <1>2, ReadStep DEF Simulates
  <2>3. CASE ~Reads(call.op)
    BY <2>3, <2>1, <1>1, <1>3, QuietStep DEF Return, Simulates
  <2> QED BY <2>2, <2>3
<1>4. CASE /\ call.op # "getblk" /\ "DONE" \notin flags[x]
           /\ call' = [call EXCEPT !.stage = "read", !.rbp = x]
           /\ answer' = NONE /\ UNCHANGED <<held, u_error>>
  <2>1. call'.stage = "read" /\ call'.rbp = x /\ call'.want = call.want
    BY <1>4 DEF Inv, CallTyped, CallTypes
  <2>2. Has(x, call.want)' /\ ~IsRead(x)'
    BY <1>2, <1>4 DEF GetHit, Has, IsRead, Fsbtodb, BSD, Inv, HeaderTyped
  <2>3. Pending'
    BY <2>1, <2>2 DEF Pending, Has, IsRead, Fsbtodb, BSD
  <2> QED BY <2>3, <1>1, <1>4, QuietStep DEF Simulates
<1> QED BY <1>3, <1>4 DEF GetHit, IsRead

LEMMA TakeHeadSim ==
  ASSUME Fits, Before, After, TakeHead PROVE Simulates
<1> USE DEF Before, After
<1>1. Oldest \in FreeBufs
  BY OldestIsFree DEF TakeHead, Inv
<1>2. PICK x \in FreeBufs : x = Oldest
  BY <1>1
<1>3. PICK b \in Blocks :
        /\ Looking(b) /\ HasFree /\ ~IsDirty(x)
        /\ flags' = [flags EXCEPT ![x] = {"BUSY"}]
        /\ dev' = [dev EXCEPT ![x] = "root"]
        /\ blkno' = [blkno EXCEPT ![x] = Fsbtodb(b)]
        /\ CASE call.op = "getblk" -> Return(x, {}, data[x])
             [] call.stage = "ahead" ->
                  /\ call' = [call EXCEPT !.stage = "readahead", !.rabp = x]
                  /\ answer' = NONE
                  /\ UNCHANGED <<held, u_error>>
             [] OTHER ->
                  /\ call' = [call EXCEPT !.stage = "read", !.rbp = x]
                  /\ answer' = NONE
                  /\ UNCHANGED <<held, u_error>>
        /\ UNCHANGED <<kernel, data, disk>>
  BY <1>2, Zenon DEF TakeHead
<1>4. x \in Bufs /\ x # call.rbp
  BY BufCacheAssumption DEF FreeBufs, Inv, BusyInHand, InHand
<1>5. Touches(x) /\ Has(x, b)' /\ ~IsRead(x)' /\ disk' = disk /\ dev'[x] = "root"
  BY <1>3, <1>4 DEF Touches, Has, IsRead, Fsbtodb, BSD, Inv, HeaderTyped, DataTyped
<1>6. SameView /\ Coherent'
  BY <1>3, <1>4, <1>5, Reassigned DEF IsRead
<1>7. answer' = NONE /\ Pending'
  <2>1. CASE call.op = "getblk" /\ Return(x, {}, data[x])
    BY <2>1, PendingIdle DEF Return, Reads
  <2>2. CASE /\ call.op # "getblk" /\ call.stage = "ahead"
             /\ call' = [call EXCEPT !.stage = "readahead", !.rabp = x]
             /\ answer' = NONE
    <3>1. call'.stage = "readahead" /\ call'.rabp = x /\ call'.rbp = call.rbp
          /\ call'.want = call.want
      BY <2>2 DEF Inv, CallTyped, CallTypes
    <3>2. ASSUME call.rbp \in Bufs PROVE Has(call.rbp, call.want)' /\ IsRead(call.rbp)'
      <4>1. Has(call.rbp, call.want) /\ IsRead(call.rbp)
        BY <3>2, <2>2 DEF Pending
      <4> QED BY <4>1, <3>1, <3>2, <1>3, <1>4, <1>5 DEF Touches, Has, IsRead, Fsbtodb, BSD
    <3> QED BY <3>1, <3>2, <2>2, <1>5 DEF Pending, IsRead
  <2>3. CASE /\ call.op # "getblk" /\ call.stage # "ahead"
             /\ call' = [call EXCEPT !.stage = "read", !.rbp = x]
             /\ answer' = NONE
    <3>1. call'.stage = "read" /\ call'.rbp = x /\ call'.want = call.want
      BY <2>3 DEF Inv, CallTyped, CallTypes
    <3>2. call.want = b
      BY <2>3, <1>3 DEF Looking
    <3>3. Has(call.rbp, call.want)' /\ ~IsRead(call.rbp)'
      BY <3>1, <3>2, <1>3, <1>5 DEF Has, IsRead, Fsbtodb, BSD
    <3> QED BY <3>1, <3>3, <2>3 DEF Pending
  <2> QED BY <2>1, <2>2, <2>3, <1>3 DEF Inv, CallTyped, CallShape
<1> QED BY <1>6, <1>7, QuietStep DEF Simulates

LEMMA TakeEmptySim ==
  ASSUME Fits, Before, After, TakeEmpty PROVE Simulates
<1> USE DEF Before, After
<1>1. Oldest \in Bufs
  BY OldestIsFree DEF TakeEmpty, Inv, FreeBufs
<1>2. PICK x \in Bufs : x = Oldest
  BY <1>1
<1>3. /\ ~IsDirty(x) /\ call.op = "geteblk"
      /\ flags' = [flags EXCEPT ![x] = {"BUSY"} \union IF kernel = "211" THEN {"INVAL"} ELSE {}]
      /\ dev' = [dev EXCEPT ![x] = "none"]
      /\ Return(x, {}, data[x])
      /\ UNCHANGED <<kernel, blkno, data, disk>>
  BY <1>2 DEF TakeEmpty
<1>4. Touches(x) /\ dev'[x] = "none"
  BY <1>3 DEF Touches, Inv, HeaderTyped
<1>5. SameView /\ Coherent'
  BY <1>3, <1>4, Reassigned
<1>6. answer' = NONE /\ Pending'
  BY <1>3, PendingIdle DEF Return, Reads
<1> QED BY <1>5, <1>6, QuietStep DEF Simulates

LEMMA ReadSim ==
  ASSUME ReadsWork, WholeImage, Before, After, NEW ok \in BOOLEAN, Read(ok) PROVE Simulates
<1> USE DEF Before, After
<1>1. PICK x \in Bufs : x = call.rbp
  BY DEF Read, Inv, CallTyped, CallShape
<1>2. /\ ok /\ call.want \in Blocks /\ Has(x, call.want) /\ ~IsRead(x)
      /\ call.op \in {"bread", "breada"}
  BY <1>1 DEF Read, Outcomes, ReadsWork, Inv, CallTyped, CallTypes, CallShape, Pending
<1>3. call.want = BlockOf(x) /\ OnDisk(BlockOf(x))
  BY <1>2, AllOnDisk, ItsOnlyBlock
<1>4. /\ data' = [data EXCEPT ![x] = disk[BlockOf(x)]]
      /\ flags' = [flags EXCEPT ![x] = @ \union {"DONE"}]
      /\ UNCHANGED <<kernel, dev, blkno, disk>>
  BY <1>1, <1>2, <1>3 DEF Read, DskRead, IoDone
<1>5. /\ Touches(x) /\ dev[x] = "root" /\ dev'[x] = "root" /\ blkno'[x] = blkno[x]
      /\ "DONE" \in flags'[x] /\ data'[x] = disk[BlockOf(x)]
  BY <1>2, <1>4 DEF Touches, Has, Inv, HeaderTyped, DataTyped
<1>6. SameView /\ Coherent'
  BY <1>2, <1>4, <1>5, Filled
<1>7. CASE call.op = "bread" /\ Return(x, flags'[x], data'[x])
  <2>1. "ERROR" \notin flags'[x]
    BY <1>4, <1>5 DEF Delayed
  <2>2. View(call.want) = disk[call.want]
    BY <1>2 DEF ViewFact
  <2>3. answer' = <<"read", call.want, View(call.want)>>
    BY <1>7, <1>3, <1>5, <2>1, <2>2 DEF Return, Reads
  <2>4. Pending'
    BY <1>7, PendingIdle DEF Return
  <2> QED BY <1>2, <1>6, <2>3, <2>4, ReadStep DEF Simulates
<1>8. CASE /\ call.op = "breada" /\ call' = [call EXCEPT !.stage = "ahead"]
           /\ answer' = NONE
  <2>1. call'.stage = "ahead" /\ call'.rbp = x /\ call'.want = call.want
    BY <1>1, <1>8 DEF Inv, CallTyped, CallTypes
  <2>2. Has(call.rbp, call.want)' /\ IsRead(call.rbp)'
    BY <2>1, <1>2, <1>4, <1>5 DEF Has, IsRead, Fsbtodb, BSD
  <2>3. Pending'
    BY <2>1, <2>2 DEF Pending
  <2> QED BY <1>6, <1>8, <2>3, QuietStep DEF Simulates
<1> QED BY <1>1, <1>2, <1>7, <1>8 DEF Read

LEMMA ReadAheadSim ==
  ASSUME ReadsWork, WholeImage, Before, After, NEW ok \in BOOLEAN, ReadAhead(ok) PROVE Simulates
<1> USE DEF Before, After
<1>1. PICK x \in Bufs : x = call.rabp
  BY DEF ReadAhead, Inv, CallTyped, CallShape
<1>2. ok /\ dev[x] = "root" /\ ~IsRead(x)
  BY <1>1 DEF ReadAhead, Outcomes, ReadsWork, Pending
<1>3. OnDisk(BlockOf(x)) /\ BlockOf(x) \in Blocks
  BY <1>2, AllOnDisk, ItsBlock
<1> DEFINE f == flags[x] \union {"DONE"}
<1>4. /\ data' = [data EXCEPT ![x] = disk[BlockOf(x)]]
      /\ BrelseThen(x, f, av, aged, {}) /\ UNCHANGED <<blkno, disk, held>>
      /\ call' = [call EXCEPT !.stage = "wait", !.rabp = NULL] /\ answer' = NONE
  BY <1>1, <1>2, <1>3 DEF ReadAhead, DskRead, IoDone, Brelse
<1>5. /\ f \in SUBSET Flags /\ {} \in SUBSET {"AGE"} /\ "ERROR" \notin f
      /\ disk[BlockOf(x)] \in Values
  BY <1>2, <1>3 DEF Inv, HeaderTyped, DataTyped, Flags, Delayed
<1>6. /\ Touches(x) /\ dev'[x] = "root" /\ blkno'[x] = blkno[x]
      /\ "DONE" \in flags'[x] /\ data'[x] = disk[BlockOf(x)]
  <2> HIDE DEF f
  <2>0. PICK v \in Values, late \in SUBSET {"AGE"} : v = disk[BlockOf(x)] /\ late = {}
    BY <1>5
  <2>1. /\ Touches(x) /\ data'[x] = v
        /\ dev'[x] = IF "ERROR" \in f THEN "none" ELSE dev[x]
        /\ flags'[x] = (f \ {"BUSY", "AGE"}) \union late
    <3>1. Puts(x, v)
      BY <2>0, <1>4, <1>5 DEF Puts, Inv, DataTyped
    <3> QED BY <3>1, <2>0, <1>4, <1>5, BrelseTouches
  <2> QED BY <2>0, <2>1, <1>2, <1>4, <1>5 DEF f
<1>7. SameView /\ Coherent'
  BY <1>2, <1>4, <1>6, Filled
<1>8. Pending'
  <2>1. call'.stage = "wait" /\ call'.rbp = call.rbp /\ call'.want = call.want
    BY <1>4 DEF Inv, CallTyped, CallTypes
  <2>2. ASSUME call.rbp \in Bufs PROVE Has(call.rbp, call.want)' /\ IsRead(call.rbp)'
    <3>1. call.rbp # x /\ Has(call.rbp, call.want) /\ IsRead(call.rbp)
      BY <2>2, <1>1 DEF ReadAhead, Pending, Inv, CallTyped, CallShape
    <3> QED BY <3>1, <2>1, <2>2, <1>6 DEF Touches, Has, IsRead, Fsbtodb, BSD
  <2> QED BY <2>1, <2>2 DEF Pending
<1> QED BY <1>4, <1>7, <1>8, QuietStep DEF Simulates

LEMMA WaitSim ==
  ASSUME Before, After, Wait PROVE Simulates
<1> USE DEF Before, After
<1>1. SameView /\ Coherent'
  BY SameBlocks DEF Wait, header
<1>2. CASE call.rbp # NULL /\ Return(call.rbp, flags[call.rbp], data[call.rbp])
  <2>1. PICK x \in Bufs : x = call.rbp
    BY <1>2 DEF Inv, CallTyped, CallTypes
  <2>2. call.want \in Blocks /\ Has(x, call.want) /\ IsRead(x) /\ call.op = "breada"
    BY <2>1 DEF Wait, Inv, CallTyped, CallTypes, CallShape, Pending
  <2>3. View(call.want) = data[x] /\ "ERROR" \notin flags[x]
    BY <2>2 DEF ViewFact, Delayed, Has
  <2>4. answer' = <<"read", call.want, View(call.want)>>
    BY <1>2, <2>1, <2>2, <2>3 DEF Return, Reads
  <2>5. Pending'
    BY <1>2, PendingIdle DEF Return
  <2> QED BY <1>1, <2>2, <2>4, <2>5, ReadStep DEF Simulates
<1>3. CASE /\ call' = [Idle EXCEPT !.op = "bread", !.stage = "get", !.want = call.want]
           /\ answer' = NONE
  <2>1. Pending'
    BY <1>3 DEF Pending, Idle
  <2> QED BY <1>1, <1>3, <2>1, QuietStep DEF Simulates
<1> QED BY <1>2, <1>3 DEF Wait

LEMMA NoReadAheadSim ==
  ASSUME Before, After, NoReadAhead PROVE Simulates
<1> USE DEF Before, After
<1>1. SameView /\ Coherent'
  BY SameBlocks DEF NoReadAhead, header
<1>2. Pending'
  BY DEF NoReadAhead, Pending, Has, IsRead, header, Fsbtodb, BSD, Inv, CallTyped, CallTypes
<1> QED BY <1>1, <1>2, QuietStep DEF NoReadAhead, Simulates

(* A dirty buffer on a list is written back, or lost. *)
LEMMA WriteBackSim ==
  ASSUME WholeImage, Before, After, NEW x \in FreeBufs, IsDirty(x), NEW ok \in BOOLEAN,
         NEW waits \in BOOLEAN,
         WriteAndRelease(x, data[x], Without(av, x), Without(aged, x), ok, waits),
         UNCHANGED <<blkno, data, call, held>>, answer' = Unheard(BlockOf(x), ok)
  PROVE  Simulates
<1> USE DEF Before, After
<1>1. x \in Bufs /\ dev[x] = "root" /\ IsRead(x)
  BY DEF FreeBufs, Delayed, DirtyKeepsItsBlock, IsRead
<1>2. PICK v \in Values : v = data[x]
  BY <1>1 DEF Inv, DataTyped
<1>3. PICK b \in Blocks : b = BlockOf(x)
  BY <1>1, ItsBlock
<1>4. /\ Touches(x) /\ Coherent'
      /\ \A c \in Blocks \ {b} : View(c)' = View(c)
      /\ disk' = IF ok THEN [disk EXCEPT ![b] = v] ELSE disk
      /\ View(b)' = IF ok THEN v ELSE disk[b]
  <2>1. WriteAndRelease(x, v, Without(av, x), Without(aged, x), ok, waits) /\ Puts(x, v)
    BY <1>1, <1>2 DEF Puts, Inv, DataTyped
  <2>2. Touches(x) /\ Coherent' /\ WroteBlock(x, v, ok)
    BY <2>1, <1>1, <1>2, Written
  <2> QED BY <2>2, <1>3 DEF WroteBlock
<1>5. Pending'
  BY <1>4, PendingSame
<1>6. View(b) = v
  BY <1>1, <1>2, <1>3, ItsBlock DEF ViewFact
<1>7. CASE ok
  BY <1>3, <1>4, <1>5, <1>6, <1>7, FlushStep DEF Unheard, Simulates
<1>8. CASE ~ok
  BY <1>3, <1>4, <1>5, <1>8, LoseStep DEF Unheard, Simulates
<1> QED BY <1>7, <1>8

LEMMA WriteHeadSim ==
  ASSUME WholeImage, Before, After, NEW ok \in BOOLEAN, WriteHead(ok) PROVE Simulates
<1>1. PICK x \in FreeBufs : x = Oldest
  BY OldestIsFree DEF WriteHead, Before, Inv
<1>2. /\ IsDirty(x) /\ answer' = Unheard(BlockOf(x), ok)
      /\ WriteAndRelease(x, data[x], Without(av, x), Without(aged, x), ok, FALSE)
      /\ UNCHANGED <<blkno, data, call, held>>
  BY <1>1 DEF WriteHead
<1> QED BY <1>2, WriteBackSim

LEMMA FlushSim ==
  ASSUME WholeImage, Before, After, NEW x \in Bufs, NEW ok \in BOOLEAN,
         FlushOne(x, ok) \/ FsyncOne(x, ok)
  PROVE  Simulates
<1>1. CASE FlushOne(x, ok)
  <2>1. x \in FreeBufs /\ IsDirty(x)
    BY <1>1, FirstDirtyIsFree DEF FlushOne, Before, Inv
  <2> QED BY <1>1, <2>1, WriteBackSim DEF FlushOne
<1>2. CASE FsyncOne(x, ok)
  <2>1. x \in FreeBufs /\ IsDirty(x)
    BY <1>2 DEF FsyncOne, ToFsync, FreeBufs
  <2> QED BY <1>2, <2>1, WriteBackSim DEF FsyncOne
<1> QED BY <1>1, <1>2

(* While a sync runs nobody holds a buffer. *)
LEMMA SyncHoldsNone ==
  ASSUME Before, call.stage \in {"flush", "blkflush", "pool"} PROVE FreeBufs = Bufs
BY BufCacheAssumption
DEF Before, Inv, CallTyped, CallTypes, CallShape, Pending, BusyInHand, InHand, FreeBufs

(* The search of bflush finds every dirty buffer that is on a list. *)
LEMMA SomeFirstDirty ==
  ASSUME Inv, NEW x \in FreeBufs, IsDirty(x) PROVE \E y \in Bufs : FirstDirty(y)
<1> DEFINE q == av \o aged
           T == {i \in 1 .. Len(q) : IsDirty(q[i])}
<1>1. q \in Seq(Bufs) /\ OnList(q, x)
  BY JoinedOn, ConcatProperties DEF Inv, FreeOnLists, Queues, FreeBufs
<1>2. T \subseteq Nat /\ T # {}
  BY <1>1 DEF OnList
<1>3. PICK i \in T : \A k \in T : i <= k
  BY <1>2, LeastNatural
<1>4. Len(q) \in Nat
  BY <1>1, LenProperties
<1>5. q[i] \in Bufs /\ FirstDirty(q[i])
  <2>1. i \in 1 .. Len(q) /\ IsDirty(q[i]) /\ q[i] \in Bufs
    BY <1>1, <1>4
  <2>2. ASSUME NEW j \in 1 .. i - 1, IsDirty(q[j]) PROVE FALSE
    <3>1. j \in T
      BY <2>1, <2>2, <1>4
    <3> QED BY <3>1, <1>3, <1>4, <2>1
  <2> QED BY <2>1, <2>2 DEF FirstDirty
<1> QED BY <1>5

LEMMA AllCleanView ==
  ASSUME Before, \A x \in Bufs : ~IsDirty(x) PROVE \A b \in Blocks : View(b) = disk[b]
<1> SUFFICES ASSUME NEW b \in Blocks PROVE View(b) = disk[b]
  OBVIOUS
<1>1. CASE \E x \in Bufs : Has(x, b)
  <2>1. PICK x \in Bufs : Has(x, b)
    BY <1>1
  <2>2. b = BlockOf(x) /\ dev[x] = "root"
    BY <2>1, ItsOnlyBlock DEF Before, Has
  <2> QED BY <2>1, <2>2 DEF Before, ViewFact, Coherent
<1>2. CASE \A x \in Bufs : ~Has(x, b)
  BY <1>2 DEF Before, ViewFact
<1> QED BY <1>1, <1>2

LEMMA FlushedSim ==
  ASSUME Before, After, Flushed \/ Fsynced PROVE Simulates
<1>1. SameView /\ Coherent'
  BY SameBlocks DEF Flushed, Fsynced, header, Before, After
<1>2. Pending'
  BY PendingIdle DEF Flushed, Fsynced
<1>3. u_error \in {OK, EIO}
  BY DEF Before, Inv, AnswerTyped
<1>4. CASE Flushed
  <2>1. \A x \in Bufs : ~IsDirty(x)
    BY <1>4, SyncHoldsNone, SomeFirstDirty DEF Flushed, Before
  <2>2. \A b \in Blocks : View(b) = disk[b]
    BY <2>1, AllCleanView
  <2> QED BY <1>1, <1>2, <1>3, <1>4, <2>2, SyncStep DEF Flushed, Simulates, Before
<1>5. CASE Fsynced /\ call.stage = "pool"
  <2>1. \A x \in Bufs : ~IsDirty(x)
    BY <1>5 DEF Fsynced, ToFsync
  <2>2. \A b \in Blocks : View(b) = disk[b]
    BY <2>1, AllCleanView
  <2> QED BY <1>1, <1>2, <1>3, <1>5, <2>2, SyncStep DEF Fsynced, Simulates, Before
<1>6. CASE Fsynced /\ call.stage # "pool"
  BY <1>1, <1>2, <1>6, QuietStep DEF Fsynced, Simulates
<1> QED BY <1>4, <1>5, <1>6

LEMMA EnterSim ==
  ASSUME Before, After,
         \/ Begin \/ CallSync \/ CallSyncUnmodified \/ CallGeteblk
         \/ \E b \in Blocks : \/ CallBread(b) \/ CallGetblk(b) \/ CallFsync(b)
                              \/ \E r \in Blocks : CallBreada(b, r)
  PROVE  Simulates
<1>1. UNCHANGED <<header, disk, held>> /\ answer' = NONE
  BY DEF Begin, CallSync, CallSyncUnmodified, CallGeteblk, CallBread, CallGetblk, CallFsync,
         CallBreada, Enter
<1>2. SameView /\ Coherent'
  BY <1>1, SameBlocks DEF header, Before, After
<1>3. /\ call'.stage \notin {"read", "readahead", "wait"}
      /\ call'.stage = "ahead" => call'.rbp = NULL
      /\ call'.stage \in {"flush", "blkflush", "pool"} => held = {}
  <2>1. CASE Begin \/ CallSyncUnmodified
    <3>1. call' = Idle
      BY <2>1 DEF Begin, CallSyncUnmodified
    <3> QED BY <3>1 DEF Idle
  <2>2. CASE CallSync \/ CallGeteblk
    BY <2>2 DEF CallSync, CallGeteblk, Enter, Idle
  <2>3. ASSUME NEW b \in Blocks, CallBread(b) \/ CallGetblk(b) \/ CallFsync(b)
        PROVE  /\ call'.stage \in {"get", "blkflush", "pool"}
               /\ call'.stage # "get" => held = {}
    BY <2>3 DEF CallBread, CallGetblk, CallFsync, Enter, Idle
  <2>4. ASSUME NEW b \in Blocks, NEW r \in Blocks, CallBreada(b, r)
        PROVE  call'.stage \in {"get", "ahead"} /\ call'.rbp = NULL
    BY <2>4 DEF CallBreada, Enter, Idle
  <2> QED BY <2>1, <2>2, <2>3, <2>4
<1>4. Pending'
  BY <1>1, <1>3, BufCacheAssumption DEF Pending
<1> QED BY <1>1, <1>2, <1>4, QuietStep DEF Simulates

LEMMA ReleaseSim ==
  ASSUME Before, After, NEW x \in Bufs, Release(x) PROVE Simulates
<1> USE DEF Before, After
<1>1. BrelseThen(x, flags[x], av, aged, {}) /\ UNCHANGED <<blkno, data, disk, call>>
      /\ answer' = NONE /\ call = Idle /\ kernel' = kernel
  BY DEF Release, Brelse, BrelseThen
<1>2. dev' = dev
  BY <1>1 DEF BrelseThen, ReleasedDev, Delayed, Inv, HeaderTyped
<1>3. \A y \in Bufs : /\ "DONE" \in flags'[y] <=> "DONE" \in flags[y]
                      /\ "DELWRI" \in flags'[y] <=> "DELWRI" \in flags[y]
  BY <1>1 DEF BrelseThen, ReleasedFlags, Inv, HeaderTyped
<1>4. SameView /\ Coherent'
  BY <1>1, <1>2, <1>3, SameBlocks
<1> QED BY <1>1, <1>4, PendingIdle, QuietStep DEF Simulates

LEMMA BdwriteSim ==
  ASSUME Before, After, NEW x \in Bufs, NEW v \in Values, Bdwrite(x, v) PROVE Simulates
<1> USE DEF Before, After
<1> DEFINE f == flags[x] \union {"DELWRI", "DONE"}
<1>1. /\ BrelseThen(x, f, av, aged, {}) /\ blkno' = blkno /\ data' = [data EXCEPT ![x] = v]
      /\ disk' = disk /\ answer' = NONE /\ call' = Idle /\ dev[x] = "root"
  BY DEF Bdwrite, GiveBack, Brelse
<1>2. f \in SUBSET Flags /\ "ERROR" \notin f /\ "DONE" \in f /\ "DELWRI" \in f
  BY <1>1 DEF Inv, HeaderTyped, Flags, Delayed
<1>3. PICK b \in Blocks : b = BlockOf(x) /\ Has(x, b)
  BY <1>1, ItsBlock
<1> HIDE DEF f
<1>4. /\ Touches(x) /\ data'[x] = v /\ dev'[x] = "root"
      /\ "DONE" \in flags'[x] /\ "DELWRI" \in flags'[x]
  <2>0. PICK late \in SUBSET {"AGE"} : late = {}
    OBVIOUS
  <2>1. /\ Touches(x) /\ data'[x] = v
        /\ dev'[x] = IF "ERROR" \in f THEN "none" ELSE dev[x]
        /\ flags'[x] = (f \ {"BUSY", "AGE"}) \union late
    <3>1. Puts(x, v)
      BY <1>1 DEF Puts, Inv, DataTyped
    <3> QED BY <3>1, <2>0, <1>1, <1>2, BrelseTouches
  <2> QED BY <2>1, <1>1, <1>2
<1>5. Has(x, b)' /\ IsRead(x)'
  BY <1>1, <1>3, <1>4 DEF Has, IsRead, Touches, Fsbtodb, BSD
<1>6. View(b)' = v
  BY <1>4, <1>5 DEF ViewFact
<1>7. ASSUME NEW c \in Blocks \ {b} PROVE View(c)' = View(c)
  <2>1. ~Has(x, c)
    BY <1>3, ItsOnlyBlock
  <2>2. ~(dev'[x] = "root" /\ blkno'[x] = Fsbtodb(c))
    BY <2>1, <1>1 DEF Has
  <2> QED BY <2>1, <2>2, <1>1, <1>4, OtherBlocks
<1>8. Coherent'
  BY <1>1, <1>4, OthersCoherent
<1> QED BY <1>1, <1>6, <1>7, <1>8, PendingIdle, StoreStep DEF Simulates

LEMMA BwriteSim ==
  ASSUME WholeImage, Before, After, NEW x \in Bufs, NEW v \in Values, NEW ok \in BOOLEAN,
         Bwrite(x, v, ok) \/ Bawrite(x, v, ok)
  PROVE  Simulates
<1> USE DEF Before, After
<1>1. PICK waits \in BOOLEAN : WriteAndRelease(x, v, av, aged, ok, waits)
  BY DEF Bwrite, Bawrite
<1>2. dev[x] = "root" /\ blkno' = blkno /\ data' = [data EXCEPT ![x] = v] /\ call' = Idle
  BY DEF Bwrite, Bawrite, GiveBack
<1>3. PICK b \in Blocks : b = BlockOf(x)
  BY <1>2, ItsBlock
<1>4. /\ Coherent'
      /\ \A c \in Blocks \ {b} : View(c)' = View(c)
      /\ disk' = IF ok THEN [disk EXCEPT ![b] = v] ELSE disk
      /\ View(b)' = IF ok THEN v ELSE disk[b]
  <2>1. Coherent' /\ WroteBlock(x, v, ok)
    <3>1. Puts(x, v)
      BY <1>2 DEF Puts, Inv, DataTyped
    <3> QED BY <3>1, <1>1, <1>2, Written
  <2> QED BY <2>1, <1>3 DEF WroteBlock
<1>5. /\ ok => answer' \in {<<"write", b, OK>>, NONE}
      /\ ~ok => answer' \in {<<"write", b, EIO>>, <<"lost", b, EIO>>}
  BY <1>3 DEF Bwrite, Bawrite, Unheard
<1>6. Pending'
  BY <1>2, PendingIdle
<1>7. CASE ok
  BY <1>4, <1>5, <1>6, <1>7, ThroughStep DEF Simulates
<1>8. CASE ~ok
  BY <1>4, <1>5, <1>6, <1>8, LoseStep DEF Simulates
<1> QED BY <1>7, <1>8

LEMMA CrashSim ==
  ASSUME Before, After, Crash PROVE Simulates
<1>1. \A x \in Bufs : \A b : ~Has(x, b)'
  BY DEF Crash, Has
<1>2. \A b \in Blocks : View(b)' = disk[b]
  BY <1>1 DEF After, ViewFact, Crash
<1>3. Coherent' /\ Pending'
  BY PendingIdle DEF Crash, Coherent
<1> QED BY <1>2, <1>3, CrashStep DEF Crash, Before, Simulates

-----------------------------------------------------------------------------
(* The cache implements the store.                                         *)

LEMMA InitSim == ASSUME Init, ViewFact PROVE Coherent /\ Pending /\ Store!Init
<1>1. Coherent
  BY DEF Init, Coherent
<1>2. Pending
  BY DEF Init, Pending, Idle
<1>3. \A b \in Blocks : View(b) = Zero
  BY DEF Init, ViewFact, Has
<1>4. [b \in Blocks |-> View(b)] = [b \in Blocks |-> Zero]
  BY <1>3
<1>5. disk = [b \in Blocks |-> Zero] /\ answer = NONE
  BY DEF Init
<1> QED BY <1>1, <1>2, <1>4, <1>5, BufCacheAssumption DEF Store!Init

StoreStutters == UNCHANGED <<[b \in Blocks |-> View(b)], disk, answer>>

LEMMA StutterSim ==
  ASSUME Before, After, UNCHANGED vars
  PROVE  StoreStutters /\ Coherent' /\ Pending'
<1>1. SameView /\ Coherent'
  BY SameBlocks DEF vars, header, Before, After
<1>2. [b \in Blocks |-> View(b)]' = [b \in Blocks |-> View(b)]
  BY <1>1 DEF SameView
<1>3. Pending'
  BY DEF vars, header, Before, Pending, Has, IsRead, Fsbtodb, BSD
<1> QED BY <1>1, <1>2, <1>3 DEF StoreStutters, vars

LEMMA NextSim ==
  ASSUME Fits, ReadsWork, WholeImage, Before, After, Next PROVE Simulates
<1>1. CASE Step
  <2>1. ASSUME NEW x \in Bufs, GetHit(x) PROVE Simulates
    BY <2>1, GetHitSim
  <2>2. ASSUME NEW ok \in BOOLEAN, WriteHead(ok) PROVE Simulates
    BY <2>2, WriteHeadSim
  <2>3. ASSUME NEW ok \in BOOLEAN, Read(ok) PROVE Simulates
    BY <2>3, ReadSim
  <2>4. ASSUME NEW ok \in BOOLEAN, ReadAhead(ok) PROVE Simulates
    BY <2>4, ReadAheadSim
  <2>5. ASSUME NEW x \in Bufs, NEW ok \in BOOLEAN, FlushOne(x, ok) \/ FsyncOne(x, ok)
        PROVE  Simulates
    BY <2>5, FlushSim
  <2> QED BY <1>1, <2>1, <2>2, <2>3, <2>4, <2>5, TakeHeadSim, TakeEmptySim, NoReadAheadSim,
             WaitSim, FlushedSim DEF Step
<1>2. CASE Client
  <2>1. ASSUME NEW x \in Bufs, Release(x) PROVE Simulates
    BY <2>1, ReleaseSim
  <2>2. ASSUME NEW x \in Bufs, NEW v \in Values, Bdwrite(x, v) PROVE Simulates
    BY <2>2, BdwriteSim
  <2>3. ASSUME NEW x \in Bufs, NEW v \in Values, NEW ok \in BOOLEAN,
               Bwrite(x, v, ok) \/ Bawrite(x, v, ok)
        PROVE  Simulates
    BY <2>3, BwriteSim
  <2> QED BY <1>2, <2>1, <2>2, <2>3, EnterSim DEF Client
<1>3. CASE Crash
  BY <1>3, CrashSim
<1> QED BY <1>1, <1>2, <1>3 DEF Next

(* Whatever the cache keeps, evicts, reads ahead, delays or forgets, what  *)
(* bread answers is what was stored last, what bwrite and sync have        *)
(* confirmed is on the disk, a crash leaves the disk, and a stored block   *)
(* is lost only in the step in which the disk refuses to write it.         *)
THEOREM CacheImplementsStore ==
  ASSUME Fits, ReadsWork, WholeImage PROVE Spec => CacheIsAStore
<1> DEFINE I == Inv /\ Chained /\ Delayed
           J == Coherent /\ Pending
<1>1. Init => I
  BY InitInv, InitChained, InitDelayed
<1>2. I /\ [Next]_vars => I'
  BY NextInv, NextChained, NextDelayed
<1>3. I => ViewFact
  BY Views
<1>4. Init /\ ViewFact => J /\ Store!Init
  BY InitSim
<1>5. I /\ I' /\ ViewFact /\ ViewFact' /\ J /\ [Next]_vars => J' /\ [Store!Next]_(Store!vars)
  <2> SUFFICES ASSUME I, I', ViewFact, ViewFact', J, [Next]_vars
               PROVE  J' /\ (Store!Next \/ StoreStutters)
    BY DEF StoreStutters, Store!vars
  <2>1. Before /\ After
    BY DEF Before, After
  <2>2. CASE Next
    BY <2>1, <2>2, NextSim DEF Simulates
  <2>3. CASE UNCHANGED vars
    BY <2>1, <2>3, StutterSim
  <2> QED BY <2>2, <2>3
<1> QED BY <1>1, <1>2, <1>3, <1>4, <1>5, PTL DEF Spec, CacheIsAStore, Store!Spec
=============================================================================
