--------------------------- MODULE Pipeline_proofs ---------------------------
(***************************************************************************)
(* Proofs about the order of build_all.sh, for any number of versions of   *)
(* the sources and any number of interruptions.                            *)
(***************************************************************************)
EXTENDS Pipeline, WellFoundedInduction, TLAPS

\* v is the oldest of the versions in S
IsOldest(v, S) == v \in S /\ \A w \in S : v <= w

\* what a product may be as old as
Ages(p) == {src} \cup {config[c] : c \in TreesIn(p)}

\* what a run has passed
Passed == {j \in Steps : at = "built" \/ (Running /\ j < step)}

\* What a run has passed is as old as the configurations in it, and configured.
EarlierCurrent ==
  \A j \in Passed : /\ Order[j] \in Tracked => IsOldest(made[Order[j]], Ages(Order[j]))
                    /\ Order[j] \in DirTrees => tree[Order[j]] = "ready"

\* While c is on its way, the directories it has passed are gone.
TreesGone ==
  at = "clear" => \A c \in DirTrees :
                    (\E j \in 1 .. step - 1 : ClearOrder[j] = c) => tree[c] = "absent"

IInv == TypeOK /\ EarlierCurrent /\ TreesGone /\ ConfiguredSinceClear /\ cleared <= src

-----------------------------------------------------------------------------
\* the least-number principle
LEMMA LeastOf ==
  ASSUME NEW T \in SUBSET Nat, T # {}
  PROVE  \E m \in T : \A k \in T : m <= k
<1>. DEFINE R == OpToRel(<, Nat)
<1>1. ASSUME NEW x \in Nat, NEW y \in Nat PROVE <<x, y>> \in R <=> x < y
  BY DEF OpToRel
<1>2. IsWellFoundedOn(R, Nat)
  BY NatLessThanWellFounded
<1>. HIDE DEF R
<1>3. PICK m \in T : \A k \in T : ~ (<<k, m>> \in R)
  BY <1>2, WFMin
<1>4. ASSUME NEW k \in T PROVE m <= k
  <2>1. k \in Nat /\ m \in Nat /\ <<k, m>> \notin R
    BY <1>3
  <2>2. ~ (k < m)
    BY <1>1, <2>1
  <2>. QED  BY <2>1, <2>2
<1>. QED  BY <1>4

\* A set of versions has an oldest one, and only one.
LEMMA OldestOf ==
  ASSUME NEW S \in SUBSET Nat, S # {}
  PROVE  IsOldest(Oldest(S), S)
<1>1. \E v \in S : \A w \in S : v <= w
  BY LeastOf
<1> QED
  BY <1>1 DEF Oldest, IsOldest

LEMMA OldestIs ==
  ASSUME NEW S \in SUBSET Nat, NEW v, IsOldest(v, S)
  PROVE  Oldest(S) = v
<1>1. IsOldest(Oldest(S), S)
  BY OldestOf DEF IsOldest
<1>2. Oldest(S) \in Nat /\ v \in Nat /\ Oldest(S) <= v /\ v <= Oldest(S)
  BY <1>1 DEF IsOldest
<1> QED
  BY <1>2

-----------------------------------------------------------------------------
\* The calls of main, by their places.
LEMMA OrderEntries ==
  /\ Len(Order) = 21 /\ Len(ClearOrder) = 10
  /\ Order[1] = "qemu"    /\ Order[2] = "uefi"    /\ Order[3] = "tee"
  /\ Order[4] = "atf"     /\ Order[5] = "rom_bl1" /\ Order[6] = "rom_fip"
  /\ Order[7] = "pflash"  /\ Order[8] = "dtb"     /\ Order[9] = "xen"
  /\ Order[10] = "linux"  /\ Order[11] = "baremetal.rootfs" /\ Order[12] = "domu"
  /\ Order[13] = "libfdt" /\ Order[14] = "libc"   /\ Order[15] = "rust"
  /\ Order[16] = "rtos"   /\ Order[17] = "android" /\ Order[18] = "app"
  /\ Order[19] = "dom0.rootfs" /\ Order[20] = "domu.rootfs" /\ Order[21] = "android.rootfs"
BY DEF Order, ClearOrder

\* main makes what a step reads before that step.
LEMMA InputsEarlier ==
  \A k \in Steps : \A i \in Inputs(Order[k]) :
    i \in Tracked /\ \E j \in Steps : j < k /\ Order[j] = i
<1>1. SUFFICES ASSUME NEW k \in Steps, NEW i \in Inputs(Order[k])
              PROVE  i \in Tracked /\ \E j \in Steps : j < k /\ Order[j] = i
  OBVIOUS
<1>2. Steps = 1 .. 21
  BY OrderEntries DEF Steps
<1>3. ASSUME NEW j \in 1 .. 21, j < k, Order[j] = i, i \notin RomParts \cup {"app", "pflash"}
      PROVE  i \in Tracked /\ \E m \in Steps : m < k /\ Order[m] = i
  BY <1>2, <1>3 DEF Tracked, Products, RomParts
<1>4. CASE k = 4
  <2>1. i \in {"uefi", "tee"}
    BY <1>4, OrderEntries DEF Inputs
  <2> QED
    BY <2>1, <1>3, <1>4, OrderEntries DEF RomParts
<1>5. CASE k \in {5, 6}
  <2>1. i = "atf"
    BY <1>5, OrderEntries DEF Inputs
  <2> QED
    BY <2>1, <1>3, <1>5, OrderEntries DEF RomParts
<1>6. CASE k = 16
  <2>1. i \in {"libfdt", "libc", "rust"}
    BY <1>6, OrderEntries DEF Inputs
  <2> QED
    BY <2>1, <1>3, <1>6, OrderEntries DEF RomParts
<1>7. CASE k = 18
  <2>1. i = "tee"
    BY <1>7, OrderEntries DEF Inputs
  <2> QED
    BY <2>1, <1>3, <1>7, OrderEntries DEF RomParts
<1>8. CASE k = 11
  <2>1. i \in {"dtb", "linux"}
    BY <1>8, OrderEntries DEF Inputs
  <2> QED
    BY <2>1, <1>3, <1>8, OrderEntries DEF RomParts
<1>9. CASE k = 19
  <2>1. i \in {"dtb", "xen", "linux", "rtos"}
    BY <1>9, OrderEntries DEF Inputs
  <2> QED
    BY <2>1, <1>3, <1>9, OrderEntries DEF RomParts
<1>10. CASE k = 20
  <2>1. i \in {"dtb", "domu"}
    BY <1>10, OrderEntries DEF Inputs
  <2> QED
    BY <2>1, <1>3, <1>10, OrderEntries DEF RomParts
<1>11. CASE k \in {1, 2, 3, 7, 8, 9, 10, 12, 13, 14, 15, 17, 21}
  <2>1. Inputs(Order[k]) = {}
    BY <1>11, OrderEntries DEF Inputs
  <2> QED
    BY <2>1
<1> QED
  BY <1>2, <1>4, <1>5, <1>6, <1>7, <1>8, <1>9, <1>10, <1>11

\* What is removed before it is made again stands at one place of main only.
LEMMA WipedOnce ==
  \A j, k \in Steps : Order[k] \in Wiped /\ Order[j] = Order[k] => j = k
<1>1. SUFFICES ASSUME NEW j \in Steps, NEW k \in Steps,
                      Order[k] \in Wiped, Order[j] = Order[k]
              PROVE  j = k
  OBVIOUS
<1>2. j \in 1 .. 21 /\ k \in 1 .. 21
  BY OrderEntries DEF Steps
<1>3. \A m \in 1 .. 21 : (Order[m] = "dtb" => m = 8) /\ (Order[m] = "rtos" => m = 16)
  BY OrderEntries
<1> QED
  BY <1>1, <1>2, <1>3 DEF Wiped

\* A configured program is in a product if it is that product or in one of its inputs.
LEMMA TreesInto ==
  ASSUME NEW p \in Tracked, NEW c
  PROVE  c \in TreesIn(p) <=> \/ c = p /\ p \in Trees
                             \/ \E i \in Inputs(p) : c \in TreesIn(i)
<1>1. CASE p \in Trees
  BY <1>1 DEF TreesIn, Inputs, Trees, DirTrees
<1>2. CASE p = "baremetal.rootfs"
  <2>1. Inputs(p) = {"dtb", "linux"} /\ TreesIn(p) = {"linux"} /\ p \notin Trees
    BY <1>2 DEF Inputs, TreesIn, Trees, DirTrees
  <2>2. TreesIn("dtb") = {} /\ TreesIn("linux") = {"linux"}
    BY DEF TreesIn, Trees, DirTrees
  <2> QED
    BY <2>1, <2>2
<1>3. CASE p = "dom0.rootfs"
  <2>1. /\ Inputs(p) = {"dtb", "xen", "linux", "rtos"} /\ TreesIn(p) = {"xen", "linux"}
        /\ p \notin Trees
    BY <1>3 DEF Inputs, TreesIn, Trees, DirTrees
  <2>2. /\ TreesIn("dtb") = {} /\ TreesIn("linux") = {"linux"}
        /\ TreesIn("xen") = {"xen"} /\ TreesIn("rtos") = {}
    BY DEF TreesIn, Trees, DirTrees
  <2> QED
    BY <2>1, <2>2
<1>4. CASE p = "domu.rootfs"
  <2>1. Inputs(p) = {"dtb", "domu"} /\ TreesIn(p) = {"domu"} /\ p \notin Trees
    BY <1>4 DEF Inputs, TreesIn, Trees, DirTrees
  <2>2. TreesIn("dtb") = {} /\ TreesIn("domu") = {"domu"}
    BY DEF TreesIn, Trees, DirTrees
  <2> QED
    BY <2>1, <2>2
<1>5. CASE p \notin Trees \cup {"baremetal.rootfs", "dom0.rootfs", "domu.rootfs"}
  <2>1. TreesIn(p) = {}
    BY <1>5 DEF TreesIn
  <2>2. Inputs(p) \subseteq {"uefi", "tee", "atf", "libfdt", "libc", "rust"}
    BY <1>5 DEF Inputs
  <2>3. \A i \in {"uefi", "tee", "atf", "libfdt", "libc", "rust"} : TreesIn(i) = {}
    BY DEF TreesIn, Trees, DirTrees
  <2> QED
    BY <1>5, <2>1, <2>2, <2>3
<1> QED
  BY <1>1, <1>2, <1>3, <1>4, <1>5

\* Every configured program is made before what it is in.
LEMMA TreesPlaced ==
  ASSUME NEW j \in Steps, NEW c \in TreesIn(Order[j])
  PROVE  c \in Trees /\ \E m \in Steps : Order[m] = c
<1>1. c \in Trees
  BY DEF TreesIn, Trees, DirTrees
<1>2. Steps = 1 .. 21
  BY OrderEntries DEF Steps
<1>3. c \in {Order[1], Order[9], Order[10], Order[12]}
  BY <1>1, OrderEntries DEF Trees, DirTrees
<1> QED
  BY <1>1, <1>2, <1>3

LEMMA TreesEarlier ==
  ASSUME NEW j \in Steps, NEW k \in Steps, Order[k] \in Trees, Order[k] \in TreesIn(Order[j])
  PROVE  k <= j
<1>1. j \in 1 .. 21 /\ k \in 1 .. 21
  BY OrderEntries DEF Steps
<1>2. \A m \in 1 .. 21 : /\ (Order[m] = "qemu" => m = 1) /\ (Order[m] = "xen" => m = 9)
                         /\ (Order[m] = "linux" => m = 10) /\ (Order[m] = "domu" => m = 12)
  BY OrderEntries
<1>3. \A m \in 1 .. 21 : /\ (Order[m] = "baremetal.rootfs" => m = 11)
                         /\ (Order[m] = "dom0.rootfs" => m = 19)
                         /\ (Order[m] = "domu.rootfs" => m = 20)
  BY OrderEntries
<1>4. CASE Order[j] \in Trees
  <2>1. TreesIn(Order[j]) = {Order[j]}
    BY <1>4 DEF TreesIn, Trees, DirTrees
  <2>2. Order[k] = Order[j]
    BY <2>1
  <2>3. j = k
    BY <1>1, <1>2, <1>4, <2>2 DEF Trees, DirTrees
  <2> QED
    BY <1>1, <2>3
<1>5. CASE Order[j] = "baremetal.rootfs"
  <2>1. Order[k] = "linux" /\ j = 11
    BY <1>1, <1>3, <1>5 DEF TreesIn, Trees, DirTrees
  <2> QED
    BY <1>1, <1>2, <2>1
<1>6. CASE Order[j] = "dom0.rootfs"
  <2>1. Order[k] \in {"xen", "linux"} /\ j = 19
    BY <1>1, <1>3, <1>6 DEF TreesIn, Trees, DirTrees
  <2> QED
    BY <1>1, <1>2, <2>1
<1>7. CASE Order[j] = "domu.rootfs"
  <2>1. Order[k] = "domu" /\ j = 20
    BY <1>1, <1>3, <1>7 DEF TreesIn, Trees, DirTrees
  <2> QED
    BY <1>1, <1>2, <2>1
<1>8. CASE Order[j] \notin Trees \cup {"baremetal.rootfs", "dom0.rootfs", "domu.rootfs"}
  BY <1>8 DEF TreesIn
<1> QED
  BY <1>4, <1>5, <1>6, <1>7, <1>8

-----------------------------------------------------------------------------
\* What goes into a product are versions.
LEMMA TakenTyped ==
  ASSUME TypeOK, NEW k \in Steps
  PROVE  /\ Taken(Order[k]) \in SUBSET (0 .. MaxVersion)
         /\ Oldest(Taken(Order[k])) \in 0 .. MaxVersion
         /\ IsOldest(Oldest(Taken(Order[k])), Taken(Order[k]))
<1>1. \A i \in Inputs(Order[k]) : i \in Products
  BY InputsEarlier DEF Tracked
<1>2. /\ MaxVersion \in Nat /\ src \in 0 .. MaxVersion
      /\ made \in [Products -> 0 .. MaxVersion] /\ config \in [Trees -> 0 .. MaxVersion]
  BY VersionAssumption DEF TypeOK
<1>3. Taken(Order[k]) \in SUBSET (0 .. MaxVersion) /\ src \in Taken(Order[k])
  BY <1>1, <1>2 DEF Taken
<1>4. Taken(Order[k]) \in SUBSET Nat /\ Taken(Order[k]) # {}
  BY <1>2, <1>3
<1>5. IsOldest(Oldest(Taken(Order[k])), Taken(Order[k]))
  BY <1>4, OldestOf
<1> QED
  BY <1>3, <1>5 DEF IsOldest

\* What a step makes is of this version of the sources, or as old as a configuration in it.
LEMMA TakenOldest ==
  ASSUME TypeOK, EarlierCurrent, Running, cur \in Tracked
  PROVE  IsOldest(Oldest(Taken(cur)), Ages(cur))
<1>0. step \in Steps /\ cur = Order[step] /\ MaxVersion \in Nat /\ Steps = 1 .. 21
  BY VersionAssumption, OrderEntries DEF TypeOK, cur, Steps
<1>. DEFINE x == Oldest(Taken(cur))
<1>1. IsOldest(x, Taken(cur)) /\ x \in Nat
  BY <1>0, TakenTyped
<1>. HIDE DEF x
<1>2. ASSUME NEW i \in Inputs(cur)
      PROVE  made[i] \in Nat /\ IsOldest(made[i], Ages(i))
  <2>1. i \in Tracked
    BY <1>0, InputsEarlier
  <2>2. PICK j \in Steps : j < step /\ Order[j] = i
    BY <1>0, InputsEarlier
  <2>3. j \in Passed
    BY <2>2 DEF Passed
  <2>4. made[i] \in 0 .. MaxVersion
    BY <2>1 DEF TypeOK, Tracked
  <2> QED
    BY <1>0, <2>1, <2>2, <2>3, <2>4 DEF EarlierCurrent
<1>3. x \in Ages(cur)
  <2>1. CASE x = src
    BY <2>1 DEF Ages
  <2>2. ASSUME NEW i \in Inputs(cur), x = made[i]
        PROVE  x \in Ages(cur)
    <3>1. x \in Ages(i)
      BY <1>2, <2>2 DEF IsOldest
    <3>2. \A c \in TreesIn(i) : c \in TreesIn(cur)
      BY TreesInto
    <3> QED
      BY <3>1, <3>2 DEF Ages
  <2>3. ASSUME NEW c \in {cur} \cap Trees, x = config[c]
        PROVE  x \in Ages(cur)
    <3>1. c \in TreesIn(cur)
      BY TreesInto
    <3> QED
      BY <2>3, <3>1 DEF Ages
  <2>4. x \in Taken(cur)
    BY <1>1 DEF IsOldest
  <2> QED
    BY <2>1, <2>2, <2>3, <2>4 DEF Taken
<1>4. ASSUME NEW w \in Ages(cur)
      PROVE  x <= w
  <2>1. CASE w = src
    <3>1. src \in Taken(cur)
      BY DEF Taken
    <3> QED
      BY <1>1, <2>1, <3>1 DEF IsOldest
  <2>2. ASSUME NEW c \in TreesIn(cur), w = config[c]
        PROVE  x <= w
    <3>1. CASE c = cur /\ cur \in Trees
      <4>1. config[c] \in Taken(cur)
        BY <3>1 DEF Taken
      <4> QED
        BY <1>1, <2>2, <4>1 DEF IsOldest
    <3>2. ASSUME NEW i \in Inputs(cur), c \in TreesIn(i)
          PROVE  x <= w
      <4>1. w \in Ages(i)
        BY <2>2, <3>2 DEF Ages
      <4>2. made[i] <= w /\ made[i] \in Nat
        BY <1>2, <4>1 DEF IsOldest
      <4>3. made[i] \in Taken(cur)
        BY DEF Taken
      <4>4. x <= made[i]
        BY <1>1, <4>3 DEF IsOldest
      <4>5. w \in Nat
        <5>1. c \in Trees
          BY <1>0, TreesPlaced
        <5> QED
          BY <1>0, <2>2, <5>1 DEF TypeOK
      <4> QED
        BY <1>1, <4>2, <4>4, <4>5
    <3> QED
      BY <3>1, <3>2, TreesInto
  <2> QED
    BY <2>1, <2>2 DEF Ages
<1> QED
  BY <1>3, <1>4 DEF IsOldest, x

-----------------------------------------------------------------------------
\* A function keeps its type when one of its values is replaced.
LEMMA Updated ==
  ASSUME NEW S, NEW T, NEW f \in [S -> T], NEW x, NEW v \in T
  PROVE  [f EXCEPT ![x] = v] \in [S -> T]
OBVIOUS

\* Where a script stops, only the types and the configurations are left to say.
LEMMA StopKeeps ==
  ASSUME IInv, OnError, UNCHANGED <<src, tree, config, cleared>>,
         made' \in [Products -> 0 .. MaxVersion],
         pflash' \in {"absent", "short", "whole"}, aborts' \in 0 .. MaxAborts
  PROVE  IInv'
<1>1. TypeOK'
  <2>1. 1 \in Steps
    BY OrderEntries DEF Steps
  <2> QED
    BY <2>1 DEF IInv, TypeOK, OnError
<1>2. EarlierCurrent' /\ TreesGone'
  BY DEF EarlierCurrent, Passed, TreesGone, Running, OnError
<1>3. ConfiguredSinceClear' /\ (cleared <= src)'
  BY DEF IInv, ConfiguredSinceClear
<1> QED
  BY <1>1, <1>2, <1>3 DEF IInv

\* The next call of main, with the product of this one made.
LEMMA AdvanceKeeps ==
  ASSUME IInv, Running, Advance, UNCHANGED <<src, tree, config, cleared, aborts>>,
         made' \in [Products -> 0 .. MaxVersion],
         \A p \in Products : p # cur => made'[p] = made[p],
         cur \in Tracked => IsOldest(made'[cur], Ages(cur)),
         cur \in DirTrees => tree[cur] = "ready",
         pflash' \in {"absent", "short", "whole"}
  PROVE  IInv'
<1>1. step \in Steps /\ Steps = 1 .. 21 /\ Len(Order) = 21
  BY OrderEntries DEF IInv, TypeOK, Steps
<1>2. \/ step < 21 /\ step' = step + 1 /\ at' = "run"
      \/ step = 21 /\ step' = step /\ at' = "built"
  BY <1>1 DEF Advance, Running
<1>3. TypeOK'
  <2>1. step' \in Steps /\ at' \in {"run", "built"} /\ sub' = "test"
    BY <1>1, <1>2 DEF Advance
  <2> QED
    BY <2>1 DEF IInv, TypeOK
<1>4. \A p : Ages(p)' = Ages(p)
  BY DEF Ages
<1>5. ASSUME NEW j \in Steps, j <= step
      PROVE  /\ Order[j] \in Tracked => IsOldest(made'[Order[j]], Ages(Order[j]))
             /\ Order[j] \in DirTrees => tree[Order[j]] = "ready"
  <2>1. CASE Order[j] = cur
    BY <2>1
  <2>2. CASE Order[j] # cur
    <3>1. j # step
      BY <2>2 DEF cur
    <3>2. j \in Passed
      BY <1>1, <1>5, <3>1 DEF Passed
    <3>3. /\ Order[j] \in Tracked => IsOldest(made[Order[j]], Ages(Order[j]))
          /\ Order[j] \in DirTrees => tree[Order[j]] = "ready"
      BY <3>2 DEF IInv, EarlierCurrent
    <3>4. Order[j] \in Tracked => made'[Order[j]] = made[Order[j]]
      BY <2>2 DEF Tracked
    <3> QED
      BY <3>3, <3>4
  <2> QED
    BY <2>1, <2>2
<1>6. EarlierCurrent'
  <2>1. ASSUME NEW j \in Passed'
        PROVE  /\ Order[j] \in Tracked => IsOldest(made'[Order[j]], Ages(Order[j])')
               /\ Order[j] \in DirTrees => tree'[Order[j]] = "ready"
    <3>1. j \in Steps /\ j <= step
      BY <1>1, <1>2, <2>1 DEF Passed, Running
    <3> QED
      BY <1>4, <1>5, <3>1
  <2> QED
    BY <2>1 DEF EarlierCurrent, IsOldest
<1>7. TreesGone'
  BY <1>2 DEF TreesGone
<1>8. ConfiguredSinceClear' /\ (cleared <= src)'
  BY DEF IInv, ConfiguredSinceClear
<1> QED
  BY <1>3, <1>6, <1>7, <1>8 DEF IInv

\* A step that makes its product, or fails.
LEMMA BuildKeeps ==
  ASSUME IInv, Running, cur \in Products, Build(cur), cur \in DirTrees => tree[cur] = "ready",
         UNCHANGED <<src, tree, config, pflash, cleared, aborts>>
  PROVE  IInv'
<1>1. /\ made \in [Products -> 0 .. MaxVersion] /\ step \in Steps /\ cur = Order[step]
      /\ pflash \in {"absent", "short", "whole"} /\ aborts \in 0 .. MaxAborts
  BY DEF IInv, TypeOK, cur
<1>2. CASE Missing(cur)
  BY <1>1, <1>2, StopKeeps DEF Build
<1>3. CASE ~ Missing(cur)
  <2>1. made' = [made EXCEPT ![cur] = Oldest(Taken(cur))] /\ Advance
    BY <1>3 DEF Build
  <2>2. Oldest(Taken(cur)) \in 0 .. MaxVersion
    BY <1>1, TakenTyped DEF IInv
  <2>3. made' \in [Products -> 0 .. MaxVersion]
    BY <1>1, <2>1, <2>2, Updated
  <2>4. made'[cur] = Oldest(Taken(cur)) /\ \A p \in Products : p # cur => made'[p] = made[p]
    BY <1>1, <2>1
  <2>5. cur \in Tracked => IsOldest(made'[cur], Ages(cur))
    BY <2>4, TakenOldest DEF IInv
  <2> QED
    BY <1>1, <2>1, <2>3, <2>4, <2>5, AdvanceKeeps
<1> QED
  BY <1>2, <1>3

\* What an interrupted or a complete dd leaves in boot.rom is a version.
LEMMA LeftTyped ==
  ASSUME TypeOK, NEW k \in Steps, NEW w \in Left(Order[k])
  PROVE  w \in 0 .. MaxVersion
<1>1. Oldest(Taken(Order[k])) \in 0 .. MaxVersion /\ MaxVersion \in Nat
  BY TakenTyped, VersionAssumption
<1>2. w \in 1 .. Oldest(Taken(Order[k]))
  BY DEF Left
<1> QED
  BY <1>1, <1>2

\* boot.rom is not tracked, and nothing takes it in.
LEMMA RomKeeps == ASSUME IInv, Rom PROVE IInv'
<1>1. /\ made \in [Products -> 0 .. MaxVersion] /\ step \in Steps /\ cur = Order[step]
      /\ pflash \in {"absent", "short", "whole"} /\ aborts \in 0 .. MaxAborts
      /\ cur \notin Tracked /\ cur \notin DirTrees /\ Running
  BY DEF IInv, TypeOK, cur, Rom, Tracked, RomParts, DirTrees
<1>2. CASE Missing(cur)
  BY <1>1, <1>2, StopKeeps DEF Rom
<1>3. CASE ~ Missing(cur)
  <2>1. PICK w \in Left(cur) : made' = [made EXCEPT ![cur] = w]
    BY <1>3 DEF Rom
  <2>2. w \in 0 .. MaxVersion
    BY <1>1, LeftTyped DEF IInv
  <2>3. made' \in [Products -> 0 .. MaxVersion]
    BY <1>1, <2>1, <2>2, Updated
  <2>4. \A p \in Products : p # cur => made'[p] = made[p]
    BY <1>1, <2>1
  <2> QED
    BY <1>1, <1>3, <2>3, <2>4, AdvanceKeeps DEF Rom
<1> QED
  BY <1>2, <1>3

-----------------------------------------------------------------------------
LEMMA InitInv == Init => IInv
<1>1. SUFFICES ASSUME Init PROVE IInv
  OBVIOUS
<1>2. TypeOK
  <2>1. MaxVersion \in Nat /\ MaxVersion >= 1 /\ MaxAborts \in Nat
    BY VersionAssumption
  <2>2. 1 \in Steps
    BY OrderEntries DEF Steps
  <2> QED
    BY <1>1, <2>1, <2>2 DEF Init, TypeOK, Absent
<1>3. EarlierCurrent /\ TreesGone
  BY <1>1 DEF Init, EarlierCurrent, Passed, TreesGone, Running
<1>4. ConfiguredSinceClear /\ cleared <= src
  BY <1>1 DEF Init, ConfiguredSinceClear, Trees
<1> QED
  BY <1>2, <1>3, <1>4 DEF IInv

LEMMA EditKeeps == ASSUME IInv, Edit PROVE IInv'
<1>1. MaxVersion \in Nat
  BY VersionAssumption
<1>2. TypeOK'
  BY <1>1 DEF IInv, TypeOK, Edit, disk
<1>3. EarlierCurrent' /\ TreesGone'
  BY DEF Edit, EarlierCurrent, Passed, TreesGone, Running
<1>4. ConfiguredSinceClear' /\ (cleared <= src)'
  BY <1>1 DEF IInv, TypeOK, ConfiguredSinceClear, Edit, disk
<1> QED
  BY <1>2, <1>3, <1>4 DEF IInv

LEMMA StartKeeps ==
  ASSUME IInv, NEW what \in {"run", "clear"}, Start(what) PROVE IInv'
<1>1. 1 \in Steps /\ 1 <= Len(ClearOrder) /\ Steps = 1 .. 21
  BY OrderEntries DEF Steps
<1>2. TypeOK'
  BY <1>1 DEF IInv, TypeOK, Start, disk
<1>3. EarlierCurrent' /\ TreesGone'
  BY <1>1 DEF Start, EarlierCurrent, Passed, TreesGone, Running
<1>4. ConfiguredSinceClear' /\ (cleared <= src)'
  BY DEF IInv, ConfiguredSinceClear, Start, disk
<1> QED
  BY <1>2, <1>3, <1>4 DEF IInv

\* A configuration is of no concern to what was made before it.
LEMMA OthersKeep ==
  ASSUME IInv, Running, cur \in Trees, UNCHANGED <<at, step, src, made>>,
         \A c \in Trees : c # cur => config'[c] = config[c] /\ tree'[c] = tree[c]
  PROVE  EarlierCurrent'
<1>1. step \in Steps /\ cur = Order[step] /\ Steps = 1 .. 21
  BY OrderEntries DEF IInv, TypeOK, cur, Steps
<1>2. Passed' = Passed
  BY DEF Passed, Running
<1>3. ASSUME NEW j \in Passed
      PROVE  /\ Order[j] \in Tracked => IsOldest(made'[Order[j]], Ages(Order[j])')
             /\ Order[j] \in DirTrees => tree'[Order[j]] = "ready"
  <2>1. j \in Steps /\ j < step
    BY DEF Passed, Running
  <2>2. cur \notin TreesIn(Order[j])
    BY <1>1, <2>1, TreesEarlier
  <2>3. \A c \in TreesIn(Order[j]) : config'[c] = config[c]
    BY <2>1, <2>2, TreesPlaced
  <2>4. Ages(Order[j])' = Ages(Order[j])
    BY <2>3 DEF Ages
  <2>5. Order[j] \in DirTrees => tree'[Order[j]] = tree[Order[j]]
    <3>1. Order[j] \in DirTrees => Order[j] \in TreesIn(Order[j]) /\ Order[j] \in Trees
      BY DEF TreesIn, Trees, DirTrees
    <3> QED
      BY <2>2, <3>1
  <2> QED
    BY <1>3, <2>4, <2>5 DEF IInv, EarlierCurrent
<1> QED
  BY <1>2, <1>3 DEF EarlierCurrent, IsOldest

\* A configuration is made from this version of the sources, so not before a clear.
LEMMA TestKeeps == ASSUME IInv, Test PROVE IInv'
<1>1. /\ tree \in [Trees -> {"absent", "new", "ready"}]
      /\ config \in [Trees -> 0 .. MaxVersion]
      /\ src \in 1 .. MaxVersion /\ MaxVersion \in Nat /\ cur \in Trees /\ Running
  BY VersionAssumption DEF IInv, TypeOK, Test
<1>2. tree' \in [Trees -> {"absent", "new", "ready"}] /\ config' \in [Trees -> 0 .. MaxVersion]
  BY <1>1 DEF Test
<1>3. TypeOK'
  BY <1>2 DEF IInv, TypeOK, Test
<1>4. EarlierCurrent'
  <2>1. \A c \in Trees : c # cur => config'[c] = config[c] /\ tree'[c] = tree[c]
    BY <1>1 DEF Test
  <2> QED
    BY <1>1, <2>1, OthersKeep DEF Test
<1>5. TreesGone'
  BY DEF Test, TreesGone, Running
<1>6. \A c \in DirTrees : tree'[c] = "ready" => tree[c] = "ready" /\ config'[c] = config[c]
  BY <1>1 DEF Test, DirTrees, Trees
<1>7. ConfiguredSinceClear' /\ (cleared <= src)'
  BY <1>6 DEF IInv, ConfiguredSinceClear, Test
<1> QED
  BY <1>3, <1>4, <1>5, <1>7 DEF IInv

LEMMA ConfigureKeeps == ASSUME IInv, Configure PROVE IInv'
<1>1. /\ tree \in [Trees -> {"absent", "new", "ready"}]
      /\ config \in [Trees -> 0 .. MaxVersion]
      /\ src \in 1 .. MaxVersion /\ MaxVersion \in Nat /\ cur \in Trees
      /\ cleared <= src /\ Running
  BY VersionAssumption DEF IInv, TypeOK, Configure
<1>2. tree' \in [Trees -> {"absent", "new", "ready"}] /\ config' \in [Trees -> 0 .. MaxVersion]
  BY <1>1 DEF Configure
<1>3. TypeOK'
  BY <1>2 DEF IInv, TypeOK, Configure
<1>4. EarlierCurrent'
  <2>1. \A c \in Trees : c # cur => config'[c] = config[c] /\ tree'[c] = tree[c]
    BY <1>1 DEF Configure
  <2> QED
    BY <1>1, <2>1, OthersKeep DEF Configure
<1>5. TreesGone'
  BY DEF Configure, TreesGone, Running
<1>6. \A c \in DirTrees : \/ tree'[c] = tree[c] /\ config'[c] = config[c]
                         \/ config'[c] = src
  BY <1>1 DEF Configure, DirTrees, Trees
<1>7. ConfiguredSinceClear'
  BY <1>1, <1>6 DEF IInv, ConfiguredSinceClear, Configure
<1> QED
  BY <1>1, <1>3, <1>4, <1>5, <1>7 DEF IInv, Configure

\* What is removed is not among the products the run has passed.
LEMMA WipeKeeps == ASSUME IInv, Wipe PROVE IInv'
<1>1. /\ made \in [Products -> 0 .. MaxVersion] /\ MaxVersion \in Nat
      /\ step \in Steps /\ Steps = 1 .. 21
  BY VersionAssumption, OrderEntries DEF IInv, TypeOK, Wipe, Steps
<1>2. made' \in [Products -> 0 .. MaxVersion]
  <2>1. Absent \in 0 .. MaxVersion
    BY <1>1 DEF Absent
  <2>2. made' = [made EXCEPT ![cur] = Absent]
    BY DEF Wipe
  <2> QED
    BY <1>1, <2>1, <2>2
<1>3. TypeOK'
  BY <1>2 DEF IInv, TypeOK, Wipe
<1>4. Passed' = Passed /\ \A p : Ages(p)' = Ages(p)
  BY DEF Passed, Ages, Wipe, Running
<1>5. ASSUME NEW j \in Passed
      PROVE  /\ Order[j] \in Tracked => IsOldest(made'[Order[j]], Ages(Order[j])')
             /\ Order[j] \in DirTrees => tree'[Order[j]] = "ready"
  <2>1. j \in Steps /\ j < step
    BY DEF Passed, Wipe, Running
  <2>2. Order[j] # cur
    <3>1. j # step
      BY <1>1, <2>1
    <3> QED
      BY <1>1, <2>1, <3>1, WipedOnce DEF Wipe, cur
  <2>3. Order[j] \in Tracked => made'[Order[j]] = made[Order[j]]
    BY <1>1, <2>2 DEF Wipe, Tracked
  <2> QED
    BY <1>4, <1>5, <2>3 DEF IInv, EarlierCurrent, Wipe
<1>6. EarlierCurrent'
  BY <1>4, <1>5 DEF EarlierCurrent, IsOldest
<1>7. TreesGone'
  BY DEF Wipe, TreesGone, Running
<1>8. ConfiguredSinceClear' /\ (cleared <= src)'
  BY DEF IInv, ConfiguredSinceClear, Wipe
<1> QED
  BY <1>3, <1>6, <1>7, <1>8 DEF IInv

\* When c has come to its end, it has passed every directory with a configuration.
LEMMA ClearPasses ==
  \A c \in DirTrees : \E j \in 1 .. 10 : ClearOrder[j] = c
<1>1. ClearOrder[1] = "qemu" /\ ClearOrder[6] = "linux" /\ ClearOrder[7] = "domu"
  BY DEF ClearOrder
<1> QED
  BY <1>1 DEF DirTrees

LEMMA ClearKeeps == ASSUME IInv, Clear PROVE IInv'
<1>1. /\ config \in [Trees -> 0 .. MaxVersion]
      /\ tree \in [Trees -> {"absent", "new", "ready"}]
      /\ made \in [Products -> 0 .. MaxVersion]
      /\ src \in 1 .. MaxVersion /\ MaxVersion \in Nat
      /\ step \in 1 .. 10 /\ Steps = 1 .. 21 /\ Len(ClearOrder) = 10
      /\ at = "clear"
  BY VersionAssumption, OrderEntries DEF IInv, TypeOK, Clear, Steps
<1>2. /\ made' \in [Products -> 0 .. MaxVersion]
      /\ tree' \in [Trees -> {"absent", "new", "ready"}]
      /\ config' \in [Trees -> 0 .. MaxVersion]
  <2>1. made' = [made EXCEPT ![ClearOrder[step]] = 0] /\ 0 \in 0 .. MaxVersion
    BY <1>1 DEF Clear, Absent
  <2>2. tree' = [t \in Trees |-> IF t = ClearOrder[step] /\ Unconfigured(t)
                                 THEN "absent" ELSE tree[t]]
    BY DEF Clear
  <2>3. made' \in [Products -> 0 .. MaxVersion]
    BY <1>1, <2>1, Updated
  <2>5. config' \in [Trees -> 0 .. MaxVersion]
    BY <1>1 DEF Clear, Absent
  <2>4. tree' \in [Trees -> {"absent", "new", "ready"}]
    BY <1>1, <2>2
  <2> QED
    BY <2>3, <2>4, <2>5
<1>3. \/ step < 10 /\ step' = step + 1 /\ at' = "clear" /\ cleared' = cleared
      \/ step = 10 /\ step' = 1 /\ at' = "idle" /\ cleared' = src
  BY <1>1 DEF Clear
<1>4. TypeOK'
  <2>1. step' \in 1 .. 10 /\ at' \in {"clear", "idle"} /\ cleared' \in 0 .. MaxVersion
    BY <1>1, <1>3 DEF IInv, TypeOK
  <2> QED
    BY <1>1, <1>2, <2>1 DEF IInv, TypeOK, Clear
<1>5. EarlierCurrent'
  BY <1>3 DEF EarlierCurrent, Passed, Running
<1>6. ASSUME NEW c \in DirTrees
      PROVE  /\ tree'[c] = "absent" \/ (tree'[c] = tree[c] /\ config'[c] = config[c])
             /\ ClearOrder[step] = c => tree'[c] = "absent"
  BY <1>1 DEF Clear, Unconfigured, DirTrees, Trees
<1>7. ASSUME NEW c \in DirTrees, NEW j \in 1 .. step, ClearOrder[j] = c
      PROVE  tree'[c] = "absent"
  <2>1. CASE j = step
    BY <1>6, <1>7, <2>1
  <2>2. CASE j # step
    <3>1. j \in 1 .. step - 1
      BY <1>1, <2>2
    <3>2. tree[c] = "absent"
      BY <1>1, <1>7, <3>1 DEF IInv, TreesGone
    <3> QED
      BY <1>6, <3>2
  <2> QED
    BY <2>1, <2>2
<1>8. TreesGone'
  <2>1. ASSUME NEW c \in DirTrees, at' = "clear", NEW j \in 1 .. step' - 1, ClearOrder[j] = c
        PROVE  tree'[c] = "absent"
    <3>1. j \in 1 .. step
      BY <1>1, <1>3, <2>1
    <3> QED
      BY <1>7, <2>1, <3>1
  <2> QED
    BY <2>1 DEF TreesGone
<1>9. ConfiguredSinceClear'
  <2>1. ASSUME NEW c \in DirTrees, tree'[c] = "ready"
        PROVE  config'[c] >= cleared'
    <3>1. CASE step = 10
      <4>1. PICK j \in 1 .. 10 : ClearOrder[j] = c
        BY ClearPasses
      <4> QED
        BY <1>7, <2>1, <3>1, <4>1
    <3>2. CASE step # 10
      <4>1. tree[c] = "ready" /\ cleared' = cleared /\ config'[c] = config[c]
        BY <1>3, <1>6, <2>1, <3>2
      <4> QED
        BY <4>1 DEF IInv, ConfiguredSinceClear
    <3> QED
      BY <3>1, <3>2
  <2> QED
    BY <2>1 DEF ConfiguredSinceClear
<1>10. (cleared <= src)'
  BY <1>1, <1>3 DEF IInv, Clear
<1> QED
  BY <1>4, <1>5, <1>8, <1>9, <1>10 DEF IInv

LEMMA AbortKeeps == ASSUME IInv, Abort PROVE IInv'
<1>1. /\ made \in [Products -> 0 .. MaxVersion] /\ MaxVersion \in Nat
      /\ pflash \in {"absent", "short", "whole"}
      /\ aborts \in 0 .. MaxAborts /\ MaxAborts \in Nat /\ aborts < MaxAborts
  BY VersionAssumption DEF IInv, TypeOK, Abort
<1>. DEFINE broken == IF Running THEN cur ELSE ClearOrder[step]
<1>2. broken \in RomParts => \E k \in Steps : broken = Order[k]
  <2>1. Steps = 1 .. 21 /\ Order[5] = "rom_bl1" /\ Order[6] = "rom_fip"
    BY OrderEntries DEF Steps
  <2> QED
    BY <2>1 DEF RomParts
<1>3. \/ made' = made
      \/ \E w \in IF broken \in RomParts THEN Left(broken) ELSE {Absent} :
            made' = [made EXCEPT ![broken] = w]
  BY DEF Abort
<1>. HIDE DEF broken
<1>4. made' \in [Products -> 0 .. MaxVersion]
  <2>1. ASSUME NEW w \in IF broken \in RomParts THEN Left(broken) ELSE {Absent}
        PROVE  w \in 0 .. MaxVersion
    <3>1. CASE broken \in RomParts
      BY <1>2, <2>1, <3>1, LeftTyped DEF IInv
    <3>2. CASE broken \notin RomParts
      BY <1>1, <2>1, <3>2 DEF Absent
    <3> QED
      BY <3>1, <3>2
  <2> QED
    BY <1>1, <1>3, <2>1, Updated
<1>5. pflash' \in {"absent", "short", "whole"} /\ aborts' \in 0 .. MaxAborts /\ OnError
  BY <1>1 DEF Abort
<1> QED
  BY <1>4, <1>5, StopKeeps DEF Abort

LEMMA NextKeeps == IInv /\ [Next]_vars => IInv'
<1> SUFFICES ASSUME IInv, [Next]_vars PROVE IInv'
  OBVIOUS
<1>1. /\ pflash \in {"absent", "short", "whole"} /\ aborts \in 0 .. MaxAborts
      /\ made \in [Products -> 0 .. MaxVersion]
  BY DEF IInv, TypeOK
<1>2. cur \notin {"app", "pflash"} => cur \in Products
  BY DEF IInv, TypeOK, cur, Products
<1>3. CASE Edit
  BY <1>3, EditKeeps
<1>4. CASE Start("run") \/ Start("clear")
  BY <1>4, StartKeeps
<1>5. CASE Plain
  BY <1>2, <1>5, BuildKeeps DEF Plain, Trees
<1>6. CASE Rom
  BY <1>6, RomKeeps
<1>7. CASE Test
  BY <1>7, TestKeeps
<1>8. CASE Configure
  BY <1>8, ConfigureKeeps
<1>9. CASE Make
  <2>1. cur \notin {"app", "pflash"}
    BY <1>9 DEF Make, Trees, DirTrees
  <2>2. CASE CanMake(cur)
    BY <1>2, <1>9, <2>1, <2>2, BuildKeeps DEF Make, CanMake, DirTrees
  <2>3. CASE ~ CanMake(cur)
    BY <1>1, <1>9, <2>3, StopKeeps DEF Make
  <2> QED
    BY <2>2, <2>3
<1>10. CASE Wipe
  BY <1>10, WipeKeeps
<1>11. CASE Remake
  <2>1. cur \in Wiped /\ Running
    BY <1>11 DEF Remake
  <2>2. cur \notin {"app", "pflash"} /\ cur \notin DirTrees
    BY <2>1 DEF Wiped, DirTrees
  <2> QED
    BY <1>2, <1>11, <2>1, <2>2, BuildKeeps DEF Remake
<1>12. CASE NorFlash
  <2>1. /\ cur \notin Tracked /\ cur \notin DirTrees
        /\ pflash' \in {"absent", "short", "whole"}
    BY <1>1, <1>12 DEF NorFlash, Tracked, Products, DirTrees
  <2> QED
    BY <1>1, <1>12, <2>1, AdvanceKeeps DEF NorFlash
<1>13. CASE Application
  <2>1. CASE OnError
    BY <1>1, <1>13, <2>1, StopKeeps DEF Application
  <2>2. CASE Advance
    <3>1. cur \notin Tracked /\ cur \notin DirTrees
      BY <1>13 DEF Application, Tracked, Products, DirTrees
    <3> QED
      BY <1>1, <1>13, <2>2, <3>1, AdvanceKeeps DEF Application
  <2> QED
    BY <1>13, <2>1, <2>2 DEF Application
<1>14. CASE Clear
  BY <1>14, ClearKeeps
<1>15. CASE Abort
  BY <1>15, AbortKeeps
<1>16. CASE UNCHANGED vars
  <2>1. Passed' = Passed /\ \A p : Ages(p)' = Ages(p)
    BY <1>16 DEF vars, disk, Passed, Ages, Running
  <2>2. EarlierCurrent'
    BY <1>16, <2>1 DEF vars, disk, IInv, EarlierCurrent, IsOldest
  <2> QED
    BY <1>16, <2>2 DEF vars, disk, IInv, TypeOK, TreesGone, ConfiguredSinceClear
<1> QED
  BY <1>3, <1>4, <1>5, <1>6, <1>7, <1>8, <1>9, <1>10, <1>11, <1>12, <1>13, <1>14, <1>15, <1>16
     DEF Next, Script

-----------------------------------------------------------------------------
\* The inductive invariant: during a run everything before the present call is as old as
\* the configurations in it, and during c every configured directory before the present
\* one is gone.
LEMMA Invariant == Spec => []IInv
<1> QED
  BY InitInv, NextKeeps, PTL DEF Spec

\* Positions, versions and the state of every tree stay in their ranges, for any
\* number of edits and interruptions of build_all.sh.
THEOREM TypeCorrectness == Spec => []TypeOK
<1>1. IInv => TypeOK
  BY DEF IInv
<1> QED
  BY <1>1, Invariant, PTL

\* A run of build_all.sh that ends normally leaves products of the sources it was started
\* with; anything older in them is a configuration of a program they contain, and, xen's
\* apart, that is no older than the last clear_artifact that came to its end.
THEOREM RunsLeaveCurrent == Spec => []OnlyConfigurationsAreOld
<1>1. IInv => OnlyConfigurationsAreOld
  <2>. SUFFICES ASSUME IInv, at = "built", NEW p \in Tracked
                PROVE  /\ made[p] = Oldest({src} \cup {config[c] : c \in TreesIn(p)})
                       /\ "xen" \notin TreesIn(p) => made[p] >= cleared
    BY DEF OnlyConfigurationsAreOld
  <2>1. PICK j \in Steps : Order[j] = p
    BY DEF Tracked, Products
  <2>2. IsOldest(made[p], Ages(p))
    BY <2>1 DEF IInv, EarlierCurrent, Passed
  <2>3. /\ MaxVersion \in Nat /\ src \in Nat /\ cleared \in Nat /\ cleared <= src
        /\ config \in [Trees -> 0 .. MaxVersion]
    BY VersionAssumption DEF IInv, TypeOK
  <2>4. ASSUME NEW c \in TreesIn(p)
        PROVE  c \in Trees /\ config[c] \in Nat /\ (c # "xen" => config[c] >= cleared)
    <3>1. PICK m \in Steps : Order[m] = c
      BY <2>1, TreesPlaced
    <3>2. c \in Trees /\ config[c] \in Nat
      BY <2>1, <2>3, TreesPlaced
    <3>3. c # "xen" => c \in DirTrees /\ tree[c] = "ready"
      BY <3>1, <3>2 DEF IInv, EarlierCurrent, Passed, Trees
    <3> QED
      BY <3>2, <3>3 DEF IInv, ConfiguredSinceClear
  <2>5. Ages(p) \in SUBSET Nat
    BY <2>3, <2>4 DEF Ages
  <2>6. made[p] = Oldest(Ages(p))
    BY <2>2, <2>5, OldestIs
  <2>7. ASSUME "xen" \notin TreesIn(p)
        PROVE  made[p] >= cleared
    <3>1. made[p] = src \/ \E c \in TreesIn(p) : made[p] = config[c]
      BY <2>2 DEF Ages, IsOldest
    <3> QED
      BY <2>3, <2>4, <2>7, <3>1
  <2> QED
    BY <2>6, <2>7 DEF Ages
<1> QED
  BY <1>1, Invariant, PTL

\* qemu and the two kernels are never made with a configuration from before the
\* last clear_artifact that came to its end.
THEOREM NoOldConfiguration == Spec => []ConfiguredSinceClear
<1>1. IInv => ConfiguredSinceClear
  BY DEF IInv
<1> QED
  BY <1>1, Invariant, PTL
=============================================================================
