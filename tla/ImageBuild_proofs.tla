-------------------------- MODULE ImageBuild_proofs --------------------------
(* Theorems about ImageBuild, for any number of loop devices, any commands  *)
(* that may be interrupted, any number of interruptions and any tools.       *)
EXTENDS ImageBuild, TLAPS

\* The strengthening that is inductive: while a directory is filled the stack
\* is the one found plus the script's mount, and that mount's device is held.
IInv == TypeOK /\ StackDiscipline /\ OwnLoop /\ DevicesSound /\ ArchiveIsOwn

\* umount undoes the mount before it
LEMMA PopAppend ==
  ASSUME NEW S, NEW s \in Seq(S), NEW e \in S
  PROVE  Pop(Append(s, e)) = s
  BY DEF Pop

\* removing the top mount of a stack leaves a stack
LEMMA PopType ==
  ASSUME NEW S, NEW s \in Seq(S), s # << >>
  PROVE  Pop(s) \in Seq(S)
  BY DEF Pop

\* the top of a stack is one of its mounts
LEMMA TopAppend ==
  ASSUME NEW S, NEW s \in Seq(S), NEW e \in S
  PROVE  /\ Append(s, e) \in Seq(S)
         /\ Append(s, e) # << >>
         /\ Append(s, e)[Len(Append(s, e))] = e
  OBVIOUS

\* what the commands on loop devices leave behind
LEMMA DetachEffect ==
  ASSUME TypeOK, NEW l \in Loops, Detach(l)
  PROVE  /\ backing' \in [Loops -> Images \cup {Free}]
         /\ autoclear' \in SUBSET Loops
         /\ \A m \in Loops \ {l} : backing'[m] = backing[m]
         /\ \A m \in autoclear' : m = l \/ m \in autoclear
         /\ l \in autoclear' => backing'[l] = backing[l]
  BY DEF Detach, TypeOK

\* umount frees only devices that wait for it
LEMMA ReleaseEffect ==
  ASSUME TypeOK, NEW m, NEW t, Release(m, t)
  PROVE  /\ backing' \in [Loops -> Images \cup {Free}]
         /\ autoclear' \in SUBSET Loops
         /\ autoclear' \subseteq autoclear
         /\ \A l \in Loops : l \notin autoclear \/ l \in autoclear' => backing'[l] = backing[l]
  BY DEF Release, TypeOK

\* one more device among those found
LEMMA FoundType ==
  ASSUME NEW R, NEW f \in [loops : SUBSET Loops, mounts : R], NEW l \in Loops
  PROVE  [f EXCEPT !.loops = @ \cup {l}] \in [loops : SUBSET Loops, mounts : R]
  OBVIOUS

\* the values of the constant operators
LEMMA Constants ==
  /\ \A c \in 1 .. 4 : Order[c] \in Images
  /\ Free \notin Images
  /\ Unset \notin Loops
  /\ \A i \in Images : RootPart(i) \in 1 .. 4 /\ PartCount(i) \in 1 .. 4 /\ New(i) \in Tags
  /\ \A i \in Images : \A k \in 1 .. 4 : <<i, k>> \in Volumes
  BY NLoopsAssumption
     DEF Order, Images, Free, Unset, Loops, RootPart, PartCount, New, Tags, Names, Volumes

\* p1 and p2 lead to a volume
LEMMA WhereType ==
  ASSUME TypeOK, NEW d \in Dirs
  PROVE  Where(d) \in Volumes
<1>1. CASE mounts[d] = << >>
  BY <1>1 DEF Where, Volumes
<1>2. CASE mounts[d] # << >>
  <2>1. mounts[d] \in Seq(Mounts)
    BY DEF TypeOK
  <2>2. mounts[d][Len(mounts[d])] \in Mounts
    BY <1>2, <2>1
  <2>3. mounts[d][Len(mounts[d])].vol \in Volumes
    BY <2>2 DEF Mounts, Volumes
  <2>. QED  BY <1>2, <2>3 DEF Where
<1>. QED  BY <1>1, <1>2

(* A clean host with no image satisfies the inductive invariant.           *)
THEOREM InitIInv == Init => IInv
BY Constants, NLoopsAssumption, MaxAbortsAssumption
   DEF Init, IInv, TypeOK, StackDiscipline, OwnLoop, DevicesSound, ArchiveIsOwn, ToolLoops,
       Running, Resting, PrepareLabels, UpdateLabels, MiscLabels, HoldsLoop

\* Every step keeps the variables in their types.
LEMMA TypeStep ==
  ASSUME TypeOK, OwnLoop, DevicesSound, ArchiveIsOwn, [Next]_vars
  PROVE  TypeOK'
<1>. USE MaxAbortsAssumption DEF OnError, Goto, img, More, Unpacked, Wiped, ReleaseLoop
<1>0. /\ img \in Images /\ New(img) \in Tags
      /\ PartCount(img) \in 1 .. 4 /\ RootPart(img) \in 1 .. 4
      /\ \A k \in 1 .. 4 : <<img, k>> \in Volumes
  BY Constants DEF TypeOK
<1>1. CASE Start
  <2>1. Attached \in SUBSET Loops
    BY DEF Attached
  <2>2. files' \in [Volumes -> SUBSET Tags]
    <3>1. \A t \in Tags : Aged(t) \subseteq Tags
      BY DEF Aged, Tags, Names
    <3>2. \A v \in Volumes : files'[v] \subseteq Tags
      BY <1>1, <3>1 DEF Start, TypeOK
    <3>. QED  BY <1>1, <3>2 DEF Start
  <2>. QED  BY <1>1, <2>1, <2>2 DEF Start, TypeOK, kernel, tool, Running, PrepareLabels
<1>2. CASE PCheck
  BY <1>0, <1>2 DEF PCheck, NextImage, TypeOK, disk, kernel, shell, tool, hist, Running,
       Resting,
       PrepareLabels, UpdateLabels, MiscLabels
<1>3. CASE PDd
  BY <1>0, <1>3 DEF PDd, TypeOK, disk, kernel, shell, tool, hist, Running, Resting,
       PrepareLabels, UpdateLabels, MiscLabels
<1>4. CASE PPart
  BY <1>0, <1>4 DEF PPart, TypeOK, disk, kernel, shell, tool, hist, Running, Resting,
       PrepareLabels, UpdateLabels, MiscLabels
<1>5. CASE PFind
  BY <1>0, <1>5 DEF PFind, Find, TypeOK, disk, kernel, shell, tool, hist, Running, Resting,
       PrepareLabels, UpdateLabels, MiscLabels
<1>6. CASE PAttach
  BY <1>0, <1>6 DEF PAttach, AttachImage, Attach, DevicesSound, TypeOK, disk, kernel,
       shell, tool, hist, Running, Resting,
       PrepareLabels, UpdateLabels, MiscLabels
<1>7. CASE PMkfs
  <2>1. loopdev \in Loops /\ backing[loopdev] = img /\ img \in Images
    BY <1>0, <1>7 DEF PMkfs, OwnLoop, HoldsLoop, TypeOK
  <2>2. <<img, part>> \in Images \X (1 .. 4) /\ <<img, part>> \in Volumes
    BY <1>0 DEF TypeOK
  <2>4. formatted' \in SUBSET (Images \X (1 .. 4))
    BY <1>7, <2>1, <2>2 DEF PMkfs, Format, TypeOK
  <2>5. files' \in [Volumes -> SUBSET Tags]
    BY <1>7, <2>1, <2>2 DEF PMkfs, Format, TypeOK
  <2>3. part' \in 1 .. 4 /\ pc' \in Running \cup Resting
    BY <1>0, <1>7 DEF PMkfs, TypeOK, Running, Resting, PrepareLabels
  <2>. QED  BY <1>7, <2>3, <2>4, <2>5 DEF PMkfs, TypeOK, kernel, tool, hist
<1>8. CASE PDetach
  <2>1. loopdev \in Loops
    BY <1>0, <1>8 DEF PDetach, OwnLoop, HoldsLoop
  <2>2. backing' \in [Loops -> Images \cup {Free}] /\ autoclear' \in SUBSET Loops
    BY <1>0, <1>8, <2>1, DetachEffect DEF PDetach, TypeOK
  <2>3. pc' \in Running \cup Resting /\ cur' \in 1 .. 4
    BY <1>0, <1>8 DEF PDetach, NextImage, TypeOK, Running, Resting, PrepareLabels,
       UpdateLabels
  <2>. QED  BY <1>0, <1>8, <2>2, <2>3 DEF PDetach, TypeOK, disk, tool, hist
<1>9. CASE UFind
  BY <1>0, <1>9 DEF UFind, Find, TypeOK, disk, kernel, shell, tool, hist, Running, Resting,
       PrepareLabels, UpdateLabels, MiscLabels
<1>10. CASE UAttach
  BY <1>0, <1>10 DEF UAttach, AttachImage, Attach, DevicesSound, TypeOK, disk, kernel,
       shell, tool, hist, Running, Resting,
       PrepareLabels, UpdateLabels, MiscLabels
<1>11. CASE UMount1
  <2>1. loopdev \in Loops /\ backing[loopdev] = img /\ img \in Images
    BY <1>0, <1>11 DEF UMount1, MountPart, OwnLoop, HoldsLoop, UpdateLabels, TypeOK
  <2>2. OwnMount(1) \in Mounts
    BY <2>1 DEF Mounts, OwnMount
  <2>3. mounts' \in [Dirs -> Seq(Mounts)]
    <3>1. CASE CanMount(loopdev, 1)
      <4>1. mounts' = [mounts EXCEPT ![1] = Append(@, OwnMount(1))]
        BY <1>11, <2>1, <3>1 DEF UMount1, MountPart, MountOn, OwnMount
      <4>2. mounts \in [Dirs -> Seq(Mounts)]
        BY DEF TypeOK
      <4>3. Append(mounts[1], OwnMount(1)) \in Seq(Mounts)
        BY <2>2, <4>2 DEF Dirs
      <4>. QED  BY <4>1, <4>2, <4>3 DEF Dirs
    <3>2. CASE ~ CanMount(loopdev, 1)
      BY <1>0, <1>11, <3>2 DEF UMount1, MountPart, TypeOK
    <3>. QED  BY <3>1, <3>2
  <2>. QED  BY <1>0, <1>11, <2>3 DEF UMount1, MountPart, TypeOK, disk, shell, tool, hist,
               Running, Resting, UpdateLabels
<1>12. CASE UMount2
  <2>1. loopdev \in Loops /\ backing[loopdev] = img /\ img \in Images
    BY <1>0, <1>12 DEF UMount2, MountPart, OwnLoop, HoldsLoop, UpdateLabels, TypeOK
  <2>2. OwnMount(RootPart(img)) \in Mounts
    BY <1>0, <2>1 DEF Mounts, OwnMount
  <2>3. mounts' \in [Dirs -> Seq(Mounts)]
    <3>1. CASE CanMount(loopdev, RootPart(img))
      <4>1. mounts' = [mounts EXCEPT ![2] = Append(@, OwnMount(RootPart(img)))]
        BY <1>12, <2>1, <3>1 DEF UMount2, MountPart, MountOn, OwnMount
      <4>2. mounts \in [Dirs -> Seq(Mounts)]
        BY DEF TypeOK
      <4>3. Append(mounts[2], OwnMount(RootPart(img))) \in Seq(Mounts)
        BY <2>2, <4>2 DEF Dirs
      <4>. QED  BY <4>1, <4>2, <4>3 DEF Dirs
    <3>2. CASE ~ CanMount(loopdev, RootPart(img))
      BY <1>0, <1>12, <3>2 DEF UMount2, MountPart, TypeOK
    <3>. QED  BY <3>1, <3>2
  <2>. QED  BY <1>0, <1>12, <2>3 DEF UMount2, MountPart, TypeOK, disk, shell, tool, hist,
               Running, Resting, UpdateLabels
<1>13. CASE UFill1
  <2>1. files' \in [Volumes -> SUBSET Tags]
    BY <1>0, <1>13, WhereType DEF UFill1, TypeOK
  <2>. QED  BY <1>0, <1>13, <2>1 DEF UFill1, TypeOK, kernel, shell, tool, hist, Running, Resting,
               UpdateLabels
<1>14. CASE UUmount1
  <2>1. mounts' \in [Dirs -> Seq(Mounts)]
    BY <1>0, <1>14, PopType DEF UUmount1, CanUnmount, UnmountFrom, TypeOK, Dirs, kernel
  <2>2. backing' \in [Loops -> Images \cup {Free}] /\ autoclear' \in SUBSET Loops
    BY <1>0, <1>14, ReleaseEffect DEF UUmount1, UnmountFrom, TypeOK, kernel
  <2>. QED  BY <1>0, <1>14, <2>1, <2>2 DEF UUmount1, TypeOK, disk, shell, tool, hist, Running,
               Resting, UpdateLabels
<1>15. CASE UUmount2
  <2>1. mounts' \in [Dirs -> Seq(Mounts)]
    BY <1>0, <1>15, PopType DEF UUmount2, CanUnmount, UnmountFrom, TypeOK, Dirs, kernel
  <2>2. backing' \in [Loops -> Images \cup {Free}] /\ autoclear' \in SUBSET Loops
    BY <1>0, <1>15, ReleaseEffect DEF UUmount2, UnmountFrom, TypeOK, kernel
  <2>. QED  BY <1>0, <1>15, <2>1, <2>2 DEF UUmount2, TypeOK, disk, shell, tool, hist, Running,
               Resting, UpdateLabels
<1>16. CASE UGunzip
  BY <1>0, <1>16 DEF UGunzip, TypeOK, disk, kernel, shell, tool, hist, Running, Resting,
       PrepareLabels, UpdateLabels, MiscLabels
<1>17. CASE UWipe2
  <2>1. files' \in [Volumes -> SUBSET Tags]
    BY <1>0, <1>17, WhereType DEF UWipe2, TypeOK
  <2>. QED  BY <1>0, <1>17, <2>1 DEF UWipe2, TypeOK, kernel, shell, tool, hist, Running, Resting,
               UpdateLabels
<1>18. CASE UFill2
  <2>1. New(IF UsesCpio(img) THEN cpio ELSE img) = New(img)
    BY <1>18 DEF UFill2, ArchiveIsOwn
  <2>2. files' \in [Volumes -> SUBSET Tags]
    BY <1>0, <1>18, <2>1, WhereType DEF UFill2, TypeOK
  <2>. QED  BY <1>18, <2>2 DEF UFill2, TypeOK, kernel, tool, hist, Running, Resting,
               UpdateLabels
<1>19. CASE UMkfs
  <2>1. loopdev \in Loops /\ backing[loopdev] = img /\ img \in Images
    BY <1>0, <1>19 DEF UMkfs, OwnLoop, HoldsLoop, UpdateLabels, TypeOK
  <2>2. <<img, part>> \in Images \X (1 .. 4) /\ <<img, part>> \in Volumes
    BY <1>0 DEF TypeOK
  <2>4. formatted' \in SUBSET (Images \X (1 .. 4))
    BY <1>19, <2>1, <2>2 DEF UMkfs, Format, TypeOK
  <2>5. files' \in [Volumes -> SUBSET Tags]
    BY <1>19, <2>1, <2>2 DEF UMkfs, Format, TypeOK
  <2>3. part' \in 1 .. 4 /\ pc' \in Running \cup Resting
    BY <1>0, <1>19 DEF UMkfs, TypeOK, Running, Resting, UpdateLabels
  <2>. QED  BY <1>19, <2>3, <2>4, <2>5 DEF UMkfs, TypeOK, kernel, tool, hist
<1>20. CASE UDetach
  <2>1. loopdev \in Loops
    BY <1>0, <1>20 DEF UDetach, OwnLoop, HoldsLoop, UpdateLabels
  <2>2. backing' \in [Loops -> Images \cup {Free}] /\ autoclear' \in SUBSET Loops
    BY <1>0, <1>20, <2>1, DetachEffect DEF UDetach, TypeOK
  <2>3. pc' \in Running \cup Resting /\ cur' \in 1 .. 4
    BY <1>0, <1>20 DEF UDetach, NextImage, TypeOK, Running, Resting, UpdateLabels,
       MiscLabels
  <2>. QED  BY <1>0, <1>20, <2>2, <2>3 DEF UDetach, TypeOK, disk, tool, hist
<1>21. CASE MCheck
  BY <1>0, <1>21 DEF MCheck, TypeOK, disk, kernel, shell, tool, hist, Running, Resting,
       PrepareLabels, UpdateLabels, MiscLabels
<1>22. CASE MDd
  BY <1>0, <1>22 DEF MDd, TypeOK, disk, kernel, shell, tool, hist, Running, Resting,
       PrepareLabels, UpdateLabels, MiscLabels
<1>23. CASE MMkfs
  BY <1>0, <1>23 DEF MMkfs, TypeOK, disk, kernel, shell, tool, hist, Running, Resting,
       PrepareLabels, UpdateLabels, MiscLabels
<1>24. CASE Abort
  BY <1>0, <1>24 DEF Abort, TypeOK, disk, kernel, shell, tool, hist, Running, Resting,
       PrepareLabels, UpdateLabels, MiscLabels
<1>25. CASE Reboot
  BY <1>0, <1>25 DEF Reboot, TypeOK, disk, kernel, shell, tool, hist, Running, Resting,
       PrepareLabels, UpdateLabels, MiscLabels
<1>26. CASE MountRootfs
  <2>1. PICK l \in Loops :
          /\ backing' = [backing EXCEPT ![l] = "domu"]
          /\ mounts' = [d \in Dirs |->
               IF \A k \in 1 .. d : k <= parts["domu"] /\ <<"domu", k>> \in formatted
               THEN Append(mounts[d], [vol |-> <<"domu", d>>, loop |-> l]) ELSE mounts[d]]
    BY <1>26 DEF MountRootfs, Attach
  <2>2. backing' \in [Loops -> Images \cup {Free}]
    BY <2>1 DEF TypeOK, Images
  <2>3. ASSUME NEW d \in Dirs
        PROVE  /\ mounts[d] \in Seq(Mounts)
               /\ Append(mounts[d], [vol |-> <<"domu", d>>, loop |-> l]) \in Seq(Mounts)
    <3>1. [vol |-> <<"domu", d>>, loop |-> l] \in Mounts
      BY DEF Mounts, Images, Dirs
    <3>. QED  BY <3>1 DEF TypeOK
  <2>4. mounts' \in [Dirs -> Seq(Mounts)]
    BY <2>1, <2>3
  <2>. QED  BY <1>26, <2>2, <2>4 DEF MountRootfs, TypeOK, disk, shell, tool, hist
<1>27. CASE \E l \in Loops : UmountRootfs(l)
  <2>1. PICK l \in Loops : UmountRootfs(l)
    BY <1>27
  <2>2. ASSUME NEW d \in Dirs
        PROVE  (IF mounts[d] = << >> THEN << >> ELSE Pop(mounts[d])) \in Seq(Mounts)
    BY PopType DEF TypeOK
  <2>3. mounts' \in [Dirs -> Seq(Mounts)]
    BY <2>1, <2>2 DEF UmountRootfs
  <2>4. backing' \in [Loops -> Images \cup {Free}] /\ autoclear' \in SUBSET Loops
    BY <2>1 DEF UmountRootfs, TypeOK
  <2>. QED  BY <2>1, <2>3, <2>4 DEF UmountRootfs, TypeOK, disk, shell, tool, hist
<1>28. CASE XFind
  BY <1>28 DEF XFind, TypeOK, disk, kernel, shell, hist
<1>29. CASE XAttach
  <2>1. backing' \in [Loops -> Images \cup {Free}]
    BY <1>29 DEF XAttach, Attach, TypeOK, Images
  <2>. QED  BY <1>29, <2>1 DEF XAttach, TypeOK, disk, shell, hist
<1>30. CASE XMount
  <2>1. tloop \in Loops
    BY <1>30 DEF XMount, DevicesSound
  <2>2. found' \in [loops : SUBSET Loops, mounts : [Dirs -> Seq(Mounts)]]
    <3>1. found \in [loops : SUBSET Loops, mounts : [Dirs -> Seq(Mounts)]]
      BY DEF TypeOK
    <3>2. [found EXCEPT !.loops = @ \cup {tloop}]
            \in [loops : SUBSET Loops, mounts : [Dirs -> Seq(Mounts)]]
      BY <2>1, <3>1, FoundType
    <3>. QED  BY <1>30, <3>1, <3>2 DEF XMount
  <2>. QED  BY <1>30, <2>2 DEF XMount, TypeOK, disk, kernel, shell
<1>31. CASE XUmount
  BY <1>31, ReleaseEffect DEF XUmount, TypeOK, disk, shell, hist
<1>32. CASE XDetach
  <2>1. tloop \in Loops
    BY <1>32 DEF XDetach, DevicesSound
  <2>. QED  BY <1>32, <2>1, DetachEffect DEF XDetach, TypeOK, disk, shell, hist
<1>33. CASE GuestRun
  <2>1. GuestFiles \subseteq Tags
    BY DEF GuestFiles, Tags
  <2>. QED  BY <1>33, <2>1 DEF GuestRun, TypeOK, kernel, shell, tool, hist
<1>34. CASE LogcatAttach
  BY <1>34 DEF LogcatAttach, Attach, TypeOK, Images, disk, shell, hist
<1>35. CASE UNCHANGED vars
  BY <1>35 DEF vars, TypeOK, disk, kernel, shell, tool, hist
<1>. QED  BY <1>1, <1>2, <1>3, <1>4, <1>5, <1>6, <1>7, <1>8, <1>9,
             <1>10, <1>11, <1>12, <1>13, <1>14, <1>15, <1>16, <1>17, <1>18,
             <1>19, <1>20, <1>21, <1>22, <1>23, <1>24, <1>25, <1>26, <1>27,
             <1>28, <1>29, <1>30, <1>31, <1>32, <1>33, <1>34, <1>35
     DEF Next, Script, Environment
\* Every step keeps the devices of the script and of the tool apart.
LEMMA LoopStep ==
  ASSUME TypeOK, OwnLoop, DevicesSound, ArchiveIsOwn, [Next]_vars
  PROVE  OwnLoop' /\ DevicesSound' /\ ArchiveIsOwn'
<1>. USE DEF OwnLoop, DevicesSound, ArchiveIsOwn, ToolLoops, HoldsLoop, UpdateLabels,
             Unpacked, ReleaseLoop
<1>0. img \in Images /\ Free \notin Images
  BY Constants DEF TypeOK, img
<1>1. CASE Start
  BY <1>0, <1>1 DEF Start, TypeOK, img, disk, kernel, shell, tool, hist, OnError, Goto,
       Resting
<1>2. CASE PCheck
  BY <1>0, <1>2 DEF PCheck, TypeOK, img, disk, kernel, shell, tool, hist, OnError, Goto,
       NextImage
<1>3. CASE PDd
  BY <1>0, <1>3 DEF PDd, TypeOK, img, disk, kernel, shell, tool, hist, OnError, Goto
<1>4. CASE PPart
  BY <1>0, <1>4 DEF PPart, TypeOK, img, disk, kernel, shell, tool, hist, OnError, Goto
<1>5. CASE PFind
  BY <1>0, <1>5 DEF PFind, TypeOK, img, disk, kernel, shell, tool, hist, OnError, Goto,
       Find, IsFirstFree, FreeLoops
<1>6. CASE PAttach
  BY <1>0, <1>6 DEF PAttach, TypeOK, img, disk, kernel, shell, tool, hist, OnError, Goto,
       AttachImage, Attach, CanAttach, FreeLoops
<1>7. CASE PMkfs
  BY <1>0, <1>7 DEF PMkfs, TypeOK, img, disk, kernel, shell, tool, hist, OnError, Goto
<1>8. CASE PDetach
  BY <1>0, <1>8, DetachEffect DEF PDetach, TypeOK, img, disk, kernel, shell, tool, hist,
       OnError, Goto, NextImage
<1>9. CASE UFind
  BY <1>0, <1>9 DEF UFind, TypeOK, img, disk, kernel, shell, tool, hist, OnError, Goto,
       Find, IsFirstFree, FreeLoops, Order
<1>10. CASE UAttach
  BY <1>0, <1>10 DEF UAttach, TypeOK, img, disk, kernel, shell, tool, hist, OnError,
       Goto, AttachImage, Attach, CanAttach, FreeLoops
<1>11. CASE UMount1
  BY <1>0, <1>11 DEF UMount1, TypeOK, img, disk, kernel, shell, tool, hist, OnError,
       Goto, MountPart
<1>12. CASE UFill1
  BY <1>0, <1>12 DEF UFill1, TypeOK, img, disk, kernel, shell, tool, hist, OnError, Goto
<1>13. CASE UUmount1
  BY <1>0, <1>13, ReleaseEffect DEF UUmount1, TypeOK, img, disk, kernel, shell, tool,
       hist, OnError, Goto, UnmountFrom
<1>14. CASE UGunzip
  BY <1>0, <1>14 DEF UGunzip, TypeOK, img, disk, kernel, shell, tool, hist, OnError, Goto
<1>15. CASE UMount2
  BY <1>0, <1>15 DEF UMount2, TypeOK, img, disk, kernel, shell, tool, hist, OnError,
       Goto, MountPart
<1>16. CASE UWipe2
  BY <1>0, <1>16 DEF UWipe2, TypeOK, img, disk, kernel, shell, tool, hist, OnError, Goto
<1>17. CASE UFill2
  BY <1>0, <1>17 DEF UFill2, TypeOK, img, disk, kernel, shell, tool, hist, OnError, Goto
<1>18. CASE UMkfs
  BY <1>0, <1>18 DEF UMkfs, TypeOK, img, disk, kernel, shell, tool, hist, OnError, Goto
<1>19. CASE UUmount2
  BY <1>0, <1>19, ReleaseEffect DEF UUmount2, TypeOK, img, disk, kernel, shell, tool,
       hist, OnError, Goto, UnmountFrom
<1>20. CASE UDetach
  BY <1>0, <1>20, DetachEffect DEF UDetach, TypeOK, img, disk, kernel, shell, tool, hist,
       OnError, Goto, NextImage
<1>21. CASE MCheck
  BY <1>0, <1>21 DEF MCheck, TypeOK, img, disk, kernel, shell, tool, hist, OnError, Goto
<1>22. CASE MDd
  BY <1>0, <1>22 DEF MDd, TypeOK, img, disk, kernel, shell, tool, hist, OnError, Goto
<1>23. CASE MMkfs
  BY <1>0, <1>23 DEF MMkfs, TypeOK, img, disk, kernel, shell, tool, hist, OnError, Goto
<1>24. CASE Abort
  BY <1>0, <1>24 DEF Abort, TypeOK, img, disk, kernel, shell, tool, hist, OnError, Goto
<1>25. CASE Reboot
  BY <1>0, <1>25 DEF Reboot, TypeOK, img, disk, kernel, shell, tool, hist, OnError, Goto
<1>26. CASE MountRootfs
  BY <1>0, <1>26 DEF MountRootfs, TypeOK, img, disk, kernel, shell, tool, hist, OnError,
       Goto, Resting, Attach, IsFirstFree, FreeLoops
<1>27. CASE \E l \in Loops : UmountRootfs(l)
  BY <1>0, <1>27 DEF UmountRootfs, TypeOK, img, disk, kernel, shell, tool, hist, OnError,
       Goto, Resting
<1>28. CASE XFind
  BY <1>0, <1>28 DEF XFind, TypeOK, img, disk, kernel, shell, tool, hist, OnError, Goto,
       IsFirstFree, FreeLoops
<1>29. CASE XAttach
  <2>1. tloop \in Loops /\ \A l \in Loops : backing[l] # Free => backing'[l] = backing[l]
    BY <1>29 DEF XAttach, Attach, CanAttach, FreeLoops, TypeOK
  <2>2. CASE CanAttach(tloop)
    <3>1. backing'[tloop] # Free /\ tloop \notin autoclear
      BY <1>29, <2>1, <2>2 DEF XAttach, Attach, CanAttach, FreeLoops, TypeOK, Images, Free
    <3>2. pc \in HoldsLoop => loopdev # tloop
      BY <1>0, <2>2 DEF CanAttach, FreeLoops
    <3>. QED  BY <1>0, <1>29, <2>1, <2>2, <3>1, <3>2 DEF XAttach, TypeOK, img, shell, hist
  <2>3. CASE ~ CanAttach(tloop)
    BY <1>29, <2>3 DEF XAttach, TypeOK, img, shell, hist
  <2>. QED  BY <2>2, <2>3
<1>30. CASE XMount
  BY <1>0, <1>30 DEF XMount, TypeOK, img, disk, kernel, shell, tool, hist, OnError, Goto
<1>31. CASE XUmount
  BY <1>0, <1>31, ReleaseEffect DEF XUmount, TypeOK, img, disk, kernel, shell, tool,
       hist, OnError, Goto
<1>32. CASE XDetach
  BY <1>0, <1>32, DetachEffect DEF XDetach, TypeOK, img, disk, kernel, shell, tool, hist,
       OnError, Goto
<1>33. CASE GuestRun
  BY <1>0, <1>33 DEF GuestRun, TypeOK, img, disk, kernel, shell, tool, hist, OnError,
       Goto, Resting
<1>34. CASE LogcatAttach
  BY <1>0, <1>34 DEF LogcatAttach, TypeOK, img, disk, shell, hist, Attach, IsFirstFree,
       FreeLoops, Images, Free
<1>35. CASE UNCHANGED vars
  BY <1>35 DEF vars, img, disk, kernel, shell, tool, hist
<1>. QED
  BY <1>1, <1>2, <1>3, <1>4, <1>5, <1>6, <1>7, <1>8, <1>9, <1>10, <1>11, <1>12, <1>13,
       <1>14, <1>15, <1>16, <1>17, <1>18, <1>19, <1>20, <1>21, <1>22, <1>23, <1>24,
       <1>25, <1>26, <1>27, <1>28, <1>29, <1>30, <1>31, <1>32, <1>33, <1>34, <1>35
     DEF Next, Script, Environment
\* Every step keeps the mount stacks as found, plus the script's own mount.
LEMMA StackStep ==
  ASSUME TypeOK, StackDiscipline, OwnLoop, [Next]_vars
  PROVE  StackDiscipline'
<1>. USE DEF StackDiscipline, HoldsP1, HoldsP2, Running, PrepareLabels, UpdateLabels,
             MiscLabels, OwnMount, img
<1>0. /\ mounts \in [Dirs -> Seq(Mounts)] /\ 1 \in Dirs /\ 2 \in Dirs
      /\ found.mounts[1] \in Seq(Mounts) /\ found.mounts[2] \in Seq(Mounts)
  BY DEF TypeOK, Dirs
<1>1. CASE Start
  BY <1>0, <1>1 DEF Start, disk, kernel, shell, tool, hist, OnError, Goto, Resting
<1>2. CASE PCheck
  BY <1>0, <1>2 DEF PCheck, disk, kernel, shell, tool, hist, OnError, Goto, NextImage
<1>3. CASE PDd
  BY <1>0, <1>3 DEF PDd, disk, kernel, shell, tool, hist, OnError, Goto
<1>4. CASE PPart
  BY <1>0, <1>4 DEF PPart, disk, kernel, shell, tool, hist, OnError, Goto
<1>5. CASE PFind
  BY <1>0, <1>5 DEF PFind, disk, kernel, shell, tool, hist, OnError, Goto, Find
<1>6. CASE PAttach
  BY <1>0, <1>6 DEF PAttach, disk, kernel, shell, tool, hist, OnError, Goto, AttachImage
<1>7. CASE PMkfs
  BY <1>0, <1>7 DEF PMkfs, disk, kernel, shell, tool, hist, OnError, Goto
<1>8. CASE PDetach
  BY <1>0, <1>8 DEF PDetach, disk, kernel, shell, tool, hist, OnError, Goto, NextImage
<1>9. CASE UFind
  BY <1>0, <1>9 DEF UFind, disk, kernel, shell, tool, hist, OnError, Goto, Find
<1>10. CASE UAttach
  BY <1>0, <1>10 DEF UAttach, disk, kernel, shell, tool, hist, OnError, Goto, AttachImage
<1>11. CASE UMount1
  <2>1. backing[loopdev] = img
    BY <1>11 DEF UMount1, MountPart, OwnLoop, HoldsLoop
  <2>2. CASE CanMount(loopdev, 1)
    <3>1. mounts' = [mounts EXCEPT ![1] = Append(@, OwnMount(1))]
      BY <1>11, <2>1, <2>2 DEF UMount1, MountPart, MountOn
    <3>. QED  BY <1>0, <1>11, <2>2, <3>1 DEF UMount1, MountPart, shell, hist, Goto
  <2>3. CASE ~ CanMount(loopdev, 1)
    BY <1>11, <2>3 DEF UMount1, MountPart, OnError
  <2>. QED  BY <2>2, <2>3
<1>12. CASE UMount2
  <2>1. backing[loopdev] = img
    BY <1>12 DEF UMount2, MountPart, OwnLoop, HoldsLoop
  <2>2. CASE CanMount(loopdev, RootPart(img))
    <3>1. mounts' = [mounts EXCEPT ![2] = Append(@, OwnMount(RootPart(img)))]
      BY <1>12, <2>1, <2>2 DEF UMount2, MountPart, MountOn
    <3>. QED  BY <1>0, <1>12, <2>2, <3>1 DEF UMount2, MountPart, shell, hist, Goto
  <2>3. CASE ~ CanMount(loopdev, RootPart(img))
    BY <1>12, <2>3 DEF UMount2, MountPart, OnError
  <2>. QED  BY <2>2, <2>3
<1>13. CASE UFill1
  BY <1>0, <1>13 DEF UFill1, disk, kernel, shell, tool, hist, OnError, Goto
<1>14. CASE UUmount1
  <2>1. CASE CanUnmount(1)
    <3>1. OwnMount(1) \in Mounts
      BY <1>14, Constants DEF UUmount1, OwnLoop, HoldsLoop, Mounts, TypeOK
    <3>2. mounts' = [mounts EXCEPT ![1] = found.mounts[1]]
      <4>1. mounts[1] = Append(found.mounts[1], OwnMount(1))
        BY <1>14 DEF UUmount1
      <4>2. Pop(mounts[1]) = found.mounts[1]
        BY <1>0, <3>1, <4>1, PopAppend
      <4>. QED  BY <1>14, <2>1, <4>2 DEF UUmount1, UnmountFrom
    <3>. QED  BY <1>0, <1>14, <2>1, <3>2 DEF UUmount1, shell, hist, Goto
  <2>2. CASE ~ CanUnmount(1)
    BY <1>14, <2>2 DEF UUmount1, OnError
  <2>. QED  BY <2>1, <2>2
<1>15. CASE UUmount2
  <2>1. CASE CanUnmount(2)
    <3>1. OwnMount(RootPart(img)) \in Mounts
      BY <1>15, Constants DEF UUmount2, OwnLoop, HoldsLoop, Mounts, TypeOK
    <3>2. mounts' = [mounts EXCEPT ![2] = found.mounts[2]]
      <4>1. mounts[2] = Append(found.mounts[2], OwnMount(RootPart(img)))
        BY <1>15 DEF UUmount2
      <4>2. Pop(mounts[2]) = found.mounts[2]
        BY <1>0, <3>1, <4>1, PopAppend
      <4>. QED  BY <1>15, <2>1, <4>2 DEF UUmount2, UnmountFrom
    <3>. QED  BY <1>0, <1>15, <2>1, <3>2 DEF UUmount2, shell, hist, Goto
  <2>2. CASE ~ CanUnmount(2)
    BY <1>15, <2>2 DEF UUmount2, OnError
  <2>. QED  BY <2>1, <2>2
<1>16. CASE UGunzip
  BY <1>0, <1>16 DEF UGunzip, disk, kernel, shell, tool, hist, OnError, Goto
<1>17. CASE UWipe2
  BY <1>0, <1>17 DEF UWipe2, disk, kernel, shell, tool, hist, OnError, Goto
<1>18. CASE UFill2
  BY <1>0, <1>18 DEF UFill2, disk, kernel, shell, tool, hist, OnError, Goto
<1>19. CASE UMkfs
  BY <1>0, <1>19 DEF UMkfs, disk, kernel, shell, tool, hist, OnError, Goto
<1>20. CASE UDetach
  BY <1>0, <1>20 DEF UDetach, disk, kernel, shell, tool, hist, OnError, Goto, NextImage
<1>21. CASE MCheck
  BY <1>0, <1>21 DEF MCheck, disk, kernel, shell, tool, hist, OnError, Goto
<1>22. CASE MDd
  BY <1>0, <1>22 DEF MDd, disk, kernel, shell, tool, hist, OnError, Goto
<1>23. CASE MMkfs
  BY <1>0, <1>23 DEF MMkfs, disk, kernel, shell, tool, hist, OnError, Goto
<1>24. CASE Abort
  BY <1>0, <1>24 DEF Abort, disk, kernel, shell, tool, hist, OnError, Goto
<1>25. CASE Reboot
  BY <1>0, <1>25 DEF Reboot, disk, kernel, shell, tool, hist, OnError, Goto
<1>26. CASE MountRootfs
  BY <1>0, <1>26 DEF MountRootfs, disk, kernel, shell, tool, hist, OnError, Goto, Resting
<1>27. CASE \E l \in Loops : UmountRootfs(l)
  BY <1>0, <1>27 DEF UmountRootfs, disk, kernel, shell, tool, hist, OnError, Goto, Resting
<1>28. CASE XFind
  BY <1>0, <1>28 DEF XFind, disk, kernel, shell, tool, hist, OnError, Goto
<1>29. CASE XAttach
  BY <1>0, <1>29 DEF XAttach, disk, kernel, shell, tool, hist, OnError, Goto
<1>30. CASE XMount
  BY <1>0, <1>30 DEF XMount, disk, kernel, shell, tool, hist, OnError, Goto, TypeOK
<1>31. CASE XUmount
  BY <1>0, <1>31 DEF XUmount, disk, kernel, shell, tool, hist, OnError, Goto
<1>32. CASE XDetach
  BY <1>0, <1>32 DEF XDetach, disk, kernel, shell, tool, hist, OnError, Goto
<1>33. CASE GuestRun
  BY <1>0, <1>33 DEF GuestRun, disk, kernel, shell, tool, hist, OnError, Goto, Resting
<1>34. CASE LogcatAttach
  BY <1>34 DEF LogcatAttach, shell, hist
<1>35. CASE UNCHANGED vars
  BY <1>35 DEF vars, disk, kernel, shell, tool, hist
<1>. QED
  BY <1>1, <1>2, <1>3, <1>4, <1>5, <1>6, <1>7, <1>8, <1>9, <1>10, <1>11, <1>12, <1>13,
       <1>14, <1>15, <1>16, <1>17, <1>18, <1>19, <1>20, <1>21, <1>22, <1>23, <1>24,
       <1>25, <1>26, <1>27, <1>28, <1>29, <1>30, <1>31, <1>32, <1>33, <1>34, <1>35
     DEF Next, Script, Environment
\* The invariant is inductive.
THEOREM StepIInv == IInv /\ [Next]_vars => IInv'
BY TypeStep, LoopStep, StackStep DEF IInv

(* The inductive invariant holds in every reachable state: of the script, *)
(* of its interruptions and reboots, and of the tools next to it.         *)
THEOREM Invariance == Spec => []IInv
BY InitIInv, StepIInv, PTL DEF Spec

\* Type correctness of the build, its host and its tools.
THEOREM TypeCorrectness == Spec => []TypeOK
<1>1. IInv => TypeOK
  BY DEF IInv
<1>. QED  BY <1>1, Invariance, PTL

\* p1 and p2 show the mounts the run found, plus its own while it fills one.
THEOREM StacksDisciplined == Spec => []StackDiscipline
<1>1. IInv => StackDiscipline
  BY DEF IInv
<1>. QED  BY <1>1, Invariance, PTL

\* The loop device in use is the script's alone, however the tool interleaves.
THEOREM LoopOwned == Spec => []OwnLoop
<1>1. IInv => OwnLoop
  BY DEF IInv
<1>. QED  BY <1>1, Invariance, PTL

-----------------------------------------------------------------------------

\* while a directory is filled it leads to the partition it is meant for
LEMMA OwnVolume ==
  ASSUME IInv
  PROVE  /\ pc \in HoldsP1 => Where(1) = <<img, 1>>
         /\ pc \in HoldsP2 => Where(2) = <<img, RootPart(img)>>
<1>1. ASSUME NEW s \in Seq(Mounts), NEW d \in Dirs, NEW k \in 1 .. 4, pc \in Running,
             loopdev \in Loops, mounts[d] = Append(s, OwnMount(k))
      PROVE  Where(d) = <<img, k>>
  <2>1. OwnMount(k) \in Mounts
    BY <1>1, Constants DEF OwnMount, Mounts, img, IInv, TypeOK
  <2>2. mounts[d] # << >> /\ mounts[d][Len(mounts[d])] = OwnMount(k)
    BY <1>1, <2>1, TopAppend
  <2>. QED  BY <2>2 DEF Where, OwnMount
<1>2. /\ found.mounts[1] \in Seq(Mounts) /\ found.mounts[2] \in Seq(Mounts)
      /\ 1 \in Dirs /\ 2 \in Dirs /\ 1 \in 1 .. 4 /\ RootPart(img) \in 1 .. 4
  BY Constants DEF IInv, TypeOK, Dirs, img
<1>3. CASE pc \in HoldsP1
  <2>1. pc \in Running /\ loopdev \in Loops /\ pc \notin HoldsP2
    BY <1>3 DEF HoldsP1, HoldsP2, Running, UpdateLabels, IInv, OwnLoop, HoldsLoop
  <2>2. mounts[1] = Append(found.mounts[1], OwnMount(1))
    BY <1>3, <2>1 DEF IInv, StackDiscipline
  <2>. QED  BY <1>1, <1>2, <2>1, <2>2
<1>4. CASE pc \in HoldsP2
  <2>1. pc \in Running /\ loopdev \in Loops /\ pc \notin HoldsP1
    BY <1>4 DEF HoldsP1, HoldsP2, Running, UpdateLabels, IInv, OwnLoop, HoldsLoop
  <2>2. mounts[2] = Append(found.mounts[2], OwnMount(RootPart(img)))
    BY <1>4, <2>1 DEF IInv, StackDiscipline
  <2>. QED  BY <1>1, <1>2, <2>1, <2>2
<1>. QED  BY <1>3, <1>4

\* A step changes no file, starts a run, is the board writing, or replaces
\* one partition of the current image by part of it and this run's files.
LEMMA FilesEffect ==
  ASSUME IInv, [Next]_vars
  PROVE  \/ files' = files
         \/ Start
         \/ GuestRun
         \/ pc \in Running /\ \E k \in 1 .. 4 : \E S \in SUBSET (files[<<img, k>>] \cup {New(img)}) :
              files' = [files EXCEPT ![<<img, k>>] = S]
<1>. USE DEF Running, PrepareLabels, UpdateLabels, Wiped
<1>0. img \in Images /\ 1 \in 1 .. 4 /\ RootPart(img) \in 1 .. 4 /\ part \in 1 .. 4
  BY Constants DEF IInv, TypeOK, img
<1>1. CASE PMkfs
  <2>1. backing[loopdev] = img
    BY <1>1 DEF PMkfs, IInv, OwnLoop, HoldsLoop
  <2>2. files' = files \/ files' = [files EXCEPT ![<<img, part>>] = {}]
    BY <1>1, <2>1 DEF PMkfs, Format
  <2>. QED  BY <1>0, <1>1, <2>2 DEF PMkfs
<1>2. CASE UMkfs
  <2>1. backing[loopdev] = img
    BY <1>2 DEF UMkfs, IInv, OwnLoop, HoldsLoop
  <2>2. files' = files \/ files' = [files EXCEPT ![<<img, part>>] = {}]
    BY <1>2, <2>1 DEF UMkfs, Format
  <2>. QED  BY <1>0, <1>2, <2>2 DEF UMkfs
<1>3. CASE UFill1
  <2>1. Where(1) = <<img, 1>>
    BY <1>3, OwnVolume DEF UFill1, HoldsP1
  <2>2. files' = [files EXCEPT ![<<img, 1>>] =
                     {t \in files[<<img, 1>>] : t.name # "listed"} \cup {New(img)}]
    BY <1>3, <2>1 DEF UFill1
  <2>. QED  BY <1>0, <1>3, <2>2 DEF UFill1
<1>4. CASE UWipe2
  <2>1. Where(2) = <<img, RootPart(img)>>
    BY <1>4, OwnVolume DEF UWipe2, HoldsP2
  <2>2. files' = [files EXCEPT ![<<img, RootPart(img)>>] =
                     {t \in files[<<img, RootPart(img)>>] : t.name = "dot"}]
    BY <1>4, <2>1 DEF UWipe2
  <2>. QED  BY <1>0, <1>4, <2>2 DEF UWipe2
<1>5. CASE UFill2
  <2>1. Where(2) = <<img, RootPart(img)>>
    BY <1>5, OwnVolume DEF UFill2, HoldsP2
  <2>2. (IF UsesCpio(img) THEN cpio ELSE img) = img
    BY <1>5 DEF UFill2, IInv, ArchiveIsOwn
  <2>3. files' = [files EXCEPT ![<<img, RootPart(img)>>] =
                     files[<<img, RootPart(img)>>] \cup {New(img)}]
    BY <1>5, <2>1, <2>2 DEF UFill2
  <2>. QED  BY <1>0, <1>5, <2>3 DEF UFill2
<1>6. CASE PCheck \/ PDd \/ PPart \/ PFind \/ PAttach \/ PDetach \/ UFind \/ UAttach
  BY <1>6 DEF PCheck, PDd, PPart, PFind, Find, PAttach, AttachImage, PDetach, UFind,
              UAttach, disk
<1>7. CASE UMount1 \/ UUmount1 \/ UGunzip \/ UMount2 \/ UUmount2 \/ UDetach
  BY <1>7 DEF UMount1, UMount2, MountPart, UUmount1, UUmount2, UGunzip, UDetach, disk
<1>8. CASE MCheck \/ MDd \/ MMkfs \/ Abort \/ Reboot
  BY <1>8 DEF MCheck, MDd, MMkfs, Abort, Reboot, disk
<1>9. CASE MountRootfs \/ (\E l \in Loops : UmountRootfs(l))
  BY <1>9 DEF MountRootfs, UmountRootfs, disk
<1>10. CASE XFind \/ XAttach \/ XMount \/ XUmount \/ XDetach \/ LogcatAttach
  BY <1>10 DEF XFind, LogcatAttach, XAttach, XMount, XUmount, XDetach, disk
<1>11. CASE UNCHANGED vars
  BY <1>11 DEF vars, disk
<1>. QED
  BY <1>1, <1>2, <1>3, <1>4, <1>5, <1>6, <1>7, <1>8, <1>9, <1>10, <1>11
     DEF Next, Script, Environment

\* what WritesStayInOwnImage says, of one step
LEMMA WritesStayStep ==
  ASSUME IInv, [Next]_vars, pc \in Running, NEW v \in Volumes
  PROVE  files'[v] = files[v] \/ v[1] = img
<1>1. ~ Start /\ ~ GuestRun
  BY DEF Start, GuestRun, Resting, Running, PrepareLabels, UpdateLabels, MiscLabels
<1>2. CASE files' = files
  BY <1>2
<1>3. ASSUME NEW k \in 1 .. 4, NEW S, files' = [files EXCEPT ![<<img, k>>] = S]
      PROVE  files'[v] = files[v] \/ v[1] = img
  BY <1>3 DEF IInv, TypeOK
<1>. QED  BY <1>1, <1>2, <1>3, FilesEffect

\* A run never touches another image, nor the directories p1 and p2 themselves.
THEOREM WritesStay == Spec => WritesStayInOwnImage
<1>1. IInv /\ [Next]_vars =>
        [(pc \in Running) => (\A v \in Volumes : files'[v] = files[v] \/ v[1] = img)]_vars
  BY WritesStayStep
<1>. QED  BY <1>1, Invariance, PTL DEF Spec, WritesStayInOwnImage

\* no step brings the files of one image to another
LEMMA NoForeignStep ==
  ASSUME IInv, NoForeignPayload, [Next]_vars
  PROVE  NoForeignPayload'
<1>1. CASE files' = files
  BY <1>1 DEF NoForeignPayload
<1>2. CASE Start
  <2>1. \A t \in Tags : \A a \in Aged(t) : a.from = t.from
    BY DEF Aged, Tags
  <2>2. ASSUME NEW v \in Volumes, NEW a \in files'[v]
        PROVE  v[1] \in Images /\ a.from \in {v[1], "guest"}
    <3>1. files[v] \subseteq Tags
      BY DEF IInv, TypeOK
    <3>2. PICK t \in files[v] : a \in Aged(t)
      BY <1>2, <2>2 DEF Start
    <3>. QED  BY <2>1, <3>1, <3>2 DEF NoForeignPayload
  <2>. QED  BY <2>2 DEF NoForeignPayload
<1>3. CASE GuestRun
  <2>1. \A v \in formatted : v[1] \in Images
    BY DEF IInv, TypeOK
  <2>. QED  BY <1>3, <2>1 DEF GuestRun, GuestFiles, NoForeignPayload
<1>4. ASSUME NEW k \in 1 .. 4, NEW S \in SUBSET (files[<<img, k>>] \cup {New(img)}),
             files' = [files EXCEPT ![<<img, k>>] = S]
      PROVE  NoForeignPayload'
  <2>1. <<img, k>> \in Volumes /\ New(img).from = img
    <3>1. img \in Images
      BY Constants DEF IInv, TypeOK, img
    <3>. QED  BY <3>1, Constants DEF New
  <2>2. ASSUME NEW v \in Volumes, NEW t \in files'[v]
        PROVE  v[1] \in Images /\ t.from \in {v[1], "guest"}
    <3>1. CASE v = <<img, k>>
      <4>1. t = New(img) \/ t \in files[<<img, k>>]
        BY <1>4, <2>1, <2>2, <3>1 DEF IInv, TypeOK
      <4>2. img \in Images /\ v[1] = img
        BY <3>1, Constants DEF IInv, TypeOK, img
      <4>. QED  BY <2>1, <4>1, <4>2 DEF NoForeignPayload
    <3>2. CASE v # <<img, k>>
      BY <1>4, <2>2, <3>2 DEF IInv, TypeOK, NoForeignPayload
    <3>. QED  BY <3>1, <3>2
  <2>. QED  BY <2>2 DEF NoForeignPayload
<1>. QED  BY <1>1, <1>2, <1>3, <1>4, FilesEffect

\* No partition ever receives the files of another image.
THEOREM NoForeign == Spec => []NoForeignPayload
<1>1. Init => NoForeignPayload
  BY DEF Init, NoForeignPayload
<1>2. IInv /\ NoForeignPayload /\ [Next]_vars => NoForeignPayload'
  BY NoForeignStep
<1>. QED  BY <1>1, <1>2, Invariance, PTL DEF Spec

-----------------------------------------------------------------------------
(* What a run has completed: the second half of its promise.               *)

\* what has to be there of an image, and what a run has to leave in it
Complete(i) == \A k \in 1 .. PartCount(i) : <<i, k>> \in formatted
Cleared(i)  == /\ {<<i, 2>>, <<i, 3>>} \subseteq formatted
               /\ files[<<i, 2>>] = {} /\ files[<<i, 3>>] = {}
Fresh(i)    == /\ Overlaid(files[<<i, 1>>], i)
               /\ Refilled(files[<<i, RootPart(i)>>], i)
               /\ i = "android" => Cleared(i)

\* the images the run has been through in this phase
Earlier == {Order[c] : c \in 1 .. cur - 1}

\* prepare_images leaves a file for every image
Made ==
  /\ pc \in PrepareLabels => Earlier \subseteq created
  /\ pc \in PrepareLabels \ {"p_check", "p_dd"} => img \in created
  /\ pc \in UpdateLabels \cup MiscLabels => Images \subseteq created

\* update_rootfs_for_* up to each label: that a partition could be mounted
\* shows that it is formatted, and the commands behind it refresh what it holds
BehindMount1 == UpdateLabels \ {"u_find", "u_attach", "u_mount1"}
BehindFill1  == BehindMount1 \ {"u_fill1"}
BehindMount2 == {"u_wipe2", "u_fill2", "u_mkfs", "u_umount2", "u_detach"}
BehindFill2  == {"u_mkfs", "u_umount2", "u_detach"}
BehindMkfs   == {"u_umount2", "u_detach"}

Boot == /\ pc \in BehindMount1 => <<img, 1>> \in formatted
        /\ pc \in BehindFill1 => Overlaid(files[<<img, 1>>], img)
Root == /\ pc \in BehindMount2 => <<img, RootPart(img)>> \in formatted
        /\ pc = "u_fill2" => \A t \in files[<<img, RootPart(img)>>] : t.name = "dot"
        /\ pc \in BehindFill2 => Refilled(files[<<img, RootPart(img)>>], img)
Data == /\ pc = "u_mkfs" => /\ img = "android" /\ part \in {2, 3}
                            /\ part = 3 => <<img, 2>> \in formatted /\ files[<<img, 2>>] = {}
        /\ pc \in BehindMkfs /\ img = "android" => Cleared(img)

Refreshed ==
  /\ pc \in UpdateLabels => \A i \in Earlier : Complete(i) /\ Fresh(i)
  /\ pc \in MiscLabels => \A i \in Images : Complete(i) /\ Fresh(i)
  /\ Boot /\ Root /\ Data

\* the images come in a fixed order, each once
LEMMA Orders ==
  /\ Images = {Order[c] : c \in 1 .. 4}
  /\ \A c, d \in 1 .. 4 : Order[c] = Order[d] => c = d
  BY DEF Order, Images

\* after one image it is among the earlier ones, after the last one all are
LEMMA EarlierNext ==
  ASSUME TypeOK
  PROVE  /\ img \notin Earlier /\ Earlier \subseteq Images
         /\ cur < 4 /\ cur' = cur + 1 => Earlier' = Earlier \cup {img}
         /\ cur = 4 => Images = Earlier \cup {img}
         /\ cur' = 1 => Earlier' = {}
         /\ cur' = cur => Earlier' = Earlier /\ img' = img
<1>1. cur \in 1 .. 4
  BY DEF TypeOK
<1>2. img \notin Earlier /\ Earlier \subseteq Images
  BY <1>1, Orders DEF Earlier, img
<1>3. cur < 4 /\ cur' = cur + 1 => Earlier' = Earlier \cup {img}
  BY <1>1 DEF Earlier, img
<1>4. cur = 4 => Images = Earlier \cup {img}
  BY <1>1, Orders DEF Earlier, img
<1>5. cur' = 1 => Earlier' = {}
  BY DEF Earlier
<1>6. cur' = cur => Earlier' = Earlier /\ img' = img
  BY DEF Earlier, img
<1>. QED  BY <1>2, <1>3, <1>4, <1>5, <1>6

\* files and file systems of images stay, once they are there
LEMMA Grows ==
  ASSUME [Next]_vars
  PROVE  created \subseteq created' /\ formatted \subseteq formatted'
<1>1. CASE Start
  BY <1>1 DEF Start
<1>2. CASE PCheck \/ PDd \/ PPart \/ PFind \/ PAttach \/ PMkfs \/ PDetach
  BY <1>2 DEF PCheck, PDd, PPart, PFind, Find, PAttach, AttachImage, PMkfs, Format, PDetach, disk
<1>3. CASE UFind \/ UAttach \/ UMount1 \/ UFill1 \/ UUmount1 \/ UGunzip \/ UMount2
  BY <1>3 DEF UFind, Find, UAttach, AttachImage, UMount1, UMount2, MountPart, UFill1, UUmount1,
              UGunzip, disk
<1>4. CASE UWipe2 \/ UFill2 \/ UMkfs \/ UUmount2 \/ UDetach \/ MCheck \/ MDd \/ MMkfs
  BY <1>4 DEF UWipe2, UFill2, UMkfs, Format, UUmount2, UDetach, MCheck, MDd, MMkfs, disk
<1>5. CASE Abort \/ Reboot \/ GuestRun \/ MountRootfs \/ \E l \in Loops : UmountRootfs(l)
  BY <1>5 DEF Abort, Reboot, GuestRun, MountRootfs, UmountRootfs, disk
<1>6. CASE XFind \/ XAttach \/ XMount \/ XUmount \/ XDetach \/ LogcatAttach
  BY <1>6 DEF XFind, LogcatAttach, XAttach, XMount, XUmount, XDetach, disk
<1>7. CASE UNCHANGED vars
  BY <1>7 DEF vars, disk
<1>. QED
  BY <1>1, <1>2, <1>3, <1>4, <1>5, <1>6, <1>7 DEF Next, Script, Environment

\* a run does not take away what is done of another image
LEMMA OthersKept ==
  ASSUME IInv, [Next]_vars, pc \in Running, NEW i \in Images, i # img
  PROVE  /\ Complete(i) => Complete(i)'
         /\ Fresh(i) => Fresh(i)'
<1>1. Complete(i) => Complete(i)'
  BY Grows DEF Complete
<1>2. ASSUME NEW k \in 1 .. 4
      PROVE  files'[<<i, k>>] = files[<<i, k>>]
  <2>1. <<i, k>> \in Volumes /\ <<i, k>>[1] # img
    BY Constants
  <2>. QED  BY <2>1, WritesStayStep
<1>3. Fresh(i) => Fresh(i)'
  <2>1. RootPart(i) \in 1 .. 4 /\ 1 \in 1 .. 4 /\ 2 \in 1 .. 4 /\ 3 \in 1 .. 4
    BY Constants
  <2>. QED  BY <1>2, <2>1, Grows DEF Fresh, Cleared
<1>. QED  BY <1>1, <1>3

\* steps that touch neither the script nor the images change nothing here
LEMMA RefreshedKept ==
  ASSUME Refreshed, UNCHANGED <<pc, cur, part, formatted, files>>
  PROVE  Refreshed'
<1>1. img' = img /\ Earlier' = Earlier
  BY DEF img, Earlier
<1>2. \A i : (Complete(i)' <=> Complete(i)) /\ (Cleared(i)' <=> Cleared(i))
  BY DEF Complete, Cleared
<1>3. \A i : Fresh(i)' <=> Fresh(i)
  BY <1>2 DEF Fresh
<1>4. Boot' /\ Root' /\ Data'
  BY <1>1, <1>2 DEF Refreshed, Boot, Root, Data
<1>. QED  BY <1>1, <1>2, <1>3, <1>4 DEF Refreshed

\* a script that has stopped has promised nothing
LEMMA NoPromise ==
  ASSUME pc' \in Resting
  PROVE  Made' /\ Refreshed'
  BY DEF Made, Refreshed, Boot, Root, Data, BehindMount1, BehindFill1, BehindMount2, BehindFill2,
         BehindMkfs, Resting, PrepareLabels, UpdateLabels, MiscLabels

\* only the last commands of the script end it normally
LEMMA Finished ==
  ASSUME [Next]_vars, pc' = "built", pc # "built"
  PROVE  pc \in MiscLabels /\ UNCHANGED <<created, formatted, files, kernel, tool, found>>
<1>1. CASE Start \/ PCheck \/ PDd \/ PPart \/ PFind \/ PAttach \/ PMkfs \/ PDetach
  BY <1>1 DEF Start, PCheck, NextImage, PDd, PPart, PFind, Find, PAttach, AttachImage, PMkfs,
              PDetach, Goto, OnError
<1>2. CASE UFind \/ UAttach \/ UMount1 \/ UFill1 \/ UUmount1 \/ UGunzip \/ UMount2
  BY <1>2 DEF UFind, Find, UAttach, AttachImage, UMount1, UMount2, MountPart, UFill1, UUmount1,
              UGunzip, Goto, OnError
<1>3. CASE UWipe2 \/ UFill2 \/ UMkfs \/ UUmount2 \/ UDetach
  BY <1>3 DEF UWipe2, UFill2, UMkfs, UUmount2, UDetach, NextImage, Goto, OnError
<1>4. CASE MCheck \/ MDd \/ MMkfs
  BY <1>4 DEF MCheck, MDd, MMkfs, Goto, MiscLabels, disk, hist
<1>5. CASE Abort \/ Reboot \/ GuestRun \/ MountRootfs \/ \E l \in Loops : UmountRootfs(l)
  BY <1>5 DEF Abort, Reboot, GuestRun, MountRootfs, UmountRootfs
<1>6. CASE XFind \/ XAttach \/ XMount \/ XUmount \/ XDetach \/ LogcatAttach \/ UNCHANGED vars
  BY <1>6 DEF XFind, LogcatAttach, XAttach, XMount, XUmount, XDetach, vars
<1>. QED
  BY <1>1, <1>2, <1>3, <1>4, <1>5, <1>6 DEF Next, Script, Environment

\* Every step of prepare_images keeps its promise.
LEMMA MadeStep ==
  ASSUME IInv, Made, [Next]_vars
  PROVE  Made'
<1>. USE DEF Made, PrepareLabels, UpdateLabels, MiscLabels
<1>0. TypeOK /\ img \in Images /\ created \subseteq created'
  BY Constants, Grows DEF IInv, TypeOK, img
<1>1. CASE PCheck
  <2>1. CASE img \in created /\ cur < 4
    BY <1>0, <1>1, <2>1, EarlierNext DEF PCheck, NextImage, Goto, disk
  <2>2. CASE img \in created /\ ~ cur < 4
    <3>1. cur = 4
      BY <1>0, <2>2 DEF TypeOK
    <3>. QED  BY <1>0, <1>1, <2>2, <3>1, EarlierNext DEF PCheck, NextImage, Goto, disk
  <2>3. CASE img \notin created
    BY <1>0, <1>1, <2>3, EarlierNext DEF PCheck, Goto, disk
  <2>. QED  BY <2>1, <2>2, <2>3
<1>2. CASE PDd
  BY <1>0, <1>2, EarlierNext DEF PDd, Goto
<1>3. CASE PPart \/ PFind \/ PAttach \/ PMkfs
  <2>1. cur' = cur /\ pc \in PrepareLabels \ {"p_check", "p_dd"}
    BY <1>3 DEF PPart, PFind, Find, PAttach, AttachImage, PMkfs, shell
  <2>2. pc' \in PrepareLabels \/ pc' = "idle"
    BY <1>3 DEF PPart, PFind, Find, PAttach, AttachImage, PMkfs, Goto, OnError
  <2>. QED  BY <1>0, <2>1, <2>2, EarlierNext
<1>4. CASE PDetach
  <2>1. CASE loopdev \notin Attached
    BY <1>4, <2>1 DEF PDetach, OnError
  <2>2. CASE loopdev \in Attached /\ cur < 4
    BY <1>0, <1>4, <2>2, EarlierNext DEF PDetach, NextImage, Goto, disk
  <2>3. CASE loopdev \in Attached /\ ~ cur < 4
    <3>1. cur = 4
      BY <1>0, <2>3 DEF TypeOK
    <3>. QED  BY <1>0, <1>4, <2>3, <3>1, EarlierNext DEF PDetach, NextImage, Goto, disk
  <2>. QED  BY <2>1, <2>2, <2>3
<1>5. CASE pc \in UpdateLabels \cup MiscLabels /\ pc' \in UpdateLabels \cup MiscLabels \cup Resting
  BY <1>0, <1>5 DEF Resting
<1>6. CASE UFind \/ UAttach \/ UMount1 \/ UFill1 \/ UUmount1 \/ UGunzip \/ UMount2
  BY <1>5, <1>6 DEF UFind, Find, UAttach, AttachImage, UMount1, UMount2, MountPart, UFill1,
                    UUmount1, UGunzip, Goto, OnError, Resting
<1>7. CASE UWipe2 \/ UFill2 \/ UMkfs \/ UUmount2 \/ UDetach \/ MCheck \/ MDd \/ MMkfs
  BY <1>5, <1>7 DEF UWipe2, UFill2, UMkfs, UUmount2, UDetach, NextImage, MCheck, MDd, MMkfs,
                    Goto, OnError, Resting
<1>8. CASE Start
  BY <1>8 DEF Start, Goto, Earlier
<1>9. CASE Abort \/ Reboot
  BY <1>9, NoPromise DEF Abort, Reboot, Resting
<1>10. CASE GuestRun \/ MountRootfs \/ \E l \in Loops : UmountRootfs(l)
  <2>1. pc' \in Resting
    BY <1>10 DEF GuestRun, MountRootfs, UmountRootfs
  <2>. QED  BY <2>1, NoPromise
<1>11. CASE XFind \/ XAttach \/ XMount \/ XUmount \/ XDetach \/ LogcatAttach
  <2>1. UNCHANGED <<pc, cur, created>>
    BY <1>11 DEF XFind, LogcatAttach, XAttach, XMount, XUmount, XDetach, disk, shell
  <2>. QED  BY <2>1, EarlierNext, <1>0
<1>12. CASE UNCHANGED vars
  <2>1. UNCHANGED <<pc, cur, created>>
    BY <1>12 DEF vars, disk, shell
  <2>. QED  BY <2>1, EarlierNext, <1>0
<1>. QED
  BY <1>1, <1>2, <1>3, <1>4, <1>6, <1>7, <1>8, <1>9, <1>10, <1>11, <1>12
     DEF Next, Script, Environment

\* a command of one update function leaves the earlier images as they are
LEMMA EarlierKept ==
  ASSUME IInv, Refreshed, [Next]_vars, pc \in UpdateLabels, cur' = cur
  PROVE  /\ \A i \in Earlier' : Complete(i)' /\ Fresh(i)'
         /\ img' = img
<1>1. Earlier' = Earlier /\ img' = img /\ img \notin Earlier /\ Earlier \subseteq Images
  BY EarlierNext DEF IInv
<1>2. pc \in Running
  BY DEF Running
<1>3. ASSUME NEW i \in Earlier
      PROVE  Complete(i)' /\ Fresh(i)'
  BY <1>1, <1>2, OthersKept DEF Refreshed
<1>. QED  BY <1>1, <1>3

\* at the end of an update function its image is complete and fresh
LEMMA ImageDone ==
  ASSUME IInv, Refreshed, pc = "u_detach"
  PROVE  Complete(img) /\ Fresh(img)
<1>1. /\ <<img, 1>> \in formatted /\ Overlaid(files[<<img, 1>>], img)
      /\ <<img, RootPart(img)>> \in formatted /\ Refilled(files[<<img, RootPart(img)>>], img)
      /\ img = "android" => Cleared(img)
  BY DEF Refreshed, Boot, Root, Data, BehindMount1, BehindFill1, BehindMount2, BehindFill2,
         BehindMkfs, UpdateLabels
<1>2. Fresh(img)
  BY <1>1 DEF Fresh
<1>3. CASE img = "android"
  <2>1. \A k \in 1 .. 4 : k = 1 \/ k = 2 \/ k = 3 \/ k = 4
    OBVIOUS
  <2>. QED  BY <1>1, <1>2, <1>3, <2>1 DEF Complete, Cleared, PartCount, RootPart
<1>4. CASE img # "android"
  <2>1. \A k \in 1 .. 2 : k = 1 \/ k = 2
    OBVIOUS
  <2>. QED  BY <1>1, <1>2, <1>4, <2>1 DEF Complete, PartCount, RootPart
<1>. QED  BY <1>3, <1>4

\* Every step of update_rootfs_for_* keeps its promise.
LEMMA RefreshedStep ==
  ASSUME IInv, NoForeignPayload, Refreshed, [Next]_vars
  PROVE  Refreshed'
<1>. DEFINE B == Boot' /\ Root' /\ Data'
<1>0. /\ TypeOK /\ img \in Images /\ formatted \subseteq formatted'
      /\ <<img, 1>> \in Volumes /\ <<img, RootPart(img)>> \in Volumes
      /\ RootPart(img) # 1
      /\ pc \in HoldsLoop => backing[loopdev] = img
  <2>1. TypeOK /\ img \in Images /\ formatted \subseteq formatted'
    BY Constants, Grows DEF IInv, TypeOK, img
  <2>2. /\ <<img, 1>> \in Volumes /\ <<img, RootPart(img)>> \in Volumes
        /\ RootPart(img) # 1
    <3>1. RootPart(img) \in 1 .. 4 /\ RootPart(img) # 1 /\ 1 \in 1 .. 4
      BY <2>1, Constants DEF RootPart
    <3>. QED  BY <2>1, <3>1, Constants
  <2>3. pc \in HoldsLoop => backing[loopdev] = img
    BY DEF IInv, OwnLoop
  <2>. QED  BY <2>1, <2>2, <2>3
<1>1. ASSUME pc \in UpdateLabels, pc' \in UpdateLabels, cur' = cur, B
      PROVE  Refreshed'
  BY <1>1, EarlierKept DEF Refreshed, UpdateLabels, MiscLabels
<1>2. CASE UFind \/ UAttach
  <2>1. pc \in UpdateLabels /\ cur' = cur /\ (pc' \in {"u_attach", "u_mount1"} \/ pc' = "idle")
    BY <1>2 DEF UFind, Find, UAttach, AttachImage, Goto, OnError, UpdateLabels, shell
  <2>2. CASE pc' = "idle"
    BY <2>2, NoPromise DEF Resting
  <2>3. CASE pc' \in {"u_attach", "u_mount1"}
    <3>1. B
      BY <2>3 DEF Boot, Root, Data, BehindMount1, BehindFill1, BehindMount2, BehindFill2,
                  BehindMkfs, UpdateLabels
    <3>2. pc' \in UpdateLabels
      BY <2>3 DEF UpdateLabels
    <3>. QED  BY <1>1, <2>1, <3>1, <3>2
  <2>. QED  BY <2>1, <2>2, <2>3
<1>3. CASE UMount1
  <2>1. CASE CanMount(loopdev, 1)
    <3>1. pc = "u_mount1" /\ pc' = "u_fill1" /\ cur' = cur
      BY <1>3, <2>1 DEF UMount1, MountPart, Goto, shell
    <3>2. <<img, 1>> \in formatted' /\ img' = img
      BY <1>0, <2>1, <3>1, EarlierNext DEF CanMount, Attached, HoldsLoop, UpdateLabels
    <3>3. B
      BY <3>1, <3>2 DEF Boot, Root, Data, BehindMount1, BehindFill1, BehindMount2, BehindFill2,
                        BehindMkfs, UpdateLabels
    <3>. QED  BY <1>1, <3>1, <3>3 DEF UpdateLabels
  <2>2. CASE ~ CanMount(loopdev, 1)
    BY <1>3, <2>2, NoPromise DEF UMount1, MountPart, OnError, Resting
  <2>. QED  BY <2>1, <2>2
<1>4. CASE UFill1
  <2>1. pc = "u_fill1" /\ pc' = "u_umount1" /\ cur' = cur
    BY <1>4 DEF UFill1, Goto, shell
  <2>2. img' = img /\ <<img, 1>> \in formatted'
    BY <1>0, <2>1, EarlierNext DEF Refreshed, Boot, BehindMount1, UpdateLabels
  <2>3. files'[<<img, 1>>] = {t \in files[<<img, 1>>] : t.name # "listed"} \cup {New(img)}
    <3>1. Where(1) = <<img, 1>>
      BY <2>1, OwnVolume DEF HoldsP1
    <3>. QED  BY <1>0, <1>4, <3>1 DEF UFill1, TypeOK
  <2>5. Overlaid(files'[<<img, 1>>], img)
    BY <2>3 DEF Overlaid
  <2>6. B
    BY <2>1, <2>2, <2>5 DEF Boot, Root, Data, BehindMount1, BehindFill1, BehindMount2,
                            BehindFill2, BehindMkfs, UpdateLabels
  <2>. QED  BY <1>1, <2>1, <2>6 DEF UpdateLabels
<1>5. CASE UUmount1 \/ UGunzip
  <2>1. /\ pc \in {"u_umount1", "u_gunzip"} /\ pc' \in {"u_gunzip", "u_mount2", "idle"}
        /\ cur' = cur /\ files' = files
    BY <1>5 DEF UUmount1, UGunzip, Goto, OnError, disk, shell
  <2>2. CASE pc' = "idle"
    BY <2>2, NoPromise DEF Resting
  <2>3. CASE pc' # "idle"
    <3>1. img' = img /\ <<img, 1>> \in formatted' /\ Overlaid(files'[<<img, 1>>], img)
      BY <1>0, <2>1, EarlierNext DEF Refreshed, Boot, BehindMount1, BehindFill1, UpdateLabels
    <3>2. B
      BY <2>1, <2>3, <3>1 DEF Boot, Root, Data, BehindMount1, BehindFill1, BehindMount2,
                              BehindFill2, BehindMkfs, UpdateLabels
    <3>. QED  BY <1>1, <2>1, <2>3, <3>2 DEF UpdateLabels
  <2>. QED  BY <2>2, <2>3
<1>6. CASE UMount2
  <2>1. CASE CanMount(loopdev, RootPart(img))
    <3>1. pc = "u_mount2" /\ pc' = "u_wipe2" /\ cur' = cur /\ files' = files
      BY <1>6, <2>1 DEF UMount2, MountPart, Goto, disk, shell
    <3>2. <<img, RootPart(img)>> \in formatted' /\ img' = img
      BY <1>0, <2>1, <3>1, EarlierNext DEF CanMount, Attached, HoldsLoop, UpdateLabels
    <3>3. <<img, 1>> \in formatted' /\ Overlaid(files'[<<img, 1>>], img)
      BY <1>0, <3>1 DEF Refreshed, Boot, BehindMount1, BehindFill1, UpdateLabels
    <3>4. B
      BY <3>1, <3>2, <3>3 DEF Boot, Root, Data, BehindMount1, BehindFill1, BehindMount2,
                              BehindFill2, BehindMkfs, UpdateLabels
    <3>. QED  BY <1>1, <3>1, <3>4 DEF UpdateLabels
  <2>2. CASE ~ CanMount(loopdev, RootPart(img))
    BY <1>6, <2>2, NoPromise DEF UMount2, MountPart, OnError, Resting
  <2>. QED  BY <2>1, <2>2
<1>7. CASE UWipe2
  <2>1. pc = "u_wipe2" /\ pc' = "u_fill2" /\ cur' = cur
    BY <1>7 DEF UWipe2, Goto, shell
  <2>2. /\ img' = img /\ <<img, 1>> \in formatted' /\ <<img, RootPart(img)>> \in formatted'
        /\ Overlaid(files[<<img, 1>>], img)
    BY <1>0, <2>1, EarlierNext DEF Refreshed, Boot, Root, BehindMount1, BehindFill1,
                                   BehindMount2, UpdateLabels
  <2>3. Where(2) = <<img, RootPart(img)>>
    BY <2>1, OwnVolume DEF HoldsP2
  <2>4. \A t \in files'[<<img, RootPart(img)>>] : t.name = "dot"
    BY <1>0, <1>7, <2>3 DEF UWipe2, Wiped, TypeOK
  <2>5. Overlaid(files'[<<img, 1>>], img)
    <3>1. files' = [files EXCEPT ![<<img, RootPart(img)>>] = Wiped(@)]
      BY <1>7, <2>3 DEF UWipe2
    <3>2. <<img, 1>> # <<img, RootPart(img)>>
      BY <1>0
    <3>. QED  BY <1>0, <2>2, <3>1, <3>2 DEF TypeOK
  <2>6. B
    BY <2>1, <2>2, <2>4, <2>5 DEF Boot, Root, Data, BehindMount1, BehindFill1, BehindMount2,
                                  BehindFill2, BehindMkfs, UpdateLabels
  <2>. QED  BY <1>1, <2>1, <2>6 DEF UpdateLabels
<1>8. CASE UFill2
  <2>1. /\ pc = "u_fill2" /\ pc' = (IF img = "android" THEN "u_mkfs" ELSE "u_umount2")
        /\ cur' = cur /\ part' = 2
    BY <1>8 DEF UFill2, Goto
  <2>2. /\ img' = img /\ <<img, 1>> \in formatted' /\ <<img, RootPart(img)>> \in formatted'
        /\ Overlaid(files[<<img, 1>>], img)
        /\ \A t \in files[<<img, RootPart(img)>>] : t.name = "dot"
    BY <1>0, <2>1, EarlierNext DEF Refreshed, Boot, Root, BehindMount1, BehindFill1,
                                   BehindMount2, UpdateLabels
  <2>3. Where(2) = <<img, RootPart(img)>>
    BY <2>1, OwnVolume DEF HoldsP2
  <2>4. (IF UsesCpio(img) THEN cpio ELSE img) = img
    BY <2>1 DEF IInv, ArchiveIsOwn
  <2>5. Refilled(files'[<<img, RootPart(img)>>], img)
    <3>1. files'[<<img, RootPart(img)>>] = files[<<img, RootPart(img)>>] \cup {New(img)}
      BY <1>0, <1>8, <2>3, <2>4 DEF UFill2, TypeOK
    <3>. QED  BY <2>2, <3>1 DEF Refilled
  <2>6. Overlaid(files'[<<img, 1>>], img)
    BY <1>0, <1>8, <2>2, <2>3 DEF UFill2, TypeOK
  <2>7. Boot' /\ Root'
    BY <2>1, <2>2, <2>5, <2>6 DEF Boot, Root, BehindMount1, BehindFill1, BehindMount2,
                                  BehindFill2, UpdateLabels
  <2>8. Data'
    BY <2>1, <2>2 DEF Data, BehindMkfs
  <2>. QED  BY <1>1, <2>1, <2>7, <2>8 DEF UpdateLabels
<1>9. CASE UMkfs
  <2>1. CASE CanFormat(loopdev, part)
    <3>1. pc = "u_mkfs" /\ cur' = cur /\ pc' = (IF part < 3 THEN "u_mkfs" ELSE "u_umount2")
      BY <1>9, <2>1 DEF UMkfs, Goto
    <3>2. /\ img' = img /\ <<img, 1>> \in formatted' /\ <<img, RootPart(img)>> \in formatted'
          /\ Overlaid(files[<<img, 1>>], img) /\ Refilled(files[<<img, RootPart(img)>>], img)
      BY <1>0, <3>1, EarlierNext DEF Refreshed, Boot, Root, BehindMount1, BehindFill1,
                                     BehindMount2, BehindFill2, UpdateLabels
    <3>3. /\ img = "android" /\ part \in {2, 3}
          /\ part = 3 => <<img, 2>> \in formatted /\ files[<<img, 2>>] = {}
      BY <3>1 DEF Refreshed, Data
    <3>4. /\ formatted' = formatted \cup {<<img, part>>}
          /\ files' = [files EXCEPT ![<<img, part>>] = {}]
      BY <1>0, <1>9, <2>1, <3>1 DEF UMkfs, Format, HoldsLoop, UpdateLabels
    <3>5. /\ <<img, 2>> \in Volumes /\ <<img, 3>> \in Volumes
          /\ RootPart(img) = 4
      BY <3>3 DEF Volumes, Images, RootPart
    <3>6. Overlaid(files'[<<img, 1>>], img) /\ Refilled(files'[<<img, RootPart(img)>>], img)
      <4>1. part # 1 /\ part # RootPart(img)
        BY <3>3, <3>5
      <4>2. <<img, part>> # <<img, 1>> /\ <<img, part>> # <<img, RootPart(img)>>
        BY <4>1
      <4>. QED  BY <1>0, <3>2, <3>4, <4>2 DEF TypeOK
    <3>7. Boot' /\ Root'
      BY <3>1, <3>2, <3>6 DEF Boot, Root, BehindMount1, BehindFill1, BehindMount2,
                              BehindFill2, UpdateLabels
    <3>8. CASE part = 2
      <4>1. /\ part' = 3 /\ pc' = "u_mkfs"
            /\ <<img, 2>> \in formatted' /\ files'[<<img, 2>>] = {}
        BY <1>0, <1>9, <2>1, <3>1, <3>4, <3>5, <3>8 DEF UMkfs, Goto, TypeOK
      <4>2. Data'
        BY <3>2, <3>3, <4>1 DEF Data, BehindMkfs
      <4>. QED  BY <1>1, <3>1, <3>7, <4>1, <4>2 DEF UpdateLabels
    <3>9. CASE part = 3
      <4>1. /\ pc' = "u_umount2"
            /\ <<img, 3>> \in formatted' /\ files'[<<img, 3>>] = {}
        BY <1>0, <3>1, <3>4, <3>5, <3>9 DEF TypeOK
      <4>2. <<img, 2>> \in formatted' /\ files'[<<img, 2>>] = {}
        BY <1>0, <3>3, <3>4, <3>5, <3>9 DEF TypeOK
      <4>3. Data'
        BY <3>2, <4>1, <4>2 DEF Data, BehindMkfs, Cleared
      <4>. QED  BY <1>1, <3>1, <3>7, <4>1, <4>3 DEF UpdateLabels
    <3>. QED  BY <3>3, <3>8, <3>9
  <2>2. CASE ~ CanFormat(loopdev, part)
    BY <1>9, <2>2, NoPromise DEF UMkfs, OnError, Resting
  <2>. QED  BY <2>1, <2>2
<1>10. CASE UUmount2
  <2>1. CASE CanUnmount(2)
    <3>1. /\ pc = "u_umount2" /\ pc' = "u_detach" /\ cur' = cur /\ files' = files
      BY <1>10, <2>1 DEF UUmount2, Goto, disk, shell
    <3>2. /\ img' = img /\ <<img, 1>> \in formatted' /\ <<img, RootPart(img)>> \in formatted'
          /\ Overlaid(files'[<<img, 1>>], img) /\ Refilled(files'[<<img, RootPart(img)>>], img)
      BY <1>0, <3>1, EarlierNext DEF Refreshed, Boot, Root, BehindMount1, BehindFill1,
                                     BehindMount2, BehindFill2, UpdateLabels
    <3>3. img = "android" => Cleared(img)'
      BY <1>0, <3>1, <3>2 DEF Refreshed, Data, BehindMkfs, Cleared
    <3>4. B
      BY <3>1, <3>2, <3>3 DEF Boot, Root, Data, BehindMount1, BehindFill1, BehindMount2,
                              BehindFill2, BehindMkfs, UpdateLabels
    <3>. QED  BY <1>1, <3>1, <3>4 DEF UpdateLabels
  <2>2. CASE ~ CanUnmount(2)
    BY <1>10, <2>2, NoPromise DEF UUmount2, OnError, Resting
  <2>. QED  BY <2>1, <2>2
<1>11. CASE UDetach
  <2>1. CASE loopdev \notin Attached
    BY <1>11, <2>1, NoPromise DEF UDetach, OnError, Resting
  <2>2. CASE loopdev \in Attached
    <3>1. pc = "u_detach" /\ UNCHANGED <<formatted, files>>
      BY <1>11 DEF UDetach, disk
    <3>2. \A i \in Earlier \cup {img} : Complete(i)' /\ Fresh(i)'
      BY <3>1, ImageDone DEF Refreshed, UpdateLabels, Complete, Fresh, Cleared
    <3>3. CASE cur < 4
      <4>1. pc' = "u_find" /\ cur' = cur + 1
        BY <1>11, <2>2, <3>3 DEF UDetach, NextImage, Goto
      <4>2. Earlier' = Earlier \cup {img}
        BY <1>0, <3>3, <4>1, EarlierNext
      <4>. QED  BY <3>2, <4>1, <4>2
                DEF Refreshed, Boot, Root, Data, BehindMount1, BehindFill1, BehindMount2,
                    BehindFill2, BehindMkfs, UpdateLabels, MiscLabels
    <3>4. CASE ~ cur < 4
      <4>1. pc' = "m_check" /\ cur = 4
        BY <1>0, <1>11, <2>2, <3>4 DEF UDetach, NextImage, Goto, TypeOK
      <4>2. Images = Earlier \cup {img}
        BY <1>0, <4>1, EarlierNext
      <4>. QED  BY <3>2, <4>1, <4>2
                DEF Refreshed, Boot, Root, Data, BehindMount1, BehindFill1, BehindMount2,
                    BehindFill2, BehindMkfs, UpdateLabels, MiscLabels
    <3>. QED  BY <3>3, <3>4
  <2>. QED  BY <2>1, <2>2
<1>12. CASE MCheck \/ MDd \/ MMkfs
  <2>1. /\ pc \in MiscLabels /\ pc' \in MiscLabels \cup {"built"}
        /\ UNCHANGED <<formatted, files>>
    BY <1>12 DEF MCheck, MDd, MMkfs, Goto, MiscLabels, disk
  <2>2. CASE pc' = "built"
    BY <2>2, NoPromise DEF Resting
  <2>3. CASE pc' \in MiscLabels
    <3>1. \A i \in Images : Complete(i)' /\ Fresh(i)'
      BY <2>1 DEF Refreshed, Complete, Fresh, Cleared
    <3>. QED  BY <2>3, <3>1
              DEF Refreshed, Boot, Root, Data, BehindMount1, BehindFill1, BehindMount2,
                  BehindFill2, BehindMkfs, UpdateLabels, MiscLabels
  <2>. QED  BY <2>1, <2>2, <2>3
<1>13. CASE Start \/ PCheck \/ PDd \/ PPart \/ PFind \/ PAttach \/ PMkfs \/ PDetach
  <2>1. pc' \in PrepareLabels \cup Resting \/ (pc' = "u_find" /\ cur' = 1)
    BY <1>13 DEF Start, PCheck, NextImage, PDd, PPart, PFind, Find, PAttach, AttachImage, PMkfs,
                 PDetach, Goto, OnError, PrepareLabels, Resting
  <2>2. cur' = 1 => Earlier' = {}
    BY <1>0, EarlierNext
  <2>. QED  BY <2>1, <2>2
            DEF Refreshed, Boot, Root, Data, BehindMount1, BehindFill1, BehindMount2,
                BehindFill2, BehindMkfs, PrepareLabels, UpdateLabels, MiscLabels, Resting
<1>14. CASE Abort \/ Reboot
  BY <1>14, NoPromise DEF Abort, Reboot, Resting
<1>15. CASE GuestRun \/ MountRootfs \/ \E l \in Loops : UmountRootfs(l)
  <2>1. pc' \in Resting
    BY <1>15 DEF GuestRun, MountRootfs, UmountRootfs
  <2>. QED  BY <2>1, NoPromise
<1>16. CASE XFind \/ XAttach \/ XMount \/ XUmount \/ XDetach \/ LogcatAttach \/ UNCHANGED vars
  <2>1. UNCHANGED <<pc, cur, part, formatted, files>>
    BY <1>16 DEF XFind, LogcatAttach, XAttach, XMount, XUmount, XDetach, vars, disk, shell
  <2>. QED  BY <2>1, RefreshedKept
<1>. QED
  BY <1>2, <1>3, <1>4, <1>5, <1>6, <1>7, <1>8, <1>9, <1>10, <1>11, <1>12, <1>13, <1>14, <1>15,
     <1>16
     DEF Next, Script, Environment

\* What a run has completed, in every reachable state.
Promise == IInv /\ NoForeignPayload /\ Made /\ Refreshed /\ BuiltImagesUsable
THEOREM Promised == Spec => []Promise
<1>1. Init => Promise
  BY InitIInv DEF Init, Promise, NoForeignPayload, Made, Refreshed, Boot, Root, Data, BehindMount1,
                  BehindFill1, BehindMount2, BehindFill2, BehindMkfs, PrepareLabels, UpdateLabels,
                  MiscLabels, BuiltImagesUsable
<1>2. ASSUME Promise, [Next]_vars
      PROVE  Promise'
  <2>1. IInv' /\ NoForeignPayload' /\ Made' /\ Refreshed'
    BY <1>2, StepIInv, NoForeignStep, MadeStep, RefreshedStep DEF Promise
  <2>2. BuiltImagesUsable'
    <3>1. ASSUME pc' = "built", pc # "built"
          PROVE  \A i \in Images : Usable(i)
      BY <1>2, <3>1, Finished DEF Promise, Usable, Made, Refreshed, Complete, MiscLabels
    <3>2. ASSUME pc' = "built"
          PROVE  \A i \in Images : Usable(i)
      BY <1>2, <3>1, <3>2 DEF Promise, BuiltImagesUsable
    <3>. QED  BY <1>2, <3>2, Grows DEF BuiltImagesUsable, Usable
  <2>. QED  BY <2>1, <2>2 DEF Promise
<1>3. Promise /\ [Next]_vars => Promise'
  BY <1>2
<1>. QED  BY <1>1, <1>3, PTL DEF Spec

\* When a run has ended, every image has a file and a file system in each of
\* its partitions, whatever earlier runs left behind.
THEOREM BuiltUsable == Spec => []BuiltImagesUsable
<1>1. Promise => BuiltImagesUsable
  BY DEF Promise
<1>. QED  BY <1>1, Promised, PTL

\* A run that ends has put its own files over every boot partition and every root
\* partition, of whose older files only some dot-files are left, and cleared
\* Android's data.
THEOREM Freshness == Spec => BuildsAreFresh
<1>1. ASSUME Promise, [Next]_vars, pc' = "built", pc # "built"
      PROVE  /\ \A i \in Images : /\ Overlaid(files'[<<i, 1>>], i)
                                  /\ Refilled(files'[<<i, RootPart(i)>>], i)
             /\ files'[<<"android", 2>>] = {} /\ files'[<<"android", 3>>] = {}
  <2>1. pc \in MiscLabels /\ files' = files
    BY <1>1, Finished
  <2>2. \A i \in Images : Fresh(i)
    BY <1>1, <2>1 DEF Promise, Refreshed
  <2>3. "android" \in Images
    BY DEF Images
  <2>4. Cleared("android")
    BY <2>2, <2>3 DEF Fresh
  <2>. QED  BY <2>1, <2>2, <2>4 DEF Fresh, Cleared
<1>2. Promise /\ [Next]_vars =>
        [pc' = "built" /\ pc # "built" =>
           /\ \A i \in Images : /\ Overlaid(files'[<<i, 1>>], i)
                                /\ Refilled(files'[<<i, RootPart(i)>>], i)
           /\ files'[<<"android", 2>>] = {} /\ files'[<<"android", 3>>] = {}]_vars
  BY <1>1
<1>. QED  BY <1>2, Promised, PTL DEF Spec, BuildsAreFresh

-----------------------------------------------------------------------------
(* What a run leaves behind: the loop devices and mounts it found.         *)

MountedOn(l, m) == \E d \in Dirs : \E n \in 1 .. Len(m[d]) : m[d][n].loop = l

\* the devices of mounts are attached, a device that waits for its release is
\* mounted, and what the tool holds is mounted on none of the two directories
MountsSound ==
  /\ \A l \in Loops : MountedOn(l, mounts) => backing[l] # Free
  /\ \A l \in autoclear : MountedOn(l, mounts)
  /\ \A l \in ToolLoops : ~ MountedOn(l, mounts)

\* beside the tool's, the devices attached are those found and the script's
\* own, which no mount that was found uses
OwnLoops == IF pc \in HoldsLoop THEN {loopdev} ELSE {}
Traced ==
  /\ pc \in Running => Attached \ ToolLoops = found.loops \cup OwnLoops
  /\ pc \in HoldsLoop => loopdev \notin found.loops /\ ~ MountedOn(loopdev, found.mounts)

\* n is m with mounts of the device l added
Grown(n, m, l) ==
  \A d \in Dirs : n[d] = m[d] \/ \E e \in Mounts : e.loop = l /\ n[d] = Append(m[d], e)

\* added mounts take no device off and bring no other than their own
LEMMA MountedGrown ==
  ASSUME NEW m \in [Dirs -> Seq(Mounts)], NEW n, NEW l, Grown(n, m, l), NEW x
  PROVE  /\ MountedOn(x, m) => MountedOn(x, n)
         /\ MountedOn(x, n) => MountedOn(x, m) \/ x = l
<1>1. ASSUME NEW c \in Dirs, NEW k \in 1 .. Len(m[c]), m[c][k].loop = x
      PROVE  k \in 1 .. Len(n[c]) /\ n[c][k].loop = x
  <2>1. CASE n[c] = m[c]
    BY <1>1, <2>1
  <2>2. ASSUME NEW e \in Mounts, n[c] = Append(m[c], e)
        PROVE  k \in 1 .. Len(n[c]) /\ n[c][k].loop = x
    <3>1. /\ m[c] \in Seq(Mounts) /\ Len(n[c]) = Len(m[c]) + 1
          /\ n[c][k] = m[c][k]
      BY <2>2
    <3>. QED  BY <1>1, <3>1
  <2>. QED  BY <2>1, <2>2 DEF Grown
<1>2. ASSUME NEW c \in Dirs, NEW k \in 1 .. Len(n[c]), n[c][k].loop = x, x # l
      PROVE  k \in 1 .. Len(m[c]) /\ m[c][k].loop = x
  <2>1. CASE n[c] = m[c]
    BY <1>2, <2>1
  <2>2. ASSUME NEW e \in Mounts, e.loop = l, n[c] = Append(m[c], e)
        PROVE  k \in 1 .. Len(m[c]) /\ m[c][k].loop = x
    <3>1. m[c] \in Seq(Mounts) /\ Len(n[c]) = Len(m[c]) + 1 /\ n[c][Len(m[c]) + 1] = e
      BY <2>2
    <3>2. k # Len(m[c]) + 1
      BY <1>2, <2>2, <3>1
    <3>3. k \in 1 .. Len(m[c])
      BY <3>1, <3>2
    <3>. QED  BY <1>2, <2>2, <3>1, <3>3
  <2>. QED  BY <2>1, <2>2 DEF Grown
<1>. QED  BY <1>1, <1>2 DEF MountedOn

\* fewer mounts use fewer devices
LEMMA MountedPop ==
  ASSUME NEW m \in [Dirs -> Seq(Mounts)], NEW x, NEW n,
         n = [d \in Dirs |-> IF m[d] = << >> THEN << >> ELSE Pop(m[d])], MountedOn(x, n)
  PROVE  MountedOn(x, m)
<1>0. PICK d \in Dirs : \E k \in 1 .. Len(n[d]) : n[d][k].loop = x
  BY DEF MountedOn
<1>1. PICK k \in 1 .. Len(n[d]) : n[d][k].loop = x
  BY <1>0
<1>2. m[d] \in Seq(Mounts) /\ m[d] # << >> /\ n[d] = Pop(m[d])
  BY <1>1
<1>3. k \in 1 .. Len(m[d]) /\ n[d][k] = m[d][k]
  BY <1>1, <1>2 DEF Pop
<1>. QED  BY <1>1, <1>3 DEF MountedOn

\* umount takes the script's own mount off, and releases nothing else
LEMMA UnmountOwn ==
  ASSUME IInv, MountsSound, NEW d \in Dirs, NEW k \in 1 .. 4, pc \in HoldsLoop,
         mounts[d] = Append(found.mounts[d], OwnMount(k)),
         \A c \in Dirs \ {d} : mounts[c] = found.mounts[c],
         UnmountFrom(d)
  PROVE  UNCHANGED <<backing, autoclear>> /\ mounts' = found.mounts
<1>1. /\ mounts \in [Dirs -> Seq(Mounts)] /\ found.mounts \in [Dirs -> Seq(Mounts)]
      /\ OwnMount(k) \in Mounts /\ autoclear \in SUBSET Loops
      /\ backing \in [Loops -> Images \cup {Free}]
      /\ loopdev \notin autoclear
  BY Constants DEF IInv, TypeOK, OwnLoop, OwnMount, Mounts, img
<1>2. Pop(mounts[d]) = found.mounts[d]
  BY <1>1, PopAppend
<1>3. mounts' = found.mounts
  BY <1>1, <1>2 DEF UnmountFrom
<1>4. Grown(mounts, found.mounts, loopdev)
  BY <1>1 DEF Grown, OwnMount
<1>5. ASSUME NEW l \in autoclear
      PROVE  InUse(l, mounts', tpc)
  <2>1. MountedOn(l, mounts)
    BY DEF MountsSound
  <2>2. MountedOn(l, found.mounts)
    BY <1>1, <1>4, <2>1, MountedGrown
  <2>. QED  BY <1>3, <2>2 DEF MountedOn, InUse
<1>6. {l \in autoclear : ~ InUse(l, mounts', tpc)} = {}
  BY <1>5
<1>. QED  BY <1>1, <1>3, <1>6 DEF UnmountFrom, Release

\* while the script has mounted nothing, both stacks are as it found them
LEMMA StacksAsFound ==
  ASSUME IInv, pc \in Running, pc \notin HoldsP1 \cup HoldsP2
  PROVE  mounts = found.mounts
<1>1. mounts \in [Dirs -> Seq(Mounts)] /\ found.mounts \in [Dirs -> Seq(Mounts)]
  BY DEF IInv, TypeOK
<1>2. mounts[1] = found.mounts[1] /\ mounts[2] = found.mounts[2]
  BY DEF IInv, StackDiscipline
<1>3. \A d \in Dirs : mounts[d] = found.mounts[d]
  BY <1>2 DEF Dirs
<1>. QED  BY <1>1, <1>3

\* losetup -d at the end of an image function frees the script's device at
\* once: nothing is mounted from it any more
LEMMA DetachOwn ==
  ASSUME IInv, Traced, pc \in {"p_detach", "u_detach"}, Detach(loopdev)
  PROVE  /\ backing' = [backing EXCEPT ![loopdev] = Free] /\ autoclear' = autoclear
         /\ ~ MountedOn(loopdev, mounts)
<1>1. pc \in HoldsLoop /\ pc \in Running /\ pc \notin HoldsP1 \cup HoldsP2
  BY DEF HoldsLoop, Running, PrepareLabels, UpdateLabels, HoldsP1, HoldsP2
<1>2. mounts = found.mounts
  BY <1>1, StacksAsFound
<1>3. ~ MountedOn(loopdev, mounts)
  BY <1>1, <1>2 DEF Traced
<1>4. loopdev \notin ToolLoops \cup autoclear
  BY <1>1 DEF IInv, OwnLoop
<1>5. ~ InUse(loopdev, mounts, tpc)
  BY <1>3, <1>4 DEF InUse, MountedOn, ToolLoops
<1>. QED  BY <1>3, <1>4, <1>5 DEF Detach

\* the umount commands of the script undo its mount and move nothing else
LEMMA UnmountSteps ==
  ASSUME IInv, MountsSound, UUmount1 \/ UUmount2
  PROVE  /\ UNCHANGED <<backing, autoclear, tool>>
         /\ pc' \in Running => mounts' = found.mounts /\ Grown(mounts, found.mounts, loopdev)
         /\ pc' \in Running \/ UNCHANGED mounts
<1>0. /\ mounts \in [Dirs -> Seq(Mounts)] /\ found.mounts \in [Dirs -> Seq(Mounts)]
      /\ 1 \in Dirs /\ 2 \in Dirs /\ 1 \in 1 .. 4 /\ RootPart(img) \in 1 .. 4
      /\ pc \in HoldsLoop /\ pc \in Running
  BY Constants DEF IInv, TypeOK, Dirs, img, UUmount1, UUmount2, HoldsLoop, Running, UpdateLabels
<1>1. ASSUME NEW d \in Dirs, NEW k \in 1 .. 4, mounts[d] = Append(found.mounts[d], OwnMount(k)),
             \A c \in Dirs \ {d} : mounts[c] = found.mounts[c]
      PROVE  Grown(mounts, found.mounts, loopdev)
  <2>1. OwnMount(k) \in Mounts /\ OwnMount(k).loop = loopdev
    BY <1>0, Constants DEF IInv, OwnLoop, OwnMount, Mounts, TypeOK, img
  <2>. QED  BY <1>1, <2>1 DEF Grown
<1>2. CASE UUmount1
  <2>1. CASE CanUnmount(1)
    <3>1. UnmountFrom(1) /\ pc \in HoldsP1 /\ pc \notin HoldsP2 /\ UNCHANGED tool
      BY <1>2, <2>1 DEF UUmount1, HoldsP1, HoldsP2
    <3>2. /\ mounts[1] = Append(found.mounts[1], OwnMount(1))
          /\ \A c \in Dirs \ {1} : mounts[c] = found.mounts[c]
      BY <1>0, <3>1 DEF IInv, StackDiscipline, Dirs
    <3>3. pc' \in Running
      BY <1>2, <2>1 DEF UUmount1, Goto, Running, UpdateLabels
    <3>. QED  BY <1>0, <1>1, <3>1, <3>2, <3>3, UnmountOwn
  <2>2. CASE ~ CanUnmount(1)
    BY <1>2, <2>2 DEF UUmount1, OnError, Running, PrepareLabels, UpdateLabels, MiscLabels, kernel
  <2>. QED  BY <2>1, <2>2
<1>3. CASE UUmount2
  <2>1. CASE CanUnmount(2)
    <3>1. UnmountFrom(2) /\ pc \in HoldsP2 /\ pc \notin HoldsP1 /\ UNCHANGED tool
      BY <1>3, <2>1 DEF UUmount2, HoldsP1, HoldsP2
    <3>2. /\ mounts[2] = Append(found.mounts[2], OwnMount(RootPart(img)))
          /\ \A c \in Dirs \ {2} : mounts[c] = found.mounts[c]
      BY <1>0, <3>1 DEF IInv, StackDiscipline, Dirs
    <3>3. pc' \in Running
      BY <1>3, <2>1 DEF UUmount2, Goto, Running, UpdateLabels
    <3>. QED  BY <1>0, <1>1, <3>1, <3>2, <3>3, UnmountOwn
  <2>2. CASE ~ CanUnmount(2)
    BY <1>3, <2>2 DEF UUmount2, OnError, Running, PrepareLabels, UpdateLabels, MiscLabels, kernel
  <2>. QED  BY <2>1, <2>2
<1>. QED  BY <1>2, <1>3

\* the tool's umount releases no device of anybody else
LEMMA XUmountQuiet ==
  ASSUME IInv, MountsSound, XUmount
  PROVE  UNCHANGED kernel /\ ToolLoops' = ToolLoops
<1>1. \A l \in autoclear : InUse(l, mounts, "detach")
  BY DEF MountsSound, MountedOn, InUse
<1>2. {l \in autoclear : ~ InUse(l, mounts, "detach")} = {}
  BY <1>1
<1>3. UNCHANGED <<backing, autoclear>>
  <2>1. /\ backing' = [l \in Loops |-> backing[l]]
        /\ autoclear' = autoclear \ {}
    BY <1>2 DEF XUmount, Release
  <2>. QED  BY <2>1 DEF IInv, TypeOK
<1>. QED  BY <1>3 DEF XUmount, kernel, ToolLoops

\* the tool's losetup -d frees its device at once
LEMMA XDetachEffect ==
  ASSUME IInv, MountsSound, XDetach
  PROVE  /\ backing' = [backing EXCEPT ![tloop] = Free] /\ UNCHANGED <<autoclear, mounts>>
         /\ ToolLoops = {tloop} /\ ToolLoops' = {} /\ ~ MountedOn(tloop, mounts)
<1>1. tpc = "detach" /\ ToolLoops = {tloop} /\ ToolLoops' = {}
  BY DEF XDetach, ToolLoops
<1>2. tloop \in Loops /\ ~ MountedOn(tloop, mounts) /\ tloop \notin autoclear
  BY <1>1 DEF MountsSound, IInv, DevicesSound
<1>3. ~ InUse(tloop, mounts, tpc)
  BY <1>1, <1>2 DEF InUse, MountedOn
<1>. QED  BY <1>1, <1>2, <1>3 DEF XDetach, Detach

\* what is true of the devices and mounts stays true while nobody moves them
LEMMA MountsKept ==
  ASSUME MountsSound, UNCHANGED <<kernel, tool>>
  PROVE  MountsSound'
  BY DEF MountsSound, MountedOn, ToolLoops, kernel, tool

\* Every step keeps devices and mounts together.
LEMMA MountsStep ==
  ASSUME IInv, MountsSound, Traced, [Next]_vars
  PROVE  MountsSound'
<1>0. /\ mounts \in [Dirs -> Seq(Mounts)] /\ autoclear \in SUBSET Loops
      /\ backing \in [Loops -> Images \cup {Free}]
      /\ found.mounts \in [Dirs -> Seq(Mounts)]
      /\ img \in Images /\ Free \notin Images
  BY Constants DEF IInv, TypeOK, img
<1>1. CASE UNCHANGED <<kernel, tool>>
  BY <1>1, MountsKept
<1>2. CASE Start \/ PCheck \/ PDd \/ PPart \/ PFind \/ PMkfs \/ UFind \/ UFill1 \/ UGunzip
  BY <1>1, <1>2 DEF Start, PCheck, PDd, PPart, PFind, Find, PMkfs, UFind, UFill1, UGunzip
<1>3. CASE \/ UWipe2 \/ UFill2 \/ UMkfs \/ MCheck \/ MDd \/ MMkfs
           \/ Abort \/ GuestRun \/ UNCHANGED vars
  BY <1>1, <1>3 DEF UWipe2, UFill2, UMkfs, MCheck, MDd, MMkfs, Abort, GuestRun, vars
<1>4. CASE PAttach \/ UAttach
  <2>1. /\ UNCHANGED <<mounts, autoclear, tool>>
        /\ backing' = backing \/ backing' = [backing EXCEPT ![loopdev] = img]
    BY <1>4 DEF PAttach, UAttach, AttachImage, Attach
  <2>2. \A l \in Loops : backing[l] # Free => backing'[l] # Free
    BY <1>0, <2>1
  <2>. QED  BY <2>1, <2>2 DEF MountsSound, MountedOn, ToolLoops, tool
<1>5. CASE PDetach \/ UDetach
  <2>1. pc \in {"p_detach", "u_detach"} /\ UNCHANGED <<mounts, tool>>
    BY <1>5 DEF PDetach, UDetach
  <2>2. CASE loopdev \notin Attached
    BY <1>1, <1>5, <2>1, <2>2 DEF PDetach, UDetach, kernel
  <2>3. CASE loopdev \in Attached
    <3>1. Detach(loopdev)
      BY <1>5, <2>3 DEF PDetach, UDetach, ReleaseLoop
    <3>. QED  BY <1>0, <2>1, <3>1, DetachOwn DEF MountsSound, MountedOn, ToolLoops, tool
  <2>. QED  BY <2>2, <2>3
<1>6. ASSUME NEW d \in Dirs, NEW k \in 1 .. 4, pc \in HoldsLoop,
             mounts' = [mounts EXCEPT ![d] = Append(@, OwnMount(k))],
             UNCHANGED <<backing, autoclear, tool>>
      PROVE  MountsSound'
  <2>1. OwnMount(k) \in Mounts /\ loopdev \in Loops /\ backing[loopdev] # Free
        /\ loopdev \notin ToolLoops
    BY <1>0, <1>6 DEF IInv, OwnLoop, OwnMount, Mounts
  <2>2. Grown(mounts', mounts, loopdev)
    BY <1>0, <1>6, <2>1 DEF Grown, OwnMount
  <2>3. \A l : /\ MountedOn(l, mounts) => MountedOn(l, mounts')
               /\ MountedOn(l, mounts') => MountedOn(l, mounts) \/ l = loopdev
    BY <1>0, <2>2, MountedGrown
  <2>4. ToolLoops' = ToolLoops
    BY <1>6 DEF ToolLoops, tool
  <2>. QED  BY <1>6, <2>1, <2>3, <2>4 DEF MountsSound
<1>7. CASE UMount1 \/ UMount2
  <2>1. pc \in HoldsLoop /\ backing[loopdev] = img
    BY <1>7 DEF UMount1, UMount2, MountPart, HoldsLoop, UpdateLabels, IInv, OwnLoop
  <2>2. 1 \in Dirs /\ 2 \in Dirs /\ 1 \in 1 .. 4 /\ RootPart(img) \in 1 .. 4
    BY <1>0, Constants DEF Dirs
  <2>3. \/ UNCHANGED <<kernel, tool>>
        \/ /\ mounts' = [mounts EXCEPT ![1] = Append(@, OwnMount(1))]
           /\ UNCHANGED <<backing, autoclear, tool>>
        \/ /\ mounts' = [mounts EXCEPT ![2] = Append(@, OwnMount(RootPart(img)))]
           /\ UNCHANGED <<backing, autoclear, tool>>
    BY <1>7, <2>1 DEF UMount1, UMount2, MountPart, MountOn, OwnMount, kernel
  <2>. QED  BY <1>1, <1>6, <2>1, <2>2, <2>3
<1>8. ASSUME UUmount1 \/ UUmount2
      PROVE  MountsSound'
  <2>1. UNCHANGED <<backing, autoclear, tool>>
    BY <1>8, UnmountSteps
  <2>2. CASE UNCHANGED mounts
    BY <1>1, <2>1, <2>2 DEF kernel
  <2>3. CASE mounts' = found.mounts /\ Grown(mounts, found.mounts, loopdev)
    <3>1. pc \in HoldsLoop /\ loopdev \notin autoclear
      BY <1>8 DEF UUmount1, UUmount2, HoldsLoop, UpdateLabels, IInv, OwnLoop
    <3>2. \A l : /\ MountedOn(l, found.mounts) => MountedOn(l, mounts)
                 /\ MountedOn(l, mounts) => MountedOn(l, found.mounts) \/ l = loopdev
      BY <1>0, <2>3, MountedGrown
    <3>3. ToolLoops' = ToolLoops
      BY <2>1 DEF ToolLoops, tool
    <3>. QED  BY <1>0, <2>1, <2>3, <3>1, <3>2, <3>3 DEF MountsSound
  <2>. QED  BY <1>8, <2>2, <2>3, UnmountSteps
<1>9. CASE Reboot
  <2>1. mounts' = [d \in Dirs |-> << >>] /\ autoclear' = {}
    BY <1>9 DEF Reboot
  <2>2. \A l : ~ MountedOn(l, mounts')
    BY <2>1 DEF MountedOn
  <2>. QED  BY <2>1, <2>2 DEF MountsSound
<1>10. CASE MountRootfs
  <2>1. PICK l \in Loops :
          /\ backing[l] = Free /\ backing' = [backing EXCEPT ![l] = "domu"]
          /\ mounts' = [d \in Dirs |->
               IF \A k \in 1 .. d : k <= parts["domu"] /\ <<"domu", k>> \in formatted
               THEN Append(mounts[d], [vol |-> <<"domu", d>>, loop |-> l]) ELSE mounts[d]]
    BY <1>10 DEF MountRootfs, Attach, IsFirstFree, FreeLoops
  <2>2. \A d \in Dirs : [vol |-> <<"domu", d>>, loop |-> l] \in Mounts
    BY DEF Mounts, Dirs, Images
  <2>3. Grown(mounts', mounts, l)
    BY <2>1, <2>2 DEF Grown
  <2>4. \A x : /\ MountedOn(x, mounts) => MountedOn(x, mounts')
               /\ MountedOn(x, mounts') => MountedOn(x, mounts) \/ x = l
    BY <1>0, <2>3, MountedGrown
  <2>5. \A x \in Loops : backing[x] # Free \/ x = l => backing'[x] # Free
    BY <1>0, <2>1 DEF Images, Free
  <2>6. l \notin ToolLoops /\ ToolLoops' = ToolLoops /\ autoclear' = autoclear
    BY <1>10, <2>1 DEF MountRootfs, IInv, DevicesSound, ToolLoops, tool
  <2>. QED  BY <2>4, <2>5, <2>6 DEF MountsSound
<1>11. ASSUME NEW u \in Loops, UmountRootfs(u)
       PROVE  MountsSound'
  <2>1. /\ mounts' = [d \in Dirs |-> IF mounts[d] = << >> THEN << >> ELSE Pop(mounts[d])]
        /\ UNCHANGED tool
    BY <1>11 DEF UmountRootfs
  <2>2. \A l : MountedOn(l, mounts') => MountedOn(l, mounts)
    BY <1>0, <2>1, MountedPop
  <2>3. ToolLoops' = ToolLoops
    BY <2>1 DEF ToolLoops, tool
  <2>4. \A l \in ToolLoops : l \notin autoclear /\ l # u
    BY <1>11 DEF UmountRootfs, ToolLoops, IInv, DevicesSound
  <2>5. ASSUME NEW l \in Loops
        PROVE  InUse(l, mounts', tpc) <=> MountedOn(l, mounts') \/ (tpc = "mounted" /\ tloop = l)
    BY DEF InUse, MountedOn
  <2>6. \A l \in autoclear \cup {u} : InUse(l, mounts', tpc) => MountedOn(l, mounts')
    BY <1>0, <2>4, <2>5 DEF ToolLoops
  <2>7. /\ \A l \in Loops : InUse(l, mounts', tpc) => backing'[l] = backing[l]
        /\ \A l \in autoclear' : l \in autoclear \cup {u} /\ InUse(l, mounts', tpc)
    BY <1>11 DEF UmountRootfs
  <2>. QED  BY <1>0, <2>2, <2>3, <2>5, <2>6, <2>7 DEF MountsSound
<1>12. CASE XFind
  <2>1. ToolLoops' = {} /\ UNCHANGED kernel
    BY <1>12 DEF XFind, ToolLoops
  <2>. QED  BY <2>1 DEF MountsSound, MountedOn, kernel
<1>13. ASSUME NEW l \in Loops, backing[l] = Free, ToolLoops' = {l},
              backing' = [backing EXCEPT ![l] = "android"], UNCHANGED <<mounts, autoclear>>
       PROVE  MountsSound'
  <2>1. \A x \in Loops : backing[x] # Free => backing'[x] # Free
    BY <1>0, <1>13
  <2>2. ~ MountedOn(l, mounts)
    BY <1>13 DEF MountsSound
  <2>. QED  BY <1>13, <2>1, <2>2 DEF MountsSound
<1>14. CASE XAttach
  <2>1. tloop \in Loops /\ UNCHANGED <<mounts, autoclear>>
    BY <1>14 DEF XAttach, IInv, DevicesSound
  <2>2. CASE CanAttach(tloop)
    BY <1>13, <1>14, <2>1, <2>2 DEF XAttach, CanAttach, FreeLoops, Attach, ToolLoops
  <2>3. CASE ~ CanAttach(tloop)
    <3>1. ToolLoops' = {} /\ backing' = backing
      BY <1>14, <2>3 DEF XAttach, ToolLoops
    <3>. QED  BY <2>1, <3>1 DEF MountsSound, MountedOn
  <2>. QED  BY <2>2, <2>3
<1>15. CASE XMount
  <2>1. ToolLoops' \subseteq ToolLoops /\ UNCHANGED kernel
    BY <1>15 DEF XMount, ToolLoops
  <2>. QED  BY <2>1 DEF MountsSound, MountedOn, kernel
<1>16. CASE XUmount
  <2>1. UNCHANGED kernel /\ ToolLoops' = ToolLoops
    BY <1>16, XUmountQuiet
  <2>. QED  BY <2>1 DEF MountsSound, MountedOn, kernel
<1>17. CASE XDetach
  <2>1. /\ backing' = [backing EXCEPT ![tloop] = Free] /\ UNCHANGED <<autoclear, mounts>>
        /\ ToolLoops' = {} /\ ~ MountedOn(tloop, mounts)
    BY <1>17, XDetachEffect
  <2>. QED  BY <1>0, <2>1 DEF MountsSound
<1>18. CASE LogcatAttach
  BY <1>13, <1>18 DEF LogcatAttach, IsFirstFree, FreeLoops, Attach, ToolLoops
<1>. QED
  BY <1>2, <1>3, <1>4, <1>5, <1>7, <1>8, <1>9, <1>10, <1>11, <1>12, <1>14, <1>15, <1>16, <1>17,
     <1>18
     DEF Next, Script, Environment

\* what has been traced stays true while no device moves and the script keeps
\* the one it has
LEMMA TracedKept ==
  ASSUME Traced, UNCHANGED <<backing, tool, found>>, pc \in Running,
         pc' \in HoldsLoop <=> pc \in HoldsLoop,
         pc \in HoldsLoop => loopdev' = loopdev
  PROVE  Traced'
<1>1. OwnLoops' = OwnLoops /\ ToolLoops' = ToolLoops /\ Attached' = Attached
  BY DEF OwnLoops, ToolLoops, Attached, tool
<1>. QED  BY <1>1 DEF Traced

\* a script that has stopped traces nothing
LEMMA NotTraced ==
  ASSUME pc' \in Resting
  PROVE  Traced'
  BY DEF Traced, Resting, Running, HoldsLoop, PrepareLabels, UpdateLabels, MiscLabels

\* Every step of a run accounts for the devices it takes and gives back.
LEMMA TraceStep ==
  ASSUME IInv, MountsSound, Traced, [Next]_vars
  PROVE  Traced'
<1>0. /\ backing \in [Loops -> Images \cup {Free}] /\ img \in Images /\ Free \notin Images
      /\ HoldsLoop \subseteq Running /\ ToolLoops \subseteq Attached
  <2>1. backing \in [Loops -> Images \cup {Free}] /\ img \in Images /\ Free \notin Images
    BY Constants DEF IInv, TypeOK, img
  <2>2. HoldsLoop \subseteq Running
    BY DEF HoldsLoop, Running, PrepareLabels, UpdateLabels
  <2>3. ToolLoops \subseteq Attached
    BY DEF IInv, DevicesSound, ToolLoops, Attached
  <2>. QED  BY <2>1, <2>2, <2>3
<1>1. CASE Start
  <2>1. /\ pc' = "p_check" /\ UNCHANGED <<backing, tool>>
        /\ found'.loops = Attached \ ToolLoops
    BY <1>1 DEF Start, Goto, kernel, ToolLoops
  <2>2. Attached' = Attached /\ ToolLoops' = ToolLoops /\ OwnLoops' = {}
    BY <2>1 DEF Attached, ToolLoops, OwnLoops, tool, HoldsLoop, UpdateLabels
  <2>. QED  BY <2>1, <2>2 DEF Traced, HoldsLoop, UpdateLabels
<1>2. CASE pc' \in Resting
  BY <1>2, NotTraced
<1>3. CASE PCheck \/ PDd \/ PPart \/ PFind \/ UFind
  <2>1. /\ UNCHANGED <<backing, tool, found>>
        /\ pc \in {"p_check", "p_dd", "p_part", "p_find", "u_find"}
        /\ \/ pc' \in {"p_check", "p_dd", "p_part", "p_find", "p_attach", "u_find", "u_attach"}
           \/ pc' \in Resting
    BY <1>3 DEF PCheck, NextImage, PDd, PPart, PFind, Find, UFind, Goto, OnError, kernel, hist,
                Resting
  <2>2. CASE pc' \notin Resting
    BY <2>1, <2>2, TracedKept DEF HoldsLoop, Running, PrepareLabels, UpdateLabels
  <2>. QED  BY <1>2, <2>2
<1>4. CASE PMkfs \/ UFill1 \/ UGunzip \/ UWipe2 \/ UFill2 \/ UMkfs
  <2>1. /\ UNCHANGED <<backing, tool, found, loopdev>>
        /\ pc \in HoldsLoop /\ pc' \in HoldsLoop \cup Resting
    BY <1>4 DEF PMkfs, UFill1, UGunzip, UWipe2, UFill2, UMkfs, Goto, OnError, kernel, hist, shell,
                Resting, HoldsLoop, UpdateLabels
  <2>. QED  BY <1>0, <1>2, <2>1, TracedKept
<1>5. CASE UMount1 \/ UMount2 \/ UUmount1 \/ UUmount2
  <2>1. /\ UNCHANGED <<tool, found, loopdev>>
        /\ pc \in HoldsLoop /\ pc' \in HoldsLoop \cup Resting
    BY <1>5 DEF UMount1, UMount2, MountPart, UUmount1, UUmount2, Goto, OnError, hist, shell,
                Resting, HoldsLoop, UpdateLabels
  <2>2. UNCHANGED backing
    BY <1>5, UnmountSteps DEF UMount1, UMount2, MountPart
  <2>. QED  BY <1>0, <1>2, <2>1, <2>2, TracedKept
<1>6. CASE MCheck \/ MDd \/ MMkfs
  <2>1. /\ UNCHANGED <<backing, tool, found>>
        /\ pc \in MiscLabels /\ pc' \in MiscLabels \cup Resting
    BY <1>6 DEF MCheck, MDd, MMkfs, Goto, kernel, hist, MiscLabels, Resting
  <2>2. CASE pc' \in MiscLabels
    BY <2>1, <2>2, TracedKept DEF HoldsLoop, Running, UpdateLabels, MiscLabels
  <2>. QED  BY <1>2, <2>1, <2>2
<1>7. CASE PAttach \/ UAttach
  <2>1. /\ UNCHANGED <<mounts, shell, tool, found>> /\ pc \in {"p_attach", "u_attach"}
        /\ loopdev \in Loops
    BY <1>7 DEF PAttach, UAttach, AttachImage, hist, IInv, DevicesSound
  <2>2. CASE CanAttach(loopdev)
    <3>1. /\ backing[loopdev] = Free /\ backing' = [backing EXCEPT ![loopdev] = img]
          /\ pc' \in {"p_mkfs", "u_mount1"}
      BY <1>7, <2>2 DEF PAttach, UAttach, AttachImage, CanAttach, FreeLoops, Attach, Goto
    <3>2. pc \in Running /\ pc \notin HoldsLoop /\ pc \notin HoldsP1 \cup HoldsP2
      BY <2>1 DEF Running, PrepareLabels, HoldsLoop, UpdateLabels, HoldsP1, HoldsP2
    <3>3. Attached \ ToolLoops = found.loops
      BY <3>2 DEF Traced, OwnLoops
    <3>4. loopdev \notin Attached /\ Attached' = Attached \cup {loopdev}
      BY <1>0, <2>1, <3>1 DEF Attached
    <3>5. ToolLoops' = ToolLoops /\ OwnLoops' = {loopdev}
      BY <2>1, <3>1 DEF ToolLoops, OwnLoops, HoldsLoop, UpdateLabels, tool, shell
    <3>6. ~ MountedOn(loopdev, found.mounts)
      <4>1. mounts = found.mounts
        BY <3>2, StacksAsFound
      <4>. QED  BY <2>1, <3>1, <4>1 DEF MountsSound
    <3>. QED  BY <1>0, <2>1, <3>3, <3>4, <3>5, <3>6 DEF Traced, shell, MountedOn
  <2>3. CASE ~ CanAttach(loopdev)
    BY <1>2, <1>7, <2>3 DEF PAttach, UAttach, AttachImage, OnError, Resting
  <2>. QED  BY <2>2, <2>3
<1>8. CASE PDetach \/ UDetach
  <2>1. pc \in {"p_detach", "u_detach"} /\ UNCHANGED <<loopdev, tool, found>>
    BY <1>8 DEF PDetach, UDetach, hist
  <2>2. CASE loopdev \notin Attached
    BY <1>2, <1>8, <2>2 DEF PDetach, UDetach, OnError, Resting
  <2>3. CASE loopdev \in Attached
    <3>1. Detach(loopdev) /\ pc' \in {"p_check", "u_find", "m_check"}
      BY <1>8, <2>3 DEF PDetach, UDetach, ReleaseLoop, NextImage, Goto
    <3>2. backing' = [backing EXCEPT ![loopdev] = Free]
      BY <2>1, <3>1, DetachOwn
    <3>3. pc \in HoldsLoop /\ pc' \notin HoldsLoop /\ OwnLoops = {loopdev} /\ OwnLoops' = {}
      BY <2>1, <3>1 DEF HoldsLoop, UpdateLabels, OwnLoops
    <3>4. Attached' = Attached \ {loopdev} /\ ToolLoops' = ToolLoops
      BY <1>0, <2>1, <3>2 DEF Attached, ToolLoops, tool
    <3>5. Attached \ ToolLoops = found.loops \cup {loopdev} /\ loopdev \notin found.loops
      BY <1>0, <3>3 DEF Traced
    <3>. QED  BY <2>1, <3>3, <3>4, <3>5 DEF Traced
  <2>. QED  BY <2>2, <2>3
<1>9. CASE Abort \/ Reboot \/ GuestRun \/ MountRootfs \/ \E l \in Loops : UmountRootfs(l)
  BY <1>2, <1>9 DEF Abort, Reboot, GuestRun, MountRootfs, UmountRootfs, Resting
<1>10. ASSUME UNCHANGED <<pc, loopdev>>, found'.mounts = found.mounts,
              Attached' \ ToolLoops' = (Attached \ ToolLoops) \cup (found'.loops \ found.loops),
              found.loops \subseteq found'.loops,
              pc \in HoldsLoop => loopdev \notin found'.loops
       PROVE  Traced'
  <2>1. OwnLoops' = OwnLoops
    BY <1>10 DEF OwnLoops
  <2>. QED  BY <1>10, <2>1 DEF Traced
<1>11. CASE XFind
  <2>1. UNCHANGED <<pc, loopdev, found, backing>> /\ ToolLoops = {} /\ ToolLoops' = {}
    BY <1>11 DEF XFind, kernel, shell, hist, ToolLoops
  <2>. QED  BY <1>10, <2>1 DEF Attached, Traced
<1>12. ASSUME NEW l \in Loops, backing[l] = Free, backing' = [backing EXCEPT ![l] = "android"],
              ToolLoops = {}, ToolLoops' = {l}, UNCHANGED <<pc, loopdev, found>>
       PROVE  Traced'
  <2>1. Attached' = Attached \cup {l} /\ l \notin Attached
    BY <1>0, <1>12 DEF Attached, Free
  <2>. QED  BY <1>10, <1>12, <2>1 DEF Traced
<1>13. CASE XAttach
  <2>1. UNCHANGED <<pc, loopdev, found>> /\ tloop \in Loops /\ ToolLoops = {}
    BY <1>13 DEF XAttach, shell, hist, ToolLoops, IInv, DevicesSound
  <2>2. CASE CanAttach(tloop)
    BY <1>12, <1>13, <2>1, <2>2 DEF XAttach, CanAttach, FreeLoops, Attach, ToolLoops
  <2>3. CASE ~ CanAttach(tloop)
    <3>1. ToolLoops' = {} /\ backing' = backing
      BY <1>13, <2>3 DEF XAttach, ToolLoops
    <3>. QED  BY <1>10, <2>1, <3>1 DEF Attached, Traced
  <2>. QED  BY <2>2, <2>3
<1>14. CASE XMount
  <2>1. /\ UNCHANGED <<pc, loopdev, backing>> /\ tpc = "attached" /\ ToolLoops = {tloop}
        /\ found.loops \subseteq found'.loops
    BY <1>14 DEF XMount, kernel, shell, ToolLoops, IInv, TypeOK
  <2>2. Attached' = Attached /\ tloop \in Attached
    BY <1>0, <2>1 DEF Attached
  <2>3. CASE CanMount(tloop, 3)
    <3>1. ToolLoops' = ToolLoops /\ found' = found
      BY <1>14, <2>1, <2>3 DEF XMount, ToolLoops
    <3>. QED  BY <1>10, <2>1, <2>2, <3>1 DEF Traced
  <2>4. CASE ~ CanMount(tloop, 3)
    <3>1. ToolLoops' = {}
      BY <1>14, <2>4 DEF XMount, ToolLoops
    <3>2. found' = [found EXCEPT !.loops = found.loops \cup {tloop}]
      BY <1>14, <2>4 DEF XMount
    <3>3. found'.loops = found.loops \cup {tloop} /\ found'.mounts = found.mounts
      BY <3>2 DEF IInv, TypeOK
    <3>4. pc \in HoldsLoop => loopdev # tloop
      BY <2>1 DEF IInv, OwnLoop
    <3>5. CASE pc \in Running
      <4>1. Attached = found.loops \cup OwnLoops \cup {tloop}
        BY <1>0, <2>1, <2>2, <3>5 DEF Traced
      <4>2. Attached' \ ToolLoops' = found'.loops \cup OwnLoops'
        BY <2>1, <2>2, <3>1, <3>3, <4>1 DEF OwnLoops
      <4>. QED  BY <2>1, <3>3, <3>4, <4>2 DEF Traced
    <3>6. CASE pc \notin Running
      BY <1>0, <2>1, <3>6 DEF Traced
    <3>. QED  BY <3>5, <3>6
  <2>. QED  BY <2>3, <2>4
<1>15. CASE XUmount
  <2>1. UNCHANGED <<pc, loopdev, found>> /\ UNCHANGED kernel /\ ToolLoops' = ToolLoops
    BY <1>15, XUmountQuiet DEF XUmount, shell, hist
  <2>. QED  BY <1>10, <2>1 DEF Attached, Traced, kernel
<1>16. CASE XDetach
  <2>1. UNCHANGED <<pc, loopdev, found>>
    BY <1>16 DEF XDetach, shell, hist
  <2>2. /\ backing' = [backing EXCEPT ![tloop] = Free]
        /\ ToolLoops = {tloop} /\ ToolLoops' = {}
    BY <1>16, XDetachEffect
  <2>3. Attached' = Attached \ {tloop}
    BY <1>0, <2>2 DEF Attached
  <2>. QED  BY <1>10, <2>1, <2>2, <2>3 DEF Traced
<1>17. CASE LogcatAttach
  <2>1. UNCHANGED <<pc, loopdev, found>> /\ ToolLoops = {}
    BY <1>17 DEF LogcatAttach, shell, hist, ToolLoops
  <2>. QED  BY <1>12, <1>17, <2>1 DEF LogcatAttach, IsFirstFree, FreeLoops, Attach, ToolLoops
<1>18. CASE UNCHANGED vars
  <2>1. UNCHANGED <<pc, loopdev, found, backing, tool>>
    BY <1>18 DEF vars, kernel, shell, hist
  <2>2. ToolLoops' = ToolLoops /\ Attached' = Attached
    BY <2>1 DEF Attached, ToolLoops, tool
  <2>. QED  BY <1>10, <2>1, <2>2 DEF Traced
<1>. QED
  BY <1>1, <1>3, <1>4, <1>5, <1>6, <1>7, <1>8, <1>9, <1>11, <1>13, <1>14, <1>15, <1>16, <1>17,
     <1>18
     DEF Next, Script, Environment

\* A run that ends normally leaves the loop devices and mounts that it found.
THEOREM NoTrace == Spec => RunLeavesNoTrace
<1>. DEFINE TInv == IInv /\ MountsSound /\ Traced
<1>1. Init => TInv
  <2>1. ASSUME Init
        PROVE  MountsSound /\ Traced
    BY <2>1 DEF Init, MountsSound, MountedOn, Traced, ToolLoops, Running, HoldsLoop, PrepareLabels,
                UpdateLabels, MiscLabels
  <2>. QED  BY <2>1, InitIInv
<1>2. TInv /\ [Next]_vars => TInv'
  BY StepIInv, MountsStep, TraceStep
<1>3. ASSUME TInv, [Next]_vars, pc' = "built", pc # "built"
      PROVE  mounts' = found.mounts /\ Attached' \ ToolLoops' = found.loops
  <2>1. pc \in MiscLabels /\ UNCHANGED <<kernel, tool>>
    BY <1>3, Finished
  <2>2. pc \in Running /\ pc \notin HoldsLoop /\ pc \notin HoldsP1 \cup HoldsP2
    BY <2>1 DEF Running, MiscLabels, HoldsLoop, UpdateLabels, HoldsP1, HoldsP2
  <2>3. mounts = found.mounts
    BY <1>3, <2>2, StacksAsFound
  <2>4. Attached \ ToolLoops = found.loops
    BY <1>3, <2>2 DEF Traced, OwnLoops
  <2>5. Attached' = Attached /\ ToolLoops' = ToolLoops /\ mounts' = mounts
    BY <2>1 DEF Attached, ToolLoops, kernel, tool
  <2>. QED  BY <2>3, <2>4, <2>5
<1>4. TInv /\ [Next]_vars =>
        [pc' = "built" /\ pc # "built" =>
           mounts' = found.mounts /\ Attached' \ ToolLoops' = found.loops]_vars
  BY <1>3
<1>. QED  BY <1>1, <1>2, <1>4, PTL DEF Spec, RunLeavesNoTrace
=============================================================================
