----------------------------- MODULE ImageBuild -----------------------------
(***************************************************************************)
(* The disk-image part of build_all.sh: prepare_images creates four raw    *)
(* images with partitions and file systems, update_rootfs_for_* attach     *)
(* each image to a loop device, mount its partitions on supporting/p1 and  *)
(* supporting/p2 and refill them, prepare_misc creates the eMMC image.     *)
(* The loop devices and the mount table belong to the host and survive an  *)
(* aborted run; the tools of tools/ use the same devices and directories.  *)
(*                                                                         *)
(* One action per shell command that changes state.  A volume is a         *)
(* partition <<image, number>> or one of the bare host directories         *)
(* <<"host", 1>> (p1) and <<"host", 2>> (p2), which is where a command on  *)
(* p1 or p2 lands when nothing is mounted there.                           *)
(***************************************************************************)
EXTENDS Naturals, Sequences, FiniteSets

CONSTANTS NLoops,       \* loop devices of the host (bound)
          MaxAborts,    \* interruptions and reboots explored (bound)
          AbortPoints,  \* commands of the script that may be interrupted
          Tools         \* which of "mount", "extract", "logcat", "guest" are used

ASSUME NLoopsAssumption == NLoops \in Nat \ {0}
ASSUME MaxAbortsAssumption == MaxAborts \in Nat

Order  == <<"baremetal", "dom0", "domu", "android">>
Images == {"baremetal", "dom0", "domu", "android"}
Loops  == 1 .. NLoops
Free   == "none"
Unset  == 0

\* sgdisk -n commands of each image; the partition mounted on p2
PartCount(i)    == IF i = "android" THEN 4 ELSE 2
RootPart(i)  == IF i = "android" THEN 4 ELSE 2
UsesCpio(i)  == i \in {"dom0", "domu"}

Dirs    == 1 .. 2
Volumes == (Images \X (1 .. 4)) \cup ({"host"} \X Dirs)
\* a file is one the update function writes under that name, one it does not
\* write, or a file at the top of its partition whose name starts with a dot
Names   == {"listed", "other", "dot"}
Tags    == [from : Images \cup {"guest"}, age : {"new", "old"}, name : Names]
Mounts  == [vol : Images \X (1 .. 4), loop : Loops]

New(i) == [from |-> i, age |-> "new", name |-> "listed"]

VARIABLES
  created,    \* images whose file exists
  parts,      \* partitions in the table of each image
  formatted,  \* partitions that hold a file system
  files,      \* what each volume contains
  emmc,       \* state of emmc.img
  backing,    \* image each loop device is attached to
  autoclear,  \* loop devices detached while still in use
  mounts,     \* mount stack of p1 and of p2
  pc, cur,    \* command and image the script is at
  part,       \* partition the script is creating or formatting
  loopdev,    \* the shell variable $loopdev, global to the script
  cpio,       \* image whose archive is in supporting/rootfs.cpio
  tpc, tloop, \* command and device of extract_shader_cache.sh
  aborts,     \* interruptions so far
  found       \* history: loops and mounts when the run started

disk   == <<created, parts, formatted, files, emmc>>
kernel == <<backing, autoclear, mounts>>
shell  == <<cur, part, loopdev, cpio>>
tool   == <<tpc, tloop>>
hist   == <<aborts, found>>
vars   == <<disk, kernel, pc, shell, tool, hist>>

PrepareLabels == {"p_check", "p_dd", "p_part", "p_find", "p_attach", "p_mkfs",
                  "p_detach"}
UpdateLabels  == {"u_find", "u_attach", "u_mount1", "u_fill1", "u_umount1",
                  "u_gunzip", "u_mount2", "u_wipe2", "u_fill2", "u_mkfs",
                  "u_umount2", "u_detach"}
MiscLabels    == {"m_check", "m_dd", "m_mkfs"}
Running       == PrepareLabels \cup UpdateLabels \cup MiscLabels
Resting       == {"idle", "built"}

img == Order[cur]

Attached == {l \in Loops : backing[l] # Free}

TypeOK ==
  /\ created \in SUBSET Images
  /\ parts \in [Images -> 0 .. 4]
  /\ formatted \in SUBSET (Images \X (1 .. 4))
  /\ files \in [Volumes -> SUBSET Tags]
  /\ emmc \in {"absent", "raw", "ext4"}
  /\ backing \in [Loops -> Images \cup {Free}]
  /\ autoclear \in SUBSET Loops
  /\ mounts \in [Dirs -> Seq(Mounts)]
  /\ pc \in Running \cup Resting
  /\ cur \in 1 .. 4
  /\ part \in 1 .. 4
  /\ loopdev \in Loops \cup {Unset}
  /\ cpio \in Images \cup {Free}
  /\ tpc \in {"idle", "found", "attached", "mounted", "detach"}
  /\ tloop \in Loops \cup {Unset}
  /\ aborts \in 0 .. MaxAborts
  /\ found \in [loops : SUBSET Loops, mounts : [Dirs -> Seq(Mounts)]]

Init ==
  /\ created = {}
  /\ parts = [i \in Images |-> 0]
  /\ formatted = {}
  /\ files = [v \in Volumes |-> {}]
  /\ emmc = "absent"
  /\ backing = [l \in Loops |-> Free]
  /\ autoclear = {}
  /\ mounts = [d \in Dirs |-> << >>]
  /\ pc = "idle"
  /\ cur = 1
  /\ part = 1
  /\ loopdev = Unset
  /\ cpio = Free
  /\ tpc = "idle"
  /\ tloop = Unset
  /\ aborts = 0
  /\ found = [loops |-> {}, mounts |-> [d \in Dirs |-> << >>]]

-----------------------------------------------------------------------------
(* The host: loop devices and mounts.                                      *)

\* (variant) without set -e
IgnoreError(next) == pc' = next

\* set -e: a failing command ends the script, whatever command would follow
OnError(next) == pc' = "idle"

\* losetup -f: the lowest device that is not in use
FreeLoops == {l \in Loops : backing[l] = Free}
IsFirstFree(l) == l \in FreeLoops /\ \A m \in FreeLoops : l <= m

\* (variant) a device written into the script
FixedDevice(l) == l = 1
\* loopdev=$(losetup -f)
Chosen(l) == IsFirstFree(l)

InUse(l, m, t) == \/ \E d \in Dirs : \E n \in 1 .. Len(m[d]) : m[d][n].loop = l
                  \/ t = "mounted" /\ tloop = l

\* losetup $l file; fails with EBUSY on a device in use
CanAttach(l) == l \in FreeLoops
Attach(l, i) == backing' = [backing EXCEPT ![l] = i]

\* losetup -d: a device that is still mounted is detached when it is released
Detach(l) ==
  IF InUse(l, mounts, tpc)
  THEN autoclear' = autoclear \cup {l} /\ UNCHANGED backing
  ELSE backing' = [backing EXCEPT ![l] = Free] /\ autoclear' = autoclear \ {l}

\* mount: the partition must exist and hold a file system
CanMount(l, k) == /\ l \in Attached
                  /\ k <= parts[backing[l]]
                  /\ <<backing[l], k>> \in formatted
MountOn(d, l, k) ==
  mounts' = [mounts EXCEPT ![d] = Append(@, [vol |-> <<backing[l], k>>, loop |-> l])]

\* umount removes the topmost mount and releases devices waiting for that
Pop(s) == SubSeq(s, 1, Len(s) - 1)
Release(m, t) ==
  LET gone == {l \in autoclear : ~ InUse(l, m, t)}
  IN /\ backing' = [l \in Loops |-> IF l \in gone THEN Free ELSE backing[l]]
     /\ autoclear' = autoclear \ gone
CanUnmount(d) == mounts[d] # << >>
UnmountFrom(d) == /\ mounts' = [mounts EXCEPT ![d] = Pop(@)]
                  /\ Release(mounts', tpc)

\* the volume that commands on directory p1 or p2 reach
Where(d) == IF mounts[d] = << >> THEN <<"host", d>>
                                 ELSE mounts[d][Len(mounts[d])].vol

\* mkfs refuses a partition that is mounted from the same device
CanFormat(l, k) ==
  /\ l \in Attached
  /\ k <= parts[backing[l]]
  /\ \A d \in Dirs : \A n \in 1 .. Len(mounts[d]) :
        mounts[d][n] # [vol |-> <<backing[l], k>>, loop |-> l]
Format(l, k) == /\ formatted' = formatted \cup {<<backing[l], k>>}
                /\ files' = [files EXCEPT ![<<backing[l], k>>] = {}]

-----------------------------------------------------------------------------
(* build_all.sh                                                            *)

Goto(label) == pc' = label

\* Files of earlier runs are old, and this run need not write every name they have.
Aged(t) == {[t EXCEPT !.age = "old"],
            [t EXCEPT !.age = "old", !.name = IF @ = "dot" THEN "dot" ELSE "other"]}

\* The owner starts the script, a new shell in which $loopdev is unset.
Start ==
  /\ pc \in Resting
  /\ Goto("p_check")
  /\ cur' = 1 /\ part' = 1 /\ loopdev' = Unset
  /\ files' = [v \in Volumes |-> UNION {Aged(t) : t \in files[v]}]
  /\ found' = [loops |-> Attached \ (IF tpc \in {"attached", "mounted", "detach"}
                                     THEN {tloop} ELSE {}),
               mounts |-> mounts]
  /\ UNCHANGED <<created, parts, formatted, emmc, kernel, cpio, tool, aborts>>

\* after one image, the same phase of the next one or the following phase
NextImage(again, after) ==
  IF cur < 4 THEN Goto(again) /\ cur' = cur + 1 ELSE Goto(after) /\ cur' = 1

\* if [ ! -f $IMG ]
PCheck ==
  /\ pc = "p_check"
  /\ IF img \in created THEN NextImage("p_check", "u_find")
                        ELSE Goto("p_dd") /\ UNCHANGED cur
  /\ UNCHANGED <<disk, kernel, part, loopdev, cpio, tool, hist>>

\* (variant) a partition too many
MoreTooMany == part <= PartCount(img)
\* the sgdisk or mkfs command just run is not the last of its list
More == part < PartCount(img)

PDd ==
  /\ pc = "p_dd"
  /\ created' = created \cup {img}
  /\ part' = 1
  /\ Goto("p_part")
  /\ UNCHANGED <<parts, formatted, files, emmc, kernel, cur, loopdev, cpio, tool, hist>>

\* one sgdisk -n per partition
PPart ==
  /\ pc = "p_part"
  /\ parts' = [parts EXCEPT ![img] = part]
  /\ IF More THEN part' = part + 1 /\ Goto("p_part")
             ELSE part' = 1 /\ Goto("p_find")
  /\ UNCHANGED <<created, formatted, files, emmc, kernel, cur, loopdev, cpio, tool, hist>>

Find(label, next) ==
  /\ pc = label
  /\ \/ FreeLoops = {} /\ OnError(next) /\ UNCHANGED loopdev
     \/ FreeLoops # {} /\ Goto(next) /\ \E l \in Loops : Chosen(l) /\ loopdev' = l
  /\ UNCHANGED <<disk, kernel, cur, part, cpio, tool, hist>>

\* (variant) losetup $loopdev file || true
AttachImageAnyway(label, next) ==
  /\ pc = label
  /\ Goto(next)
  /\ IF CanAttach(loopdev) THEN Attach(loopdev, img) ELSE UNCHANGED backing
  /\ UNCHANGED <<disk, autoclear, mounts, shell, tool, hist>>

AttachImage(label, next) ==
  /\ pc = label
  /\ IF CanAttach(loopdev) THEN Goto(next) /\ Attach(loopdev, img)
                           ELSE OnError(next) /\ UNCHANGED backing
  /\ UNCHANGED <<disk, autoclear, mounts, shell, tool, hist>>

PFind   == Find("p_find", "p_attach")
PAttach == AttachImage("p_attach", "p_mkfs")

\* one mkfs per partition
PMkfs ==
  /\ pc = "p_mkfs"
  /\ IF CanFormat(loopdev, part)
     THEN /\ Format(loopdev, part)
          /\ IF More THEN part' = part + 1 /\ Goto("p_mkfs")
                     ELSE part' = 1 /\ Goto("p_detach")
     ELSE OnError("p_detach") /\ UNCHANGED <<formatted, files, part>>
  /\ UNCHANGED <<created, parts, emmc, kernel, cur, loopdev, cpio, tool, hist>>

\* (variant) losetup -d is missing from one function
AndroidNotReleased == IF img = "android" THEN UNCHANGED <<backing, autoclear>>
                                         ELSE Detach(loopdev)
\* sudo losetup -d $loopdev
ReleaseLoop == Detach(loopdev)

PDetach ==
  /\ pc = "p_detach"
  /\ IF loopdev \in Attached
     THEN ReleaseLoop /\ NextImage("p_check", "u_find")
     ELSE OnError("p_check") /\ UNCHANGED <<cur, backing, autoclear>>
  /\ UNCHANGED <<disk, mounts, part, loopdev, cpio, tool, hist>>

\* update_rootfs_for_android has no losetup -f: it uses the device the
\* previous update function left in the global variable
UFind ==
  \/ img # "android" /\ Find("u_find", "u_attach")
  \/ /\ img = "android"
     /\ pc = "u_find"
     /\ Goto("u_attach")
     /\ UNCHANGED <<disk, kernel, shell, tool, hist>>
UAttach == AttachImage("u_attach", "u_mount1")

MountPart(label, d, k, next) ==
  /\ pc = label
  /\ IF CanMount(loopdev, k) THEN Goto(next) /\ MountOn(d, loopdev, k)
                             ELSE OnError(next) /\ UNCHANGED mounts
  /\ UNCHANGED <<disk, backing, autoclear, shell, tool, hist>>

UMount1 == MountPart("u_mount1", 1, 1, "u_fill1")
UMount2 == MountPart("u_mount2", 2, RootPart(img), "u_wipe2")

\* the boot partition is only added to: cp replaces the files it names
UFill1 ==
  /\ pc = "u_fill1"
  /\ files' = [files EXCEPT ![Where(1)] =
                  {t \in @ : t.name # "listed"} \cup {New(img)}]
  /\ Goto("u_umount1")
  /\ UNCHANGED <<created, parts, formatted, emmc, kernel, shell, tool, hist>>

UUmount1 ==
  /\ pc = "u_umount1"
  /\ IF CanUnmount(1)
     THEN /\ UnmountFrom(1)
          /\ Goto(IF UsesCpio(img) THEN "u_gunzip" ELSE "u_mount2")
     ELSE OnError("u_mount2") /\ UNCHANGED kernel
  /\ UNCHANGED <<disk, shell, tool, hist>>

\* (variant) an archive that is there is not unpacked again
UnpackedOnce == IF cpio = Free THEN img ELSE cpio
\* rm -f rootfs.cpio; gunzip -c ... > rootfs.cpio
Unpacked == img

UGunzip ==
  /\ pc = "u_gunzip"
  /\ cpio' = Unpacked
  /\ Goto("u_mount2")
  /\ UNCHANGED <<disk, kernel, cur, part, loopdev, tool, hist>>

\* (variant) the old files are kept
NotWiped(contents) == contents
\* rm -rf p2/*: the shell expands the star to the names without a leading dot
Wiped(contents) == {t \in contents : t.name = "dot"}

UWipe2 ==
  /\ pc = "u_wipe2"
  /\ files' = [files EXCEPT ![Where(2)] = Wiped(@)]
  /\ Goto("u_fill2")
  /\ UNCHANGED <<created, parts, formatted, emmc, kernel, shell, tool, hist>>

\* tar, cpio -idm < ../rootfs.cpio; rm -f ../rootfs.cpio, or cp.  What the wipe has
\* left stays: cpio without -u does not replace a file that is newer.
UFill2 ==
  /\ pc = "u_fill2"
  /\ files' = [files EXCEPT ![Where(2)] =
                  @ \cup {New(IF UsesCpio(img) THEN cpio ELSE img)}]
  /\ cpio' = IF UsesCpio(img) THEN Free ELSE cpio
  /\ part' = 2
  /\ Goto(IF img = "android" THEN "u_mkfs" ELSE "u_umount2")
  /\ UNCHANGED <<created, parts, formatted, emmc, kernel, cur, loopdev, tool, hist>>

\* mkfs.ext4 -F of the metadata and data partitions of Android
UMkfs ==
  /\ pc = "u_mkfs"
  /\ IF CanFormat(loopdev, part)
     THEN /\ Format(loopdev, part)
          /\ IF part < 3 THEN part' = part + 1 /\ Goto("u_mkfs")
                         ELSE part' = 1 /\ Goto("u_umount2")
     ELSE OnError("u_umount2") /\ UNCHANGED <<formatted, files, part>>
  /\ UNCHANGED <<created, parts, emmc, kernel, cur, loopdev, cpio, tool, hist>>

UUmount2 ==
  /\ pc = "u_umount2"
  /\ IF CanUnmount(2) THEN UnmountFrom(2) /\ Goto("u_detach")
                      ELSE OnError("u_detach") /\ UNCHANGED kernel
  /\ UNCHANGED <<disk, shell, tool, hist>>

UDetach ==
  /\ pc = "u_detach"
  /\ IF loopdev \in Attached
     THEN ReleaseLoop /\ NextImage("u_find", "m_check")
     ELSE OnError("u_find") /\ UNCHANGED <<cur, backing, autoclear>>
  /\ UNCHANGED <<disk, mounts, part, loopdev, cpio, tool, hist>>

\* if [ ! -f $EMMC_DEV ]
MCheck ==
  /\ pc = "m_check"
  /\ Goto(IF emmc = "absent" THEN "m_dd" ELSE "built")
  /\ UNCHANGED <<disk, kernel, shell, tool, hist>>

MDd ==
  /\ pc = "m_dd"
  /\ emmc' = "raw"
  /\ Goto("m_mkfs")
  /\ UNCHANGED <<created, parts, formatted, files, kernel, shell, tool, hist>>

MMkfs ==
  /\ pc = "m_mkfs"
  /\ emmc' = "ext4"
  /\ Goto("built")
  /\ UNCHANGED <<created, parts, formatted, files, kernel, shell, tool, hist>>

Script ==
  \/ PCheck \/ PDd \/ PPart \/ PFind \/ PAttach \/ PMkfs \/ PDetach
  \/ UFind \/ UAttach \/ UMount1 \/ UFill1 \/ UUmount1 \/ UGunzip \/ UMount2
  \/ UWipe2 \/ UFill2 \/ UMkfs \/ UUmount2 \/ UDetach
  \/ MCheck \/ MDd \/ MMkfs

-----------------------------------------------------------------------------
(* Interruptions.                                                          *)

\* A command fails for a reason of its own, or the owner presses Ctrl-C.
\* dd has created the file by then; a failing mkfs leaves no file system.
Abort ==
  /\ aborts < MaxAborts
  /\ pc \in AbortPoints
  /\ pc' = "idle"
  /\ aborts' = aborts + 1
  /\ created' = IF pc = "p_dd" THEN created \cup {img} ELSE created
  /\ emmc' = IF pc = "m_dd" THEN "raw" ELSE emmc
  /\ UNCHANGED <<parts, formatted, files, kernel, shell, tool, found>>

\* The host restarts: loop devices and mounts are gone, files are not.
Reboot ==
  /\ aborts < MaxAborts
  /\ pc \in AbortPoints \cup {"idle"}
  /\ pc' = "idle"
  /\ aborts' = aborts + 1
  /\ created' = IF pc = "p_dd" THEN created \cup {img} ELSE created
  /\ emmc' = IF pc = "m_dd" THEN "raw" ELSE emmc
  /\ backing' = [l \in Loops |-> Free]
  /\ autoclear' = {}
  /\ mounts' = [d \in Dirs |-> << >>]
  /\ tpc' = "idle" /\ tloop' = Unset
  /\ UNCHANGED <<parts, formatted, files, shell, found>>

-----------------------------------------------------------------------------
(* The tools and the board.                                                *)

\* tools/mount-rootfs.sh, run between builds in supporting/: it leaves
\* domu.rootfs mounted; set -e stops it at the first failing mount
MountRootfs ==
  /\ "mount" \in Tools
  /\ pc \in Resting
  /\ "domu" \in created
  /\ \E l \in Loops :
       /\ IsFirstFree(l)
       /\ Attach(l, "domu")
       /\ mounts' = [d \in Dirs |->
            IF \A k \in 1 .. d : k <= parts["domu"] /\ <<"domu", k>> \in formatted
            THEN Append(mounts[d], [vol |-> <<"domu", d>>, loop |-> l]) ELSE mounts[d]]
  /\ UNCHANGED <<disk, autoclear, pc, shell, tool, hist>>

\* tools/umount-rootfs.sh N: no set -e, so each command is tried
UmountRootfs(l) ==
  /\ "mount" \in Tools
  /\ pc \in Resting
  /\ backing[l] # Free
  /\ l # tloop \/ tpc \in {"idle", "found"}
  /\ mounts' = [d \in Dirs |-> IF mounts[d] = << >> THEN << >> ELSE Pop(mounts[d])]
  /\ LET pending == autoclear \cup {l}
         gone == {m \in pending : ~ InUse(m, mounts', tpc)}
     IN /\ backing' = [m \in Loops |-> IF m \in gone THEN Free ELSE backing[m]]
        /\ autoclear' = pending \ gone
  /\ UNCHANGED <<disk, pc, shell, tool, hist>>

\* tools/extract_shader_cache.sh: may run beside a build, on a private directory
XFind ==
  /\ "extract" \in Tools
  /\ tpc = "idle" /\ "android" \in created
  /\ tpc' = "found"
  /\ \E l \in Loops : IsFirstFree(l) /\ tloop' = l
  /\ UNCHANGED <<disk, kernel, pc, shell, hist>>

XAttach ==
  /\ tpc = "found"
  /\ IF CanAttach(tloop) THEN tpc' = "attached" /\ Attach(tloop, "android")
                         ELSE tpc' = "idle" /\ UNCHANGED backing
  /\ tloop' = IF CanAttach(tloop) THEN tloop ELSE Unset
  /\ UNCHANGED <<disk, autoclear, mounts, pc, shell, hist>>

\* set -e: without a file system the tool exits and its device stays attached
XMount ==
  /\ tpc = "attached"
  /\ IF CanMount(tloop, 3)
     THEN tpc' = "mounted" /\ UNCHANGED <<tloop, found>>
     ELSE /\ tpc' = "idle" /\ tloop' = Unset
          /\ found' = [found EXCEPT !.loops = @ \cup {tloop}]
  /\ UNCHANGED <<disk, kernel, pc, shell, aborts>>

XUmount ==
  /\ tpc = "mounted"
  /\ tpc' = "detach"
  /\ Release(mounts, "detach")
  /\ UNCHANGED <<disk, mounts, pc, shell, tloop, hist>>

XDetach ==
  /\ tpc = "detach"
  /\ tpc' = "idle" /\ tloop' = Unset
  /\ Detach(tloop)
  /\ UNCHANGED <<disk, mounts, pc, shell, hist>>

\* tools/logcat.sh: losetup --find --show, then debugfs reads the device
LogcatAttach ==
  /\ "logcat" \in Tools
  /\ tpc = "idle" /\ "android" \in created
  /\ tpc' = "detach"
  /\ \E l \in Loops : IsFirstFree(l) /\ tloop' = l /\ Attach(l, "android")
  /\ UNCHANGED <<disk, autoclear, mounts, pc, shell, hist>>

\* ./run.sh or ./run-baremetal.sh between builds.  QEMU does not start without the
\* files of its -drive options; it attaches them writable, and what the board runs
\* may write any file of any file system in them.
GuestFiles == {[from |-> "guest", age |-> "new", name |-> n] : n \in Names}
GuestRun ==
  /\ "guest" \in Tools
  /\ pc \in Resting
  /\ \E drives \in {{"baremetal"}, {"dom0", "domu", "android"}} :
       /\ drives \subseteq created
       /\ "dom0" \in drives => emmc # "absent"
       /\ files' = [v \in Volumes |-> IF v \in formatted /\ v[1] \in drives
                                      THEN files[v] \cup GuestFiles ELSE files[v]]
  /\ UNCHANGED <<created, parts, formatted, emmc, kernel, pc, shell, tool, hist>>

Environment ==
  \/ Abort \/ Reboot \/ MountRootfs
  \/ (\E l \in Loops : UmountRootfs(l))
  \/ XFind \/ XAttach \/ XMount \/ XUmount \/ XDetach
  \/ LogcatAttach \/ GuestRun

Next == Start \/ Script \/ Environment

Spec == Init /\ [][Next]_vars

\* A started script runs on, and the owner starts it again after an abort.
Fairness == WF_vars(Script) /\ WF_vars(pc = "idle" /\ Start)
FairSpec == Spec /\ Fairness

-----------------------------------------------------------------------------
(* Properties.                                                             *)

HoldsLoop  == {"p_mkfs", "p_detach"} \cup (UpdateLabels \ {"u_find", "u_attach"})
HoldsP1    == {"u_fill1", "u_umount1"}
HoldsP2    == {"u_wipe2", "u_fill2", "u_mkfs", "u_umount2"}
ToolLoops  == IF tpc \in {"attached", "mounted", "detach"} THEN {tloop} ELSE {}
OwnMount(k) == [vol |-> <<img, k>>, loop |-> loopdev]

\* While the script fills a directory, its own mount is on top of it and
\* below it are exactly the mounts an earlier run or mount-rootfs.sh left.
StackDiscipline ==
  pc \in Running =>
    /\ mounts[1] = IF pc \in HoldsP1 THEN Append(found.mounts[1], OwnMount(1))
                                     ELSE found.mounts[1]
    /\ mounts[2] = IF pc \in HoldsP2 THEN Append(found.mounts[2], OwnMount(RootPart(img)))
                                     ELSE found.mounts[2]

\* Between losetup and losetup -d the device is the script's alone: it backs
\* the current image, it is not the one extract_shader_cache.sh took, and no
\* pending detach will take it away.
OwnLoop ==
  pc \in HoldsLoop =>
    /\ loopdev \in Loops
    /\ backing[loopdev] = img
    /\ loopdev \notin ToolLoops \cup autoclear

\* The devices the script and the tool are about to use exist, and only
\* devices that are in use wait for their release.
DevicesSound ==
  /\ \A l \in autoclear : backing[l] # Free
  /\ tpc # "idle" => tloop \in Loops
  /\ \A l \in ToolLoops : backing[l] # Free /\ l \notin autoclear
  /\ pc \in {"p_attach", "u_attach"} \/ (pc = "u_find" /\ cur = 4) => loopdev \in Loops

\* The archive an update function unpacks is the one it put there, whatever
\* an interrupted run left in supporting/rootfs.cpio.
ArchiveIsOwn ==
  pc \in {"u_mount2", "u_wipe2", "u_fill2"} /\ UsesCpio(img) => cpio = img

\* rm -rf p2/*, the copies and mkfs of one update function change no other
\* image and never the bare directories p1 and p2 of the host.
WritesStayInOwnImage ==
  [][(pc \in Running) =>
       (\A v \in Volumes : files'[v] = files[v] \/ v[1] = img)]_vars

\* No image ever contains what the script meant for another one, though two update
\* functions pass their archive through the same supporting/rootfs.cpio; the bare
\* directories p1 and p2 of the host never get a file.
NoForeignPayload ==
  \A v \in Volumes : \A t \in files[v] :
    v[1] \in Images /\ t.from \in {v[1], "guest"}

\* the update function of i has added its files, or wiped the rest before
Overlaid(contents, i) ==
  New(i) \in contents /\ \A t \in contents \ {New(i)} : t.name # "listed"
Refilled(contents, i) ==
  New(i) \in contents /\ \A t \in contents \ {New(i)} : t.name = "dot"

\* A run that ends normally, whatever earlier runs left half done and the guests
\* wrote, has put its own files on every boot and root partition, where no older
\* file has a name that it writes; on a root partition nothing older is left but
\* files at its top whose name starts with a dot, and Android's metadata and data
\* partitions are empty.
BuildsAreFresh ==
  [][pc' = "built" /\ pc # "built" =>
       /\ \A i \in Images : /\ Overlaid(files'[<<i, 1>>], i)
                            /\ Refilled(files'[<<i, RootPart(i)>>], i)
       /\ files'[<<"android", 2>>] = {} /\ files'[<<"android", 3>>] = {}]_vars

\* A run that ends normally leaves the loop devices and mounts it found,
\* neither more (a leak) nor fewer (someone else's).
RunLeavesNoTrace ==
  [][pc' = "built" /\ pc # "built" =>
       mounts' = found.mounts /\ Attached' \ ToolLoops' = found.loops]_vars

\* Whatever was interrupted, a run that ends normally has all partitions of
\* all images formatted: a half-made image stops the script.
Usable(i) == i \in created /\ \A k \in 1 .. PartCount(i) : <<i, k>> \in formatted
BuiltImagesUsable == pc = "built" => \A i \in Images : Usable(i)

\* An image file that exists is complete, unless it is being made: what the test
\* [ ! -f ... ] of every later run stands for.
ImagesWhole == \A i \in created : Usable(i) \/ (pc \in PrepareLabels /\ i = img)

\* A started build is eventually completed, by that run or by running it again.
EventuallyBuilt == pc = "p_check" ~> pc = "built"

\* Only two things an interruption leaves behind can stop the later runs: an image
\* that is half made, and a loop device that is still attached, when it was the last
\* free one.  If neither happens, running the script again is enough.
RetryWorks == []ImagesWhole /\ []<>(FreeLoops # {}) => EventuallyBuilt
=============================================================================
