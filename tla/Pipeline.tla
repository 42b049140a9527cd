------------------------------- MODULE Pipeline -------------------------------
(***************************************************************************)
(* The order of build_all.sh: programs are configured once and made by     *)
(* every run, later products take in earlier ones, and the images take in  *)
(* the programs.  What is on the disk survives an interrupted run; the     *)
(* argument "c" removes part of it.  How an image is filled is the module  *)
(* ImageBuild; here it is one step.                                        *)
(*                                                                         *)
(* A product is as old as the oldest thing in it: its version is that of   *)
(* the sources it was made from, of its configuration, of the oldest       *)
(* product it took in or of the oldest bytes left in its file, and Absent  *)
(* when it is not there or was left half made; a part of boot.rom is       *)
(* written over what is there and keeps bytes behind it.                   *)
(***************************************************************************)
EXTENDS Naturals, Sequences

CONSTANTS MaxVersion,   \* versions of the sources (bound)
          MaxAborts     \* interruptions (bound)

ASSUME VersionAssumption == MaxVersion \in Nat \ {0} /\ MaxAborts \in Nat

Absent == 0

\* main: what is built, in order; boot.rom has two parts
Order == <<"qemu", "uefi", "tee", "atf", "rom_bl1", "rom_fip", "pflash", "dtb",
           "xen", "linux", "baremetal.rootfs", "domu", "libfdt", "libc", "rust",
           "rtos", "android", "app", "dom0.rootfs", "domu.rootfs",
           "android.rootfs">>
Steps    == 1 .. Len(Order)
\* not the application, whose files no step needs, nor pflash.raw, which has a variable
Products == {Order[k] : k \in Steps} \ {"app", "pflash"}

\* products whose files a step cannot do without; dom0.rootfs takes the application
\* in as well, where there is one
Inputs(p) ==
  CASE p = "atf"                        -> {"uefi", "tee"}
    [] p \in {"rom_bl1", "rom_fip"}     -> {"atf"}
    [] p = "rtos"                       -> {"libfdt", "libc", "rust"}
    [] p = "app"                        -> {"tee"}
    [] p = "baremetal.rootfs"           -> {"dtb", "linux"}
    [] p = "dom0.rootfs"                -> {"dtb", "xen", "linux", "rtos"}
    [] p = "domu.rootfs"                -> {"dtb", "domu"}
    [] OTHER                            -> {}

RomParts == {"rom_bl1", "rom_fip"}        \* two places in the one file boot.rom
DirTrees == {"qemu", "linux", "domu"}     \* configured if the directory is new
Trees    == DirTrees \cup {"xen"}         \* xen: if there is no .config
Wiped    == {"dtb", "rtos"}               \* removed before they are made again

\* clear_artifact, in order
ClearOrder == <<"qemu", "uefi", "tee", "atf", "xen", "linux", "domu", "libc",
                "rust", "rtos">>

VARIABLES
  at,       \* "idle", "run", "clear", "built"
  step,     \* position in Order or in ClearOrder
  sub,      \* part of the step: "test", "config", "make"
  src,      \* version of the sources
  made,     \* version of each product
  tree,     \* "absent", "new" or "ready": where the configured programs are built
  config,   \* version of each configuration
  pflash,   \* pflash.raw: "absent", "short" or "whole"
  cleared,  \* version at the last clear_artifact that came to its end (history)
  aborts    \* interruptions so far

disk == <<made, tree, config, pflash>>
vars == <<at, step, sub, src, disk, cleared, aborts>>

cur == Order[step]
Running == at = "run"

TypeOK ==
  /\ at \in {"idle", "run", "clear", "built"}
  /\ step \in Steps /\ (at = "clear" => step <= Len(ClearOrder))
  /\ sub \in {"test", "config", "make"}
  /\ src \in 1 .. MaxVersion
  /\ made \in [Products -> 0 .. MaxVersion]
  /\ tree \in [Trees -> {"absent", "new", "ready"}]
  /\ config \in [Trees -> 0 .. MaxVersion]
  /\ pflash \in {"absent", "short", "whole"}
  /\ cleared \in 0 .. MaxVersion
  /\ aborts \in 0 .. MaxAborts

Init ==
  /\ at = "idle" /\ step = 1 /\ sub = "test" /\ src = 1
  /\ made = [p \in Products |-> Absent]
  /\ tree = [c \in Trees |-> "absent"]
  /\ config = [c \in Trees |-> Absent]
  /\ pflash = "absent" /\ cleared = 0 /\ aborts = 0

-----------------------------------------------------------------------------
\* The owner edits the sources between runs, and starts the script without an
\* argument or with "c".
Edit ==
  /\ ~ Running /\ at # "clear" /\ src < MaxVersion
  /\ src' = src + 1 /\ at' = "idle"
  /\ UNCHANGED <<step, sub, disk, cleared, aborts>>

Start(what) ==
  /\ at \in {"idle", "built"}
  /\ at' = what /\ step' = 1 /\ sub' = "test"
  /\ UNCHANGED <<src, disk, cleared, aborts>>

\* set -e; the place where a script stopped is not kept
OnError == at' = "idle" /\ step' = 1 /\ sub' = "test"

\* (variant) one call too many
OneMore == step' = step + 1 /\ sub' = "test" /\ UNCHANGED at
\* the next call of main
Advance == /\ IF step < Len(Order) THEN step' = step + 1 /\ UNCHANGED at
                                   ELSE at' = "built" /\ UNCHANGED step
           /\ sub' = "test"

Oldest(S) == CHOOSE v \in S : \A w \in S : v <= w

\* versions of what goes into a product
Taken(p) == {src} \cup {made[i] : i \in Inputs(p)} \cup {config[c] : c \in {p} \cap Trees}
Missing(p) == \E i \in Inputs(p) : made[i] = Absent

\* (variant) make is behind the test for existence as well
BuildOnce(p) ==
  /\ made' = [made EXCEPT ![p] = IF @ = Absent THEN src ELSE @]
  /\ Advance
\* A step that reads its inputs and makes its product.
Build(p) ==
  IF Missing(p) THEN OnError /\ UNCHANGED made
  ELSE made' = [made EXCEPT ![p] = Oldest(Taken(p))] /\ Advance

\* programs without a configuration of their own, copies, images
Plain ==
  /\ Running /\ cur \notin Trees \cup Wiped \cup RomParts \cup {"pflash", "app"}
  /\ Build(cur)
  /\ UNCHANGED <<src, tree, config, pflash, cleared, aborts>>

\* dd ... conv=notrunc: what earlier runs wrote stays behind a part that is shorter now
Left(p) == {w \in 1 .. Oldest(Taken(p)) :
              w = Oldest(Taken(p)) \/ (made[p] # Absent /\ made[p] <= w)}
Rom ==
  /\ Running /\ cur \in RomParts
  /\ IF Missing(cur) THEN OnError /\ UNCHANGED made
     ELSE (\E w \in Left(cur) : made' = [made EXCEPT ![cur] = w]) /\ Advance
  /\ UNCHANGED <<src, tree, config, pflash, cleared, aborts>>

-----------------------------------------------------------------------------
(* qemu, the kernels and xen: a test stands for "is it configured?"        *)

\* if [ ! -d build ]; mkdir, or if [ ! -f .config ]; make fake_defconfig, which
\* leaves a .config and so a configuration
Test ==
  /\ Running /\ cur \in Trees /\ sub = "test"
  /\ IF tree[cur] = "absent"
     THEN /\ tree' = [tree EXCEPT ![cur] = "new"]
          /\ config' = IF cur = "xen" THEN [config EXCEPT ![cur] = src] ELSE config
          /\ sub' = "config"
     ELSE sub' = "make" /\ UNCHANGED <<tree, config>>
  /\ UNCHANGED <<at, step, src, made, pflash, cleared, aborts>>

\* configure, or make ..._defconfig
Configure ==
  /\ Running /\ cur \in Trees /\ sub = "config"
  /\ tree' = [tree EXCEPT ![cur] = "ready"]
  /\ config' = [config EXCEPT ![cur] = IF cur = "xen" THEN @ ELSE src]
  /\ sub' = "make"
  /\ UNCHANGED <<at, step, src, made, pflash, cleared, aborts>>

\* make works where there is a configuration
CanMake(c) == IF c = "xen" THEN tree[c] # "absent" ELSE tree[c] = "ready"

Make ==
  /\ Running /\ cur \in Trees /\ sub = "make"
  /\ IF CanMake(cur) THEN Build(cur) ELSE OnError /\ UNCHANGED made
  /\ UNCHANGED <<src, tree, config, pflash, cleared, aborts>>

-----------------------------------------------------------------------------
\* rm -rf of the old product, then the new one
Wipe ==
  /\ Running /\ cur \in Wiped /\ sub = "test"
  /\ made' = [made EXCEPT ![cur] = Absent]
  /\ sub' = "make"
  /\ UNCHANGED <<at, step, src, tree, config, pflash, cleared, aborts>>

Remake ==
  /\ Running /\ cur \in Wiped /\ sub = "make"
  /\ Build(cur)
  /\ UNCHANGED <<src, tree, config, pflash, cleared, aborts>>

\* if [ ! -f pflash.raw ]; dd
NorFlash ==
  /\ Running /\ cur = "pflash"
  /\ pflash' = IF pflash = "absent" THEN "whole" ELSE pflash
  /\ Advance
  /\ UNCHANGED <<src, made, tree, config, cleared, aborts>>

\* app/trusted/build.sh: without the SDK it says so and exits with 0
Application ==
  /\ Running /\ cur = "app"
  /\ \/ Missing("app") /\ OnError
     \/ Advance
  /\ UNCHANGED <<src, made, tree, config, pflash, cleared, aborts>>

-----------------------------------------------------------------------------
(* clear_artifact                                                          *)

\* (variants) a directory is forgotten
LinuxForgotten(c) == c \in DirTrees \ {"linux"}
QemuForgotten(c)  == c \in DirTrees \ {"qemu"}
\* rm -rf removes the configuration with the directory, but not that of xen
Unconfigured(c) == c \in DirTrees

Clear ==
  /\ at = "clear"
  /\ LET c == ClearOrder[step]
         gone(t) == t = c /\ Unconfigured(t)
     IN  /\ made' = [made EXCEPT ![c] = Absent]
         /\ tree' = [t \in Trees |-> IF gone(t) THEN "absent" ELSE tree[t]]
         /\ config' = [t \in Trees |-> IF gone(t) THEN Absent ELSE config[t]]
  /\ IF step < Len(ClearOrder)
     THEN step' = step + 1 /\ UNCHANGED <<at, cleared>>
     ELSE at' = "idle" /\ cleared' = src /\ step' = 1
  /\ UNCHANGED <<sub, src, pflash, aborts>>

-----------------------------------------------------------------------------
\* A command fails or the script is interrupted: what it was making may be broken.
Abort ==
  /\ at \in {"run", "clear"} /\ aborts < MaxAborts
  /\ OnError /\ aborts' = aborts + 1
  /\ LET broken == IF Running THEN cur ELSE ClearOrder[step]
     IN  \/ UNCHANGED <<made, pflash>>
         \/ /\ broken \in Products
            /\ \E w \in IF broken \in RomParts THEN Left(broken) ELSE {Absent} :
                 made' = [made EXCEPT ![broken] = w]
            /\ UNCHANGED pflash
         \/ /\ Running /\ cur = "pflash" /\ pflash = "absent"
            /\ pflash' = "short" /\ UNCHANGED made
  /\ UNCHANGED <<src, tree, config, cleared>>

Script == Plain \/ Rom \/ Test \/ Configure \/ Make \/ Wipe \/ Remake \/ NorFlash
          \/ Application \/ Clear
Next   == Edit \/ Start("run") \/ Start("clear") \/ Script \/ Abort

Spec == Init /\ [][Next]_vars

\* A script that was started goes on.  Its owner starts it again and again, with and
\* without "c".
FairSpec == /\ Spec /\ WF_vars(Script)
            /\ SF_vars(at = "idle" /\ Start("run")) /\ SF_vars(at = "idle" /\ Start("clear"))

-----------------------------------------------------------------------------
\* the programs with a configuration that are in a product
TreesIn(p) ==
  CASE p \in Trees            -> {p}
    [] p = "baremetal.rootfs" -> {"linux"}
    [] p = "dom0.rootfs"      -> {"xen", "linux"}
    [] p = "domu.rootfs"      -> {"domu"}
    [] OTHER                  -> {}

\* What a run that ends normally leaves behind was made by it from this version of the
\* sources.  Anything older in it is the configuration of a program that is part of it,
\* never a product of an earlier run, whatever interrupted runs and half-cleared trees lay
\* around; and that is no older than the last clear that came to its end, but for xen's,
\* which a clear does not remove.  Not said of the application (also as it is in
\* dom0.rootfs), whose build may be left out, of boot.rom, which keeps bytes of earlier
\* runs behind its parts, and of pflash.raw, which holds the board's settings.
Tracked == Products \ RomParts
OnlyConfigurationsAreOld ==
  at = "built" =>
    \A p \in Tracked : /\ made[p] = Oldest({src} \cup {config[c] : c \in TreesIn(p)})
                       /\ "xen" \notin TreesIn(p) => made[p] >= cleared

\* After clear_artifact has come to its end no program is made with a configuration
\* from before it; xen is the exception, whose .config is not removed.
ConfiguredSinceClear ==
  \A c \in DirTrees : tree[c] = "ready" => config[c] >= cleared

\* Clearing helps: a build that was interrupted anywhere, also between the making of
\* a directory and its configuration, is completed by clearing and starting again.
ClearingHelps == at = "run" ~> at = "built"
=============================================================================
