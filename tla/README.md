# Verification of the baize board project

This directory models the parts of the repository that have state worth
arguing about, checks them with TLC on small instances and proves the central
properties with TLAPS for every value of the constants.

## 1. The system

The repository builds and runs an emulated ARM board: firmware, a hypervisor,
Linux as dom0, and Linux, Android or ThreadX guests. Most of the software on
the board is in git submodules that are not part of the repository. What is
the repository's own:

| part | state | operations | what is hard about it | what makes it correct |
|---|---|---|---|---|
| disk images (`build_all.sh`) | four images with partitions and files, `emmc.img`; loop devices and mounts of the host; `$loopdev`, `p1`, `p2`, `rootfs.cpio` shared by five functions | create, partition, format, attach, mount, wipe, fill, unmount, detach | any of some fifty commands may fail or be interrupted; devices, mounts and files outlive the shell | nothing is written outside the image being built, runs leave no trace, a finished run is complete and has replaced what it writes |
| tools (`tools/*.sh`) | the same loop devices, `p1` and `p2` | mount and unmount the image, copy out of it | run between and beside builds, with the same race between `losetup -f` and `losetup` | never use the build's device |
| program builds (`build_all.sh`) | build directories and configurations | configure once, make, clear | configured once if a directory exists, which it does before it is configured | a later run repeats what was interrupted |
| event bus (`rtos/app/rust/src/framework`) | the list of handlers in a `RefCell`, the `dispatch` calls in progress | `register_handler`, `dispatch`, `handle` | handlers call the bus again; a borrow at the wrong moment panics | each event reaches the handlers registered at its dispatch, once and in order |
| C library: memory (`rtos/libc`) | per call: cursors, counters, a register | `memmove`, `memcpy`, `memset` in C and in two assemblies, the byte-order functions of `endian.h` | overlap and wrap-around, alignment without an MMU, counts used up bit by bit, bytes of a register beside the one that is meant | the area and nothing else is written, with what was there or with the value |
| C library: strings | one buffer; `strtok_r`: the saved pointer | `strlcpy`, `strlcat`, `strtok_r`; `strlen`, `strnlen`, `strchr`, `strrchr`, `strcmp`, `strncmp`, `memchr`, `memrchr`, `memcmp` | boundaries of buffers, a pointer that outlives the contents it was saved for, signed characters | no byte outside the buffer is touched, each call returns what it is declared to |
| C library: formats and numbers | per call: cursors, accumulators, buffer | `snprintf`, `printf`, `strtol`, `strtoul` and their long versions | gotos that share state between parts of a format, sizes around the length of the output, overflow | no silent overflow, the documented output |
| C library: non-local return | `jmp_buf`, registers, stack | `setjmp`, `longjmp` | code of any kind between the two, a stack that has been left | the context is the one saved, the second return is told from the first |
| Rust application (`rtos/app/rust`) | 512-byte heap, stack, list of init functions | `rust_main`, thread loop | panics spin; the stack is measured by whom it belongs to | - |
| board (`run.sh`, `supporting/`) | configuration | start QEMU, start guests | - | - |

The parts meet at few places. The build fills images with programs it built
before (files on the host); the board runs from the images, whose file systems its
guests may write to; the tools read what Android wrote. In the ThreadX
guest the Rust application prints through the C library's `printf`, and a Rust
panic is an endless loop, so what the library does with its buffers and what
the bus does with its borrows decides whether the guest goes on.

## 2. Modules

| module | models | builds on |
|---|---|---|
| `ImageBuild` | the image part of `build_all.sh`, the tools, the guests | - |
| `ImageBuild_proofs` | its theorems | `ImageBuild` |
| `EventBus` | `bus.rs`, `event.rs`, the handlers of `example.rs` and of the test | `SnapshotBus` |
| `SnapshotBus` | abstract: what the bus promises | - |
| `EventBus_proofs` | its theorems, with the refinement | `EventBus` |
| `Memmove`, `Memmove_proofs` | `memmove.c` with `memcpy.c` | - |
| `Endian` | `endian.h` and the `endian_.h` of both architectures | - |
| `Fields` | numbers in a byte order in the memory `memmove` works on | `Memmove`, `Endian` |
| `Fill` | abstract: what `memset` promises | - |
| `MemsetCalls` | the parameters of `memset` and the memory | - |
| `Memset` | `memset.c`, `aarch64/memset.S`, `aarch32/memset.S` | `MemsetCalls`, `Fill` |
| `Setjmp` | `aarch64/setjmp.S` and the program around it | - |
| `Assembly_proofs` | theorems of `Memset`, with the refinement, and of `Setjmp` | `Memset`, `Setjmp` |
| `Snprintf`, `Snprintf_proofs` | `snprintf.c` | - |
| `Printf` | `printf.c` | - |
| `Formats` | a program that prints and formats the same arguments | `Snprintf`, `Printf` |
| `FormatDoc` | what the comments of `snprintf.c` and `printf.c` promise, per part of a format | - |
| `StrtoCalls` | the parameters of the four functions | - |
| `Strto`, `Strto_proofs` | `strtol.c`, `strtoll.c`, `strtoul.c`, `strtoull.c` | `StrtoCalls` |
| `Strings`, `Strings_proofs` | `strlcpy.c`, `strlcat.c`, `strtok.c` and nine functions that search or compare, on one buffer | - |
| `Pipeline`, `Pipeline_proofs` | the build of the programs in `build_all.sh` and its argument `c`, `app/trusted/build.sh` | - |

Each `MC...` module gives the constants of its module finite values for TLC. `MCMemory`
and `MCStrings` each have two components, of which a behaviour calls one: `memmove` with
the byte orders (`Fields`) or `memset`; the functions on strings or `strtol` and
`strtoul`. These functions share no state, so nothing is lost by calling one of them.

### ImageBuild

One action per shell command that changes state, in the order of the script.
`pc` is the next command; `Order` and `cur` say which image the same four
commands are working on, since `update_rootfs_for_*` differ only in the number
of the root partition, the use of `rootfs.cpio` and the two extra `mkfs` of
Android. `set -e` is `OnError`: a command whose precondition does not hold ends
the script.

The host is part of the model: `backing` is what each loop device is attached
to, `mounts` the stack of mounts on `p1` and `p2` (a second mount hides the
first one), `autoclear` the devices that were detached while still mounted and
disappear with the last unmount. These outlive the script. `losetup`, `mount`
and `mkfs` are not in the repository; they are modelled by when they fail and
what they change, and marked external. A command that works on `p1` or `p2`
reaches `Where(d)`: the top mount, or the bare host directory if there is none.

The contents of a volume are a set of tags: whose files they are (an image's or a
guest's), whether this run or an earlier one wrote them, and which of three kinds of name
they have: one that the update function writes (`listed`), one that it does not
(`other`), or one at the top of the partition that begins with a dot (`dot`). `Start` ages
all tags, and as a version may drop a name, what was `listed` may be `other` from then on.
The boot partitions are never wiped: `cp` replaces the files it names and the rest stays.
On the root partitions `rm -rf p2/*` removes all but the dot-files, which `*` does not
match and `cpio -idm` without `-u` need not replace; they are what `BuildsAreFresh` lets
remain. Its guests (`GuestRun`) run between builds: QEMU attaches the images of a command
line writable, and what it runs may write any file in any file system of them. A build
while the board runs is not modelled.

`Abort` stops the script at any command in `AbortPoints` with the command not
done, except that `dd` has created its file. `Reboot` does the same and clears
loop devices and mounts. The tools are actions of the environment:
`extract_shader_cache.sh` and `logcat.sh` run at any time, `mount-rootfs.sh`
and `umount-rootfs.sh` between builds, since they work in the directories the
script is using, and `umount-rootfs.sh` is given the number of a device that
the owner attached, not one of a running tool.

### EventBus

`borrow` is the count of shared borrows in the `RefCell`; `frames` are the
`dispatch` calls in progress with the position of their iterators. A handler is
a record of the type it downcasts to, the message it asserts and whether it asserts that
no event has another name: the handler of `example.rs` does neither, the one of the test
both. `Accepts` has the three ways in which `handle` can panic apart: `Unwraps`,
`Expected` and the name (`Named`). `register_handler` may find the heap of 512 bytes full
(`HeapMayFill`). A handler that is running may call `dispatch` and
`register_handler`, which is all a reference to the bus allows: the handlers of
the repository do not hold one. `MaxNested` bounds the calls made during one dispatch:
what is cut off are handlers that dispatch to themselves for ever, which do not end, so
`DispatchEnds` is about the others.
`RefCell` is not `Sync`, so there are no threads.

The refinement maps each frame to what is still owed of its event,
`SubSeq(handlers, pos + 1, Len(handlers))`. It is a refinement only because the
list cannot change while any frame is open.

### Memmove

Addresses and sizes are `0 .. N - 1` and their subtraction wraps around
(`Minus`). One action copies one byte.

### Endian, Fields

The functions for byte orders keep no state: `Endian` has them as operators on a
memory and on numbers. A byte has `Radix` values, so a shift by 8 is a factor
`Radix`; the rotations and `eor` of aarch32 work on the four bytes of a register.
`Fields` puts them on the memory of `Memmove`: what `memmove` does to a field of
two, four or eight bytes is what decoding and encoding it must do, at any
addresses, whether the fields overlap or not.

### Memset, Fill

`Memset` has the three versions beside each other, chosen by `params.impl`, since they
have one shape: single bytes up to an aligned pointer (`Head`), blocks of 8, 64 or 32
bytes (`BlockRound`), and the rest, in C byte by byte (`TailByte`) and in assembly by
the bits of the count (`TailBit`), each at its width. `count` and the flags are those of
the code: aarch32 notices a count of zero only as a borrow and returns early when no
bit below is set (`NothingBelow`). `reg` holds the bytes of the register that is
stored; the assembly takes it as the caller left it, with `high` beside the value.
`Fill` is the promise: bytes of the area take the value, in any order and any number
at a time, and the return comes when all have it. Memory starts with `Old`, which is
no byte, so a byte that was not written is seen.

### Setjmp

`Run` is any code between `setjmp` and `longjmp`: it sets a register that a called
function must keep and moves the stack pointer. `env` is the array of words with the
offsets of `setjmp_.h`. The register of `val` has two halves, of which an `int` gives the
lower one. Whether a function that called `setjmp` has returned is the program's affair:
`jmp_buf` is then used on a stack that is gone, which the assertion of `longjmp` (a choice
of the build, `Assertions`) catches only when the jump would go deeper.

### Snprintf, Printf, Formats, FormatDoc

A call is a format, a list of arguments, a size and what the documentation says
of that format. The actions are the labels of the source: the text loop, the
`switch`, the digits of the width, and the loop over the digits of a number.
`CHECK_AND_PUT_CHAR` is `PutChars`. `out` is a history of everything given to
it. An `int` has `IntSpan` values. A format that ends in a percent sign makes
the code step over the NUL; the model stops there (`pc = "outside"`), since
what follows depends on the memory behind the format. The assertion for unknown
conversions is there or not depending on the build, which is a choice of the
model. `printf` fetches an `int`, or with a length modifier a wider type (`SignedArg`,
`UnsignedArg`), and is stuck on an argument of another type, which the language leaves
undefined. `Formats` is one program with both: it prints a format with `printf` and
then formats the same arguments with `snprintf`.

`Conversion` of `FormatDoc` gives one reading to both comments: the number that is padded
has its sign in it, whatever either function does. `printf` does what its comment says;
`snprintf` does not always, so `FormattedAsDocumented` is said of the calls of which every
part is in `SnprintfAgrees` (`call.agreed`). The other ones run in `formats` as well, but
only the buffer and the result are checked, not the text; section 4 lists them, and
`snprintf_long` and `snprintf_field` show two kinds of them violating
`OutputAsDocumented`. So does an unlisted specifier: `snprintf.c:105` says that the
function panics, which it does only with assertions.

The last section of `Formats` says which formats these are in general:
`SnprintfAgrees` and `PrintfAgrees` are the conversions on which a comment and its
code agree, `SnprintfDescribed` and `PrintfDescribed` the calls made of any number of
them, with plain characters and `%%` between them and, for `printf`, something it must
reject (`Refused`) at the end. `AgreedConversions` in `MCFormats` has TLC check which
conversions of the run are among them and which are not.

### Strto

A call is a record with the function (`strtol` or `strtoul`), the string, the base and
whether `endptr` is given; `strtoll` and `strtoull` have the same code with a larger
`Half`. White space is what `isspace` of `stdlib.h` takes for it: a backspace is, a form
feed is not, whatever other libraries do. `exact` is a history of the number the digits
stand for without wrap-around.

### Strings

A caller copies into one buffer, appends to it, cuts it into tokens, searches it and
compares it, in any order, for ever: nothing bounds the number of calls. One action
takes one round of a function's loop; `memchr` and `memrchr` share one loop, whose step
is the direction. The functions that need a string are called only when the buffer holds one. The sources lie outside the buffer, a size is never larger than the buffer, and
`strtok_r` is given the buffer only when it holds a string. With `NULL` it goes on
from `last`, whatever the other functions have done to the buffer since; that a
string still ends behind it is `SavedPointerSafe`. `before` is the buffer when the
present call began, for the postconditions.

### Pipeline

`Order` is `main`, one entry for each product, `Inputs` what a step takes from
earlier ones (without it the step fails and `set -e` ends the run). `made` holds
for each product the oldest version that is in it: of the sources it was made from
(always the present ones, for a step that calls `make`), of the configuration its program
was made with (`config`), of the products it takes in (`Taken`), and for the two parts of
`boot.rom` of the bytes that `dd conv=notrunc` leaves behind them (`Left`). A file of the
application is needed by no step, and its build may be left out, so its version is not
recorded; the images of Android come from `rootfs-hub`, so `android.rootfs` takes in no
product. A step that always calls `make` is one action (`Plain`); `qemu`, `xen`
and the kernels are the three actions `Test`, `Configure` and `Make`, since the
test looks at a directory that exists before its configuration does. `Abort` may
come at any point and may destroy the product in hand. The owner edits the sources
between runs only. What is in an image, and whether one can be filled at all, is
`ImageBuild`: the two modules share `build_all.sh` but no state, because the images
take in files by copying and no program is built from an image. In `Pipeline` an
image is a product like any other.

## 3. Runs

| run | question | bounds |
|---|---|---|
| `image_faults` | interruptions anywhere: is anything written elsewhere, left over, half done, and does running the script again complete the build, if no image was left half made and a device is free again and again? | 2 loop devices, 2 interruptions or reboots, the board run in between (269 thousand states) |
| `image_tools` | the tools beside the build | 3 loop devices, no interruptions (364 thousand states) |
| `image_stuck` | and if an image was left half made? (violated) | 3 loop devices, 1 interruption |
| `pipeline` | is nothing in the products of a run older than their configurations, are these renewed by `c`, does clearing help? | 2 versions of the sources, 2 interruptions (685 thousand states) |
| `bus` | borrows, iterators, the promise, the causes of a panic, with the handlers of the example and of the test, events that each of them accepts and does not, and nested calls | 3 handlers in the list, 3 nested calls |
| `memory` | `memmove`: every overlap; numbers in both byte orders; every way to swap bytes. `memset`: all three versions against `Fill`, alignment | 9 bytes of address space, every content over two values; real widths, 8 alignments, counts 0 to 41 and around 64, 96 and 128, registers with and without other bytes (1.06 million states) |
| `strings` | any sequence of calls on one buffer; overflow, saturation and parsing of numbers | 4 bytes, every content over two characters and NUL, one of them negative as a `char`, 16 source strings, with and without a delimiter, 3 needles, 3 strings to compare with, no bound on the calls; six-bit word, strings of up to eight characters, bases 0, 2, 8, 10, 16 and 36 (1.2 million states) |
| `formats` | both outputs against their comments where these agree with the code, the buffer, the results, the stop of `printf` at unlisted conversions | formats of up to two parts, sizes 0 to 9 and 40, unsupported conversions (175 thousand states) |
| `snprintf_long` | the output of `%ld` (violated) | formats of up to two parts |
| `snprintf_field` | the output of numbers of both signs in fields (violated) | formats of up to two parts, fields of four places |
| `printf_count` | does `printf` return the number of characters it printed? (violated) | formats of up to two parts |
| `setjmp_zero` | does `longjmp` with 0 come back as 1? (violated) | two values for each half of `val`, one for the registers |

Why the bounds are enough. Two interruptions are what it takes to leave two
different kinds of leftovers and run over them. `image_faults` has as many devices as
interruptions, so these can leak all of them, after which no run gets past `losetup -f`; in
`image_tools` a tool has one, the script has one, and there is a third to take in between. The bus needs two levels of nesting for a frame to be neither first nor
last, and three handlers for a position in the middle. Nine bytes contain every
relation of two areas of up to four bytes, disjoint ones included, and two fields of
eight bytes that overlap; since the byte-order functions only move bytes, two values
of a byte tell any two of them apart in some content. `memset` has three regimes, which
meet at the word, at the block and at the bits below it: the counts are those around
each of these from every alignment, with two blocks and a rest in between. Two parts of
a format show what one conversion leaves behind for the next, and sizes up to 9
lie on both sides of the length of most outputs. A buffer of four characters has
room for two tokens with a delimiter on either side and can be filled from behind
and in front of a saved pointer. Two versions of the sources tell a stale product
from a current one, and two interruptions cover one in a run and one in the clear
that was meant to repair it. In a six-bit word the
signed numbers end at -32 and 31, the unsigned ones at 63. The strings have the last
number that fits and the first that does not, on both sides, in the bases 2, 8 and 10:
overflow comes at the second or third digit in base 10 and 8 and only at the sixth or
seventh in base 2. Letters are digits in the bases 16 and 36, in both cases.

Fairness. `image_faults` and `image_stuck` assume that a started script goes on
and that its owner starts it again after an interruption; the number of
interruptions is finite by its bound. `RetryWorks` needs no more of the scheduling, but it
is stated only for behaviours in which no interruption leaves a half-made image (the other
ones are `image_stuck`) and in which a loop device is free again and again: an interrupted
run leaks its device, and when the last one is gone no later run attaches anything until
the host is started anew, which nothing in the script does. Both happen in the run, and
`RetryWorks` says that nothing else stops the build for good. `pipeline` assumes the same and that the
owner, who can see that a run has failed, again and again starts the script both
with and without `c` (strong fairness, since the script is not always at rest).
`bus` assumes that the loop of
`dispatch` goes on and that a handler returns; there is one thread and the
handlers have no loops. No run assumes
fairness of a tool, an interruption or a caller. Deadlock checking is off only
in `memory` and `setjmp_zero`: the first ends when the function has
returned, the second at the assertion. The other functions stay in an explicit
final step.

## 4. Disagreements between the code and its documentation

| run | the code | says otherwise |
|---|---|---|
| `image_stuck` | `build_all.sh:183` takes an image file that exists for a finished one; after an interrupted `mkfs` no later run builds it | `README.rst:54` |
| `snprintf_long` | `snprintf.c:174` cuts a `long` to an `int` | comment at `snprintf.c:96` |
| `snprintf_field` | `snprintf.c:177` puts a minus sign before the padding and beside the width: `%4d` of -5 is a sign, three spaces and the digit. `printf.c:119` takes the sign off the width | comment at `snprintf.c:102` |
| `printf_count` | `printf.c:111` and `117` print past the counter that `vprintf` returns | comment at `printf.c:99` |
| `setjmp_zero` | `aarch64/setjmp.S:58` tests the whole register of the `int` `val`; with anything in its upper half a 0 comes back as 0 | comment at `setjmp.S:59` |

Other places where the code and a comment part were met while modelling. The
models follow the code, and the properties about the output leave the case out:

* `snprintf.c:189` ignores the width of a string (comment at `snprintf.c:102`).
* `snprintf.c:207` puts 0x before the padding of a pointer, as it does with a sign.
* `snprintf.c:208` makes the width of a pointer without a field negative; with a single
  digit a space is put out behind it (comments at `snprintf.c:93` and `107`).
* `snprintf.c:224` to `227`, for a specifier that is not listed: the error message and the
  panic handler are empty macros (lines 13 and 14), and only a build with assertions stops;
  the comment at line 105 says that the function panics. Without assertions the code goes on
  behind the specifier; the model has both.
* `setjmp_.h:25` says that x18 to x30 are saved; `setjmp.S` begins with x19, and x18 is
  the platform register, which a program may not keep anything in.

## 5. Proofs

All proofs hold for every value of the constants that satisfies the named
assumptions of the modules (`NLoopsAssumption`, `SpaceAssumption` and so on);
TLC evaluates the same assumptions.

* `ImageBuild_proofs`. The safety properties are not inductive: that `umount p1`
  removes the script's own mount needs the stack below it, and that the device
  is still the script's needs to know who else may detach it. `IInv` joins the
  type invariant, `StackDiscipline`, `OwnLoop`, `DevicesSound` (no pending
  detach on a device that the tool holds) and `ArchiveIsOwn`. From it follow
  `TypeCorrectness`, `StacksDisciplined`, `LoopOwned`, `WritesStay` and
  `NoForeign`. Two more layers stand on it. What a run has completed is said label by
  label: `Made` for the files of the images, `Refreshed` for their contents, where a
  mount that succeeded is what shows that a partition was formatted, perhaps by a run
  long ago; from them `BuiltUsable` and `Freshness`, which says label by label which
partitions hold this run's files, with nothing else of a listed name (`Overlaid`) or nothing
else but dot-files (`Refilled`). What a run has taken from the
  host is said by `MountsSound` (a mounted device is attached, a device that waits for
  its release is mounted, the tool's is not) and `Traced` (the devices attached are
  those found, the tool's and the script's own); from them `NoTrace`.
* `EventBus_proofs`. `IInv` is the type invariant with `BorrowsAreFrames` and
  `IteratorsValid`. `ListNeverMoves` follows since a registration succeeds only
  with no borrow, hence no frame. `PanicsHaveCauses` says that the bus panics only
  for want of memory for its list, for a registration from inside `handle`, or for an event
  that the handler called does not accept, by name, type or message, and
  `CarefulProgramsNeverPanic` that a program without all of these never does. `Refines` shows that the initial state is the
  abstract one and that each step is a step of `SnapshotBus` or leaves it alone.
* `Memmove_proofs` has the theorems of `Memmove` and of `Fields`. The invariant says of the direction chosen by the unsigned
  subtraction that it is the right one: a forward copy with `dst < src` or
  disjoint areas, a backward copy with `dst > src`; then what is unread is
  intact and what is written is right. `CodecsMove` and `Swaps` are about a field of two,
  four or eight bytes when `memmove` has returned: with the powers of the radix written as
  products, a number is the sum of its bytes times their weights, and quotient and
  remainder by a weight give them back. They hold for a byte of any number of values, and
  the rotations of aarch32 need of `eor` only that it is commutative, undoes itself and
  leaves a byte alone with 0 (`XorAssumption`).
* `Assembly_proofs`. For `Memset` the invariant says where the pointer is (`Place`: as
  far into the area as bytes are gone from the count), that what is left before a width is
  less than twice that width (so that its bits are exactly the stores to come), that the
  pointer is a multiple of every width still to come, and that the register has the value
  in every byte from the blocks on. `Alignment` is
  then immediate, and `Implements` shows that every step is one of `Fill`. For `Setjmp` it
  says that `env` holds what `setjmp` saw, which `Restores` and `Shallower` need.
* `Strings_proofs`. The invariant relates, for each loop, the position, what is left and
  what has been written; behind the write position the buffer is as it was before, and the
  NUL that ends the string behind the saved pointer is behind it too or about to be replaced.
  The length of a string is a least index with a NUL, whose existence comes from the
  well-foundedness of the naturals (no induction is needed). From it follow `Inside`,
  `SavedIsSafe` and the postconditions `Copies`, `Tokens` and `ScansReturn`, for any buffer,
  characters, sources and sequence of calls.
* `Snprintf_proofs`. The invariant is that `chars_printed` is the length of `out`, that the
  write position is the smaller of that length and the room, and that the buffer up to it is
  a prefix of `out` with nothing touched behind. `StaysInSize` and `FillsWhatFits` hold for
  every format, also those nobody supports, every argument and every size. `BothTyped` adds
  `printf`: that it takes only arguments that were passed is the guard `Given`, which is what
  the language leaves undefined otherwise; that it stays inside its format and counts no
  more than it prints follows from its steps.
  `DocumentedOutput`, `DocumentedPrinting` and `CountingWithoutSigns` are about what a whole
  format means, for any number of parts. The invariant (`Walk` of `snprintf`, `PWalk` of
  `printf`) says where the interpreter is in the parts: between two of them it has put out
  the outputs of those behind it (`Between`, `PBetween`), within one it is at a place of its
  spelling, with the width, the padding and the digits read so far and the argument still to be
  taken (`Within`, `PWithin`). One lemma per place and action says where the step leads;
  `printf` has besides `PRefusing`, the way through a conversion that it does not know, and
  `Past`, what it has printed beside its counter. Three facts about recursive functions carry this:
  what `Digits` puts together is what the loop over a number puts in front of each other,
  a width is read back from its digits, and `Upto` of the parts grows by one part at a time.
  That these functions exist with their recursive equations is the lemma `Recursion`;
  induction is stated for a set of naturals, from the least element of its complement.
  The theorems are about the formats of `SnprintfDescribed` and `PrintfDescribed`: for `snprintf`,
  what section 4 lists is left out (a negative number in a field, a pointer in a field of blanks
  or of a single digit, the width of a string, a `long` that is not an `int`, unlisted
  specifiers), of which `snprintf_long` and `snprintf_field` refute the same property; for
  `printf`, every field but `%0NN`, which are the ones its comment describes.
  `FormattedOutput` gives `FormattedAsDocumented` of the run for any calls made of such parts.
  `CountingWithoutSigns` is the counterpart of `printf_count`: without a percent sign or a
  negative number the counter is right.
* `Strto_proofs`. The invariant is that the accumulator is the exact number and
  at most `Limit`, or that overflow was noticed and the exact number is above
  it. One lemma about division says that the test with cutoff and cutlim is
  exactly `acc * base + d > Limit`. `ReadingIsDescribed` is an induction over the string: the
  reading position is between the declared start and stop of the digits, every place passed
  holds a digit, and `exact` is the value of the places passed; so the result is the value of
  the declared digits with the declared sign, or the end of the range. The function that gives
  values is recursive; that there is one comes from `Recursion`, and induction itself from
  the least-number principle for a set, which needs no operator as a parameter.
* `Pipeline_proofs`. `OnlyConfigurationsAreOld` speaks of the end of a run only, so
  `IInv` adds `EarlierCurrent`, that during a run every product before the present
  call is as old as the oldest configuration in it (`TreesIn`), and `TreesGone`, that `c` has removed the configured directories
  it has passed. `InputsEarlier` (main makes what a step reads before that step)
  and `WipedOnce` (what is removed first stands at one place of main) are the two
  facts about the order of the calls that the induction needs; `TreesInto` says that the
  configurations in a product are its own and those in its inputs, `TreesEarlier` that main
  makes a configured program before what it is in, so that a configuration made now is in
  nothing the run has passed.

Only model-checked: liveness (`EventuallyBuilt`, `RetryWorks`, `DispatchEnds`,
`ClearingHelps`), which is beyond the prover as `ENABLED` is. Every invariant and every
action property of a passing run is a theorem; those about the outputs of formats under the
hypotheses just named.

## 6. Not modelled

* `.rust_init` and the features: a loop over a table that the linker builds.
* `rust_main` and the thread: four calls in a row and an endless loop. Who calls
  `rust_main`, and whether the new thread runs before it returns, is decided in the
  ThreadX port, a submodule.
* The heap and the stack of the Rust application: sizes that the compiler and an
  external crate decide.
* `println!` with fragments that do not end in a NUL: depends on the layout of
  the binary.
* `putchar`, `puts`, `abort`, `assert`, `exit`: a call or two, or an endless loop. The console
  is a weak symbol that discards what it is given.
* The C headers beside `endian.h`: constants, types and prototypes. `errno.h` lists
  error numbers that nothing in the library sets.
* The device trees, guest configurations and the QEMU command line: data.
* Failures of hardware and file system beyond a command that fails as a whole.
* What a guest or a tool does to an image while it is being built: the board is off during a
  build.
* What of `emmc.img` the board needs: a file of zeros that an interrupted `mkfs` left is
  accepted by every later run, and nothing in the script would notice.
* Whether the boot loader minds what an earlier run left behind a part of `boot.rom`, and what a
  short `pflash.raw` does to the board.

## 7. Plan

The modules were written in the order of their weight: first the image
build, which has the most ways to go wrong, then the bus, then the library from the
functions others depend on to the leaves, then the order of the builds, then the
assembly and the byte orders. What is left is the application, once the ThreadX port is
part of the tree: `rust_main`, the registration of features and the loop of the thread,
composed with `EventBus` so that an event is dispatched from a feature's `init` to handlers
that registered before it.
