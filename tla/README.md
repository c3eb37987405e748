# Specifications of Comp304

The repository holds the assignments of an operating-systems course: a
conference of threads, two virtual-memory simulators, a stock sale, a shell, and
some short exercises. There are no tests; the programs are the kind in which
everything interesting depends on an order nobody controls. This directory says
in TLA+ what the programs do, checks it with TLC on small instances, and proves
the most important parts with TLAPS for all values of the constants.

## 1. Inventory

| component | state | operations | what makes it correct |
|---|---|---|---|
| conference, `prj2/main.c` | five global mutexes, `mutex[4]`, `mutex_2[4]`, `queue`, `currentSize`, `curr_com_id`, `_running` | the threads `moderator`, `commmentator` (n of them), `bnews`; `main` creates and joins them | one speaker at a time, in the order of the answers; nobody answers a question not yet asked; news never during a question or a slice of speech; the program ends |
| queue, `prj2/src/queue.c` | `front`, `end`, `size`, `list` | `enqueue`, `dequeue`, `isFull`, `isEmpty`, `getSize` | first in, first out, round a ring of n cells; nothing refused or lost although test and update are separate critical sections |
| threads, `prj2/src/util.c` | `thread_count`, `tid[]` | `create_new_thread`, `join_all`, `pthread_sleep`, `probabilityCheck` | every thread gets its own number |
| paging 1, `prj3/part1.c` | `pagetable`, `tlb`, `tlbindex`, `main_memory`, `free_page` | one access per input line: TLB hit, table hit, page fault | a read returns the page it was meant for |
| paging 2, `prj3/part2.c` | the same with `physicalPageCount`, `free_frame`, fewer frames than pages | the same, two replacement policies | the right frame is replaced, and the page that had it loses it |
| stock sale, `hw2/p2.c` | `stock`, `sold`, a semaphore | `sell` in 700 threads, `main` | sales are atomic; stock and sold add up |
| alias file, `prj1/config.h` | a linked list per shell, `~/.seashellrc` with its locks | load, save, add, get, remove | the file says what the list says; commands have their whole effect; a crash brings nothing back |
| builtins, `prj1/seashell.h` | the list of handlers | `add_cmd`, `handle_cmd`, `shortdir` and four handlers without state | `shortdir` keeps the aliases |
| shell, `prj1/seashell.c` | the line and the line before it, `multicode_state`; children; the terminal's mode | `prompt`, `parse_command`, `process_command` | every key acts as one, however many characters it sends; a shell waits for the command it started; the terminal is given back |
| `hw1` | a pipe between three processes (p2), kernel modules (p3) | `send_time`, `get_time`; load and unload | each process reads the message meant for it |

How they interact. In prj2 the threads share everything in the table: they call
the queue, and signal each other by unlocking mutexes they do not own. A
question goes round like this: the moderator unlocks `question_mutex`; the
commentators pass it, draw whether to answer, enqueue and wait at `mutex3`; the
moderator sleeps half a second, counts the answers, opens `mutex3` and waits at
`mutex1`; the commentator that is last in the line unlocks `mutex1` and locks
`question_mutex` again; all pass `mutex1`; the moderator dequeues one number
after the other, unlocks that commentator's `mutex[]` and waits at its
`mutex_2[]` until it has spoken. The breaking news take `bnews_mutex` in between.
The prj3 programs and hw2 stand alone.

In prj1 each shell loads the alias file before every prompt. Loading adds each
line to the list, and adding saves the whole list: get the name, remove the
file, create it, lock it, write, unlock, close. `shortdir` changes the list and
saves in the same way. Shells share this file and nothing else, unless one has
forked another: a child that does not find its command goes on as a shell, on
the terminal of its parent.

What is hard: locks used as signals, and locked twice by one thread; sleeps in
place of synchronisation; a queue whose test and update are two critical
sections; narrow integers as page numbers; tables that are updated in two places
and read in a third; a semaphore passed by value; a file that is removed and
written again for each of its lines, under a lock that is not on the file that
is removed, by a process that may be killed, with separators that the data may
contain; escape sequences read character by character; `wait` for any child. `PROJECT.json` lists each
hazard at its line with the properties that cover it.

## 2. Modules

| module | what it is |
|---|---|
| `QueueOps` | `queue.c` as operators on a record, one per critical section, the abstraction function `Contents` and the representation invariant `WellFormed` |
| `TurnTaking` | what the conference promises: a line, a floor, no threads |
| `Conference` | `main.c` and `util.c`, one step per lock and unlock; `TurnsSpec` is the refinement of `TurnTaking` |
| `TLBOps` | `search_tlb` and `add_to_tlb`, used by both paging modules |
| `DemandPaging` | what paging promises: each page in a frame of its own from its first use |
| `VirtMem1` | `part1.c`; `PagingSpec` is the refinement of `DemandPaging` |
| `VirtMem2` | `part2.c`, policies 0 and 1 |
| `AtomicSale` | a sale in one step |
| `StockSale` | `p2.c` with its loads and stores; `SalesAreAtomic` is the refinement of `AtomicSale` where the semaphore works |
| `AliasStore` | what `shortdir` promises: a lasting table of names for directories, and what a crash may do to it |
| `ConfigList` | the list of `config.h` as operators on sequences: adding, the removal loop as it is written, and what becomes of an element on its way through the file (`Parsed`) |
| `ConfigFile` | `get_config_file`, `load_config`, `save_config` one system call at a time, `shortdir` and the loop of `main`; `AliasesLast` is the refinement of `AliasStore` |
| `LineEditor` | the keys at the prompt, each acting as one |
| `Prompt` | the loop of `prompt`, one character per step; `KeysActAsOne` is the refinement of `LineEditor` |
| `Jobs` | `main`, the terminal's mode in `prompt`, and `process_command`, with the processes they make |
| `MC...` | constants for TLC |
| `RingProofs` | theorems about the operators of `QueueOps` and `TLBOps`, the two structures indexed modulo their size, used by the three modules next |
| `ConferenceProofs`, `VirtMem1Proofs`, `VirtMem2Proofs` | theorems about the modules of these names |
| `StockSaleProofs`, `PromptProofs`, `JobsProofs`, `ConfigFileProofs` | the same |

Operators named `..._Something` and marked "Mutant" are deliberate errors, used
to make sure that each property can be broken by the code; no specification uses
them.

### Conference

`pc[t]` is where thread t is; a label stands just before a lock or an unlock (or
a sleep), and a step does that one call together with the local work after it.
`locked` holds the global mutexes that are locked, `mutex` and `mutex_2` the
commentators whose own two are. The names of actions are those of the functions;
`Answer` is `enqueue` with its two critical sections, `OpenGate` lines 161-164,
`PassGate` 166-167, `AwaitTurn` 168, `ReportEnd` 170, `StaySilent` 171-174.

- *Mutexes.* The code unlocks what another thread has locked and locks what it
  holds itself. POSIX leaves the first undefined for some kinds of mutex; the
  default mutex of glibc (gcc on Linux) checks no owner: unlock opens it, and opening
  an open one does nothing. That build is what is modelled, and an assumption.
- *Time.* A sleep ends at an arbitrary moment (`Timely = FALSE`), or, to ask what
  holds if sleeps do what they are for, only when every thread that is awake is
  blocked (`Timely = TRUE`), where main's 0.1 s end before the moderator's 0.5 s.
- *Chance.* `rand()` is a nondeterministic choice over the outcomes that
  `probabilityCheck` has for the given percentage.
- *Numbers.* A speech is its number of 0.1 s slices. The `TypeOK` bound on `N`
  comes from the arrays of four mutexes.
- The reads of `currentSize`, `curr_com_id` and `_running` without a lock are
  part of the step at whose label they stand.

### Paging

An input line is one step. Pages stand for addresses and a frame's content is
the page that was copied into it. `UCHAR` is the number of values of an
`unsigned char`: `part1.c` passes pages and frames through it, `part2.c` uses
`int`. In `VirtMem2` the time in microseconds is a clock that grows by 0 or more
with each line (the code goes through floats, so equal times do occur); it is
assumed not to go backwards, and to fit an `int`.

### Stock sale

`stock -= 1` and `sold += 1` are a load and a store through a register. On macOS
`dispatch_semaphore_t` is a reference, elsewhere `psem_wait(psem_t)` gets a copy
of the semaphore, which is always 1. Both platforms are initial states.

### Alias file

`at[s]` is where shell s is: the label `pc` (just before the system call of that
name), which of the three calls of `get_config_file` it is in (`site`), and
whether `load_config` before the loop, the one in the loop, or a command has led
there (`from`). `path` is the file that has the name; a file that was removed
lives on while a shell has it open (`rd`, `wr`).

- *Locks* are POSIX record locks: they belong to a process and a file. That is
  why a shell may take a read lock on one file and a write lock on a newer one,
  and why the lock that `save_config` keeps for an empty list is given back by
  the next close of the same file or never.
- *Content.* `fprintf` writes to a buffer, which `fclose` writes out after the lock
  was given back; `fdopen(fd, "w")` does not truncate (`Overwrite`). Lines are
  taken to have one length, so that overwriting replaces whole lines, and the
  file to fit the first read of `getline`.
- *Colons* separate the fields of a line, and may be in a name or a directory as
  well. These are therefore sequences of the pieces between colons (`a:b` has two,
  `:` two empty ones). `Line` is what `fprintf` writes, `Parsed` what `strtok` makes
  of it: the first two pieces that are not empty. `content` and `todo` have a
  line as the element it was written for, and `add` puts `Parsed` of it into the
  list; where there is no third field (`~Readable`) `strlen` of it ends the shell
  (`crashed`). The history variable `colons` tells whether an alias that does not
  come back as it was (`~Plain`) has been set.
- *Elements* are found by the sum of two hashes; names are taken not to collide.
- *Kills* may come between any two system calls. The history variable `shared`
  tells the runs in which one shell at a time has been up from the others.

In the refinement the table is what counts while the shell is where it is
(`Lines`): the file until its lines are read, then the list and the lines still
to be added, and after a command the file until it has been removed. A shell
that is killed may lose aliases and, before it has removed the file, the command;
one that is left at its prompt loses nothing, which `AliasesLast` asks of `leave` by
name, since a kill there looks the same.

### Prompt and processes

`Prompt` reads `input`, the characters that a key has sent: one, or three for an
arrow (Escape, `[` and a letter, `A` for up). Escape alone is a key too. Nobody
presses a key while the characters of another are being read; what other keys
send (Escape and several characters) is what Escape and these send one by one. `buf` is `buf[0..index-1]`; `touched` says whether `buf[0]` is not 0,
which is what line 479 looks at, and which backspace does not change. Outcomes other
than `reading` are the ends of the shell: Ctrl-D, a 0 written behind `buf`, and
`strlen` of no token. `misread`, `erased` and `recalled` are history variables
for the properties.

In `Jobs` a process is a shell at a label, a child between fork and exec, a
program, a zombie or gone. A line is what `process_command` does with it: nothing
that lasts (`stay`), the end of the shell (`leave`), or a fork, with or without
`&`. Whether the command is found is the child's matter (`execv`, `not_found`).
`wait` collects any zombie child, also one a shell has made before.

## 3. Runs

| run | constants | checks |
|---|---|---|
| `conference_safety` | N=2, Q=2, may stay silent, news or not, speeches of 0 or 1 slices, any schedule | `TypeOK`, `OneSpeaker`, `NewsInterrupt`, `AnswersFit`, `CutShortIsSpeaker`, `SilenceIsFinal`, `TurnsSpec` |
| `conference_live` | N=3, Q=2, all answer, sleeps last, fairness | `HeardWhatWasAsked`, `CountIsComplete`, `Termination` |
| `conference_race` | N=2, Q=2, may stay silent, sleeps last | `HeardWhatWasAsked` is violated |
| `virtmem1` | 6 pages of which 4 fit a char, TLB of 2, 10 lines | `TypeOK`, `ReadsRight`, `TLBCoherent`, `PagingSpec` |
| `virtmem1_alias` | the same with page 4 | `ReadsRight` is violated |
| `virtmem2` | 4 pages, 3 frames, TLB of 2, 7 lines | `TypeOK`, `TLBCoherent`, `ColdFaultsOnly`, `LastFrameIdle`, `InTurn`, `TakesNewest` |
| `virtmem2_lru` | the same | `LeastRecentlyUsed` is violated |
| `stock` | 3 sellers, stock of 2, both platforms, fairness | `TypeOK`, `NoneInvented`, `SalesAreAtomic`, `Termination` |
| `stock_linux` | the same, Linux only | `AllDone` is violated |
| `aliases` | 2 shells, 6 aliases: 2 names, one of them set to either of 2 directories, and 3 with colons in the name or the directory; kills | `TypeOK`, `OnlyRivalsFail`, `FileIsList`, `WaitsForOneThatRuns`, `AliasesLast` |
| `prompt` | lines of up to 3 characters; `[`, `A`, `B`, space, Enter, Tab, Backspace, Ctrl-D, Escape, up and down arrow | `TypeOK`, `OverrunNeedsFullRecall`, `CrashNeedsBlanks`, `KeysActAsOne` |
| `jobs` | a shell and up to 3 processes more | `TypeOK`, `OneForAnother`, `FewReaders`, `TerminalGivenBack` |

Bounds. Two questions are the smallest number at which something may be left
over from the one before: a mutex still open, an old `currentSize`, a commentator
in the wrong round. Two commentators make every pair of roles (first and last in
the line, answering and silent), and the ring of two cells goes round twice;
three in the live run add the one in the middle. (With its invariants alone the safety
configuration also passes for N=3, Q=1 and for N=2, Q=3.) Ten lines fill the TLB of two
entries and all four frames and wrap both around; seven do so in `VirtMem2` and
take each policy past the point where it thinks memory is full. Three sellers
for a stock of two make one go without. With two names the list is empty, has one
element or two, in either order, and a second directory tells a changed alias
from an added one. Once two shells have run at the same time they go on with one
directory only and without colons (the constraint `RivalsAgree`): what they do to each
other is a matter of names, files and locks. Files are compared without their numbers
(`View`), which no action looks at except to take an unused one. With a `buf` of 4 a line has up to three
characters, as many as the longest sequence, so that it can be typed into the line
whole; all of them are near the end of `buf`, and the tests at that end are the ones that
matter. `B` stands for all letters but `A`: the code tells no two of them
apart. Four processes are the first
shell, a command in the background, one in the foreground, and one that takes
the place of either, or a shell made by accident with a command of its own.
Deadlock is not checked where the system
stops: when the threads have ended, at the end of the input, when the shell
(`prompt`) or all processes (`jobs`) have ended, and (safety run) in the state that `SilenceIsFinal` is about.

Fairness. Every thread that can keep taking a step takes one (WF). Two waits need
more, because what they wait for comes and goes: `ask_question` and `speak` want
`bnews_mutex`, which the news may take again and again, and under `Timely` the
end of a sleep has to wait for a step of the news. For these the specification
assumes strong fairness: for b < 1 the mutex is free for seconds between two
news, so a waiter that is woken finds it free. `P = 101` stands for "always": at
100 `probabilityCheck` may still say no. A seller waits for a semaphore that each
of the others takes once, so WF is enough.

### What the violated properties show

- *A question answered before it is asked* (`conference_race`). The last in the
  line opens `mutex1` and then closes `question_mutex`. A commentator that stayed
  silent may slip through `mutex1` in between, come round its loop, and pass the
  open `question_mutex` again.
- *Page 256 is page 0* (`virtmem1_alias`). Not with `addresses.txt`, whose
  pages are below 64.
- *Policy 1 is most recently used* (`virtmem2_lru`).
- *On Linux nothing is locked* (`stock_linux`).

Other properties hold with a condition that the code should not need, and the
condition is the fault; without it TLC finds the counterexample:

- *Aliases are kept by one shell at a time.* `OnlyRivalsFail`: a shell exits with
  an error only after two have run together, because the lock is on the file just
  created. `FileIsList` and `AliasesLast` need the same condition. A single shell
  that is killed may lose aliases, but none that was removed comes back.
- *Names and directories without a colon.* With one, what is loaded is another alias
  than the one that was saved: the name `a:b` comes back as an alias `a` for `b` (at each
  load, also after `a` was removed), a
  directory is cut at its first colon, and a name that is nothing but colons ends the
  shell that loads it, and later ones. `AliasesLast` (none comes back, none ever points elsewhere) and
  the second part of `OnlyRivalsFail` (no shell crashes over a line, however many run)
  are therefore about the others; `FileIsList` holds for all.
- *No deadlock between two shells.* `WaitsForOneThatRuns`: also why `fcntl`
  never returns `EDEADLK` there, which is not modelled. The lock kept by a save
  of an empty list is harmless because the loop loads, and so closes the same
  file, before the next prompt.
- *Collected one for another* (`OneForAnother`): each command in the background that
  ends may be what the shell waits for in place of the one in the foreground.
- *Two shells on one terminal* (`FewReaders`, `TerminalGivenBack`): a command that
  is not found leaves a second shell behind; with `&` both read. Ctrl-D leaves the
  terminal raw.
- *The key after an up arrow or an Escape key* (`KeysActAsOne`) may be typed as `[`,
  `A` or be taken for the up arrow, because `multicode_state` stays 2 or 1; `Misread` lists
  the cases. The other arrows act as one, but as a letter: `LineEditor` types what
  ends their sequence, which is nothing a user presses them for.
- *Typing that stops the shell* (`CrashNeedsBlanks`, `OverrunNeedsFullRecall`): a line of
  spaces, or one erased to nothing; one character after recalling a full line.

And properties that hold but should not: the conference stops for good when
nobody answers a question (`SilenceIsFinal`); `part2.c` gives a frame away
without taking it from the page that had it, so that it never faults twice on a
page (`ColdFaultsOnly`), and leaves the last frame unused (`LastFrameIdle`); 700
sellers cannot sell more than a stock of 1000, whatever the race, although the
comment expects so (`NoneInvented`).

To repeat a run: `tlc -config MCConference_safety.cfg MCConference.tla`, and so on;
the file of a run is named in `PROJECT.json`. To repeat the proofs:
`tlapm ConferenceProofs.tla`.

## 4. Proofs

Every theorem holds for all values of the constants that the named ASSUMEs of its
module allow (TLC evaluates them in each run); where a theorem needs more, its
own ASSUME says so. Each inductive invariant was checked by TLC on the
configuration of its run before it was proved.

**The ring and the TLB** (`RingProofs`). For any capacity and any position of the
ring, `EnqueueAppends`: if the record is `WellFormed` and not full, inserting
keeps it so and `Contents` becomes `Append(Contents, data)`; `DequeueTakesHead`:
removing returns `Head` and leaves `Tail`. The work is in the index arithmetic
modulo the capacity (`WrapOnce`, `Insertion`, `Removal`). For the TLB, `Repeats`
says that its written entries repeat a page table and no page has two of them.
`SearchAgrees`: then `search_tlb` finds what the table says or nothing (the search
for the newest entry returns some entry, because a minimum of ages exists; that
it is the right one follows from there being no other). `AddAgrees`: adding a page
that is not there keeps `Repeats`, whichever entry is overwritten.

**The conference** (`ConferenceProofs`), for one to four commentators, any
schedule and any outcome of `rand()`.

- `FloorTheorem`. `OneSpeaker` is not inductive: it does not say why only the one
  called gets past its `mutex[]`. `FloorInv` adds that until all are created no
  mutex has been touched (`CreationInv`), and `Token`: at any time at most one
  permit is out, an open `mutex[c]`, a commentator c on its way through its speech,
  or an open `mutex_2[c]`, and then c is `idx` and the moderator is where it handed
  that permit out. Each step moves the permit on.
- `NewsTheorem`. `NewsInv`: whoever is on the air has locked `bnews_mutex`,
  and is alone there. A step that does not speak leaves the mutex locked
  (`StaysOffAir`); a slice starts only when it is open, so nobody is on the air.
- `TypeTheorem`, `AnswersTheorem`, `CutShortTheorem` rest on one invariant,
  `ConferenceInv`, whose parts are proved one on top of the other: `Births`
  (threads are created in the order of their numbers), `Rounds` (where a loop
  counter is below Q), `Speeches` (`curr_com_id` names whoever is at a slice),
  `FloorInv`, `LineInv` and `Flags`. `LineInv` is why the ring never overflows
  although `isFull` is tested in a critical section of its own: who is in the line
  waits and is there once, so whoever does not wait finds a place (`PlaceLeft`, by
  the pigeonhole principle); who has been called is out of the line and still waits.
- `SilenceTheorem`: in the state `AllSilent` nobody who would unlock `mutex1` can
  take a step.
- `HeardTheorem`, `CountTheorem` assume `Punctual`: sleeps last, all answer, no speech
  is empty (TLC finds `HeardWhatWasAsked` violated without any one of the three).
  On top of `ConferenceInv`, `Standing` says that who waits is in the line or was called
  from it, and `Stages` goes with the moderator through a question: who is where, and
  which mutex keeps whom there. When its sleep ends nobody can take a step, so all
  are at `mutex3` and in the line (`AllAnswered`), which then is full and has one last
  (`LineFull`, by the pigeonhole principle again); until that one opens
  `mutex1` nobody passes (`Unopened`); until it has locked `question_mutex` it can take
  a step, so no slice of speech ends and nobody is through (`Unclosed`); from then on
  those who are through stay before it (`Speaking`); and when the line is empty all
  are (`AllThrough`).
- `TurnsTheorem`: every step is a step or a stutter of `TurnTaking`. The insertion
  in `enqueue` is `Raise` by `EnqueueAppends`, `dequeue` is `Grant` by
  `DequeueTakesHead`, and the token says that `mutex_2[idx-1]` is unlocked by the one
  that has the floor (`Release`).

**Paging.** `VirtMem1Proofs`: `TypeTheorem` without assumptions; and if the
input refers to pages that fit an `unsigned char` (`Referenced \subseteq Frames`),
`ReadTheorem`, `CoherenceTheorem` and `PagingTheorem`. The invariant `Coherent`
joins: the TLB repeats the page table; a mapped frame holds its page; and the
mapped pages are exactly those whose frames are below the number of faults, one
each, so `free_page` is free (`Allotted`). `VirtMem2Proofs`: all six properties,
under either policy. `Paged` adds to them `Times` (no frame's time of use is
ahead of the clock, and under policy 1 some frame's equals it) and `Turn`
(under policy 0 `free_page` is the number of faults modulo the frames below
the last, plus one: `NextRemainder`). They need each other: the last frame is never used
because its time is 0 and another's is not less, and `TakesNewest` needs the last
frame idle.

**Sales** (`StockSaleProofs`). `SalesTheorem`: where the semaphore is a
reference, at most one seller is past it, what it has loaded is still the value
of the variable, and stock, sold and the seller midway add up (`SaleInv`); so
every step is a sale or a stutter of `AtomicSale`. `OutcomeTheorem` follows: main
finds that the numbers add up. `NoneInventedTheorem` holds on both platforms: a
register is never further from the start than there are stores done.

**The prompt** (`PromptProofs`), for any alphabet and any `buf` of at least three
cells, which is what the two tests of `index` near its end need. `LineInv` joins
`TypeOK` with `Recalled` (a line of the full length has come from the one before) and
`Emptied` (a line that is empty though `buf` was written to has been erased);
`OverrunTheorem` and `CrashTheorem` follow at the step that ends the shell.
`KeysTheorem` is about every key that sends one character, and every arrow, for any
set of letters. `KeysWhole` says, as long as no key was misread, which state each part of an arrow's
sequence is read in; then the last character of a key is what `LineEditor` does with
the key, and those before it are stutters.

**Processes** (`JobsProofs`), for any number of them. `Steps` says in one formula
what a process may do, so that each invariant is taken through six kinds of step
and not through each action. `Family`: processes are born of shells, in turn;
from it a shell that waits has a child. `Alone`: unless the terminal was
dropped or crowded, one shell is at work, and found it cooked. `Places`: those
that are there and do not wait are at most one more than the commands with `&`
(each wait makes room for one and ends by taking one away). `Balance`, for each
shell: the foreground children not collected are the background ones collected
in their place, and one more while it waits.

**The alias file** (`ConfigFileProofs`), for any kills and interleavings.

- `TypeTheorem`, any number of shells: adding and removing keep the names of a list
  distinct, whichever elements `rm_config`'s loop leaves.
  `Types` and `Opens` add that descriptors and locks are on existing files.
- `FileTheorem`, and `RivalsTheorem` for the file that is gone: as long as no two shells have
  run at once. `Sole` says for each label what the file holds and whether it is there
  (`InStep`); at `add`, which is where the file is written again for each of its
  lines, the file is what the list says or has not been touched.
- `RivalsTheorem`, for crashes: any number of shells, without colons. `NoColons` says that
  every element anywhere, in lists, in files, being loaded or being set, comes out of a
  line as it went in (`PlainAlways`), so each line has three fields.
- `AliasesTheorem`, one shell at a time and without colons: every step is a step or a stutter of
  `AliasStore`. Where no name is given two directories (`Agree`), the table depends
  only on which elements there are (`TableOfLines`), so it is enough to follow sets:
  adding puts one element in the place of its namesake (`AddRange`), and `rm_config`
  takes away what it should (`RemoveRange`). Its loop passes over the element after one
  it unlinked behind the first that stays (`Unlinked`); it is right because names
  differ, or because all go (`UnlinkedAll`). The
  invariant `Tidy` says for each label which elements count (`Kept`) and that what
  the file holds is some of them: so whenever the shell is killed nothing comes back.
  Lines are added and saved one by one without changing what counts (`AddKept`), and
  `remove` is where a command is done (`Prepared`, `RemoveTidy`).
- `WaitingTheorem`, two shells, running at once as they like: `Orderly` says who may hold a
  lock on which file. A read lock is on the file being read; a write lock is
  about to be given back, or was left by the save of an empty list, and then its
  owner is about to read that file, and so to close it, or the file has lost its
  name and nobody else can come to it (`LeftLocked`). Two shells that wait want the
  same file, or else each would read what the other writes: but each has removed
  what it reads (`Removed`, `Apart`). With three shells the property is not claimed.

Only model-checked: `Termination` of both systems, because liveness under
fairness is beyond the prover.

## 5. Not modelled

- `front`, `end`, `clear` of the queue (never called) and `freeQueue`.
- More than four commentators: the code then indexes past its arrays.
- The bytes of pages and the offsets (they only pass through), and output.
- The second lap of `free_page` in `part1.c`: the 257th page is in `VirtMem1` (`% UCHAR`),
  but an input with as many pages has one that does not fit an `unsigned char`,
  and for such inputs nothing is claimed.
- What a sleep that is too short does to a conference: with `Timely = FALSE` it
  happens, and only the properties of `conference_safety` are claimed; a late answer or a
  question answered early is not excluded there.
- The out-of-bounds write at `part2.c:141` (before the first access, to memory
  that is zero) and the overflow of the time after half an hour.
- Of `config.h`: lines of different length (overwriting a file with a shorter one
  would leave half a line), files of more than one read, names whose hashes
  collide, a newline in a directory's name, a home directory that cannot be written,
  the error for a file its owner may not read or write (26-30: it was created so
  that he may, and nobody changes that), `EDEADLK`. What two shells
  make of each other's aliases is modelled and not restricted by a property:
  the code promises nothing that it keeps.
- Of `seashell.h`: the handlers without state; `shortdir set` without a name
  (undefined). `kdiff`, `highlight`, `goodMorning` and `tobin` are `stay` in `Jobs`.
- Of `seashell.c`: the words of a line (`parse_command`), whose pipes and
  redirections are never used; the end of the input and signals at the prompt; a
  fork that fails; that the child's search cuts its `PATH` at the first colon, so
  that a shell left behind by `not_found` has a shorter one; programs that use
  the terminal while a shell prompts. The file contains unresolved merge conflict
  markers: the side marked 564ca23, which uses `seashell.h` and `config.h`, is
  the one modelled.
- `hw1`: p1 forks and prints, p3 are kernel modules without lasting behaviour.
  p2 sends the time round three processes on one pipe, kept in order by sleeps
  of given lengths: three fixed sequences, whose only question is whether the
  sleeps are long enough.

## 6. Plan

In order of importance; done.

1. Conference with its queue; both paging programs; stock sale.
2. The shell: alias list and file, prompt, processes.
3. Proofs of every safety property and of the refinements.
