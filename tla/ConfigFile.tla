----------------------------- MODULE ConfigFile -----------------------------
(***************************************************************************)
(* prj1: shells that keep their aliases in one file, ~/.seashellrc.        *)
(* config.h reads and rewrites the file, the main loop of seashell.c loads *)
(* it before every prompt, shortdir (seashell.h) changes it.               *)
(*                                                                         *)
(* A step is one system call on the file with the code up to the next one. *)
(* The file's name may be unlinked and linked to a new file while another  *)
(* shell has the old one open, so a file is apart from its name.  Numbers  *)
(* of files are used again once no name and no open file needs them.       *)
(* fcntl's locks belong to a process and a file: asking again converts the *)
(* process's own lock, and closing any of its descriptors of the file      *)
(* drops it.                                                               *)
(***************************************************************************)
EXTENDS ConfigList, FiniteSets

CONSTANTS Shells,
          Pieces,     \* what names and directories have between colons
          Aliases,    \* the elements users set: records of a name and a path
          NoFile      \* no file

ASSUME ShellsAssumption == IsFiniteSet(Shells)
ASSUME AliasesAssumption == Aliases \subseteq [name : Seq(Pieces), path : Seq(Pieces)]

\* Those set, and what becomes of them by way of the file.
Elements == Aliases \union {Parsed(e) : e \in {f \in Aliases : Readable(f)}}

Names == {e.name : e \in Elements}

Files == 1..(2 * Cardinality(Shells) + 1)

ASSUME NoFileAssumption == NoFile \notin Files

VARIABLES
  at,       \* at[s]: where s is: pc, which call of get_config_file, who called
  command,  \* command[s]: the shortdir command being done: one or none
  list,     \* list[s]: conf_elms
  todo,     \* todo[s]: the lines read and not yet added
  rd, wr,   \* rd[s], wr[s]: the file load_config, save_config has open
  path,     \* the file ~/.seashellrc names
  content,  \* content[f]: the lines of file f
  lock,     \* lock[f][s]: the lock shell s has on file f
  shared,   \* history: two shells have run at the same time
  colons    \* history: an alias that is not plain has been set

vars == <<at, command, list, todo, rd, wr, path, content, lock, shared,
          colons>>
disk == <<path, content>>
memory == <<command, list, todo, rd, wr>>
past == <<shared, colons>>

Off == [pc |-> "off", site |-> "load", from |-> "boot"]

Init ==
  /\ at = [s \in Shells |-> Off]
  /\ command = [s \in Shells |-> {}]
  /\ list = [s \in Shells |-> <<>>]
  /\ todo = [s \in Shells |-> <<>>]
  /\ rd = [s \in Shells |-> NoFile]
  /\ wr = [s \in Shells |-> NoFile]
  /\ path = NoFile
  /\ content = [f \in Files |-> <<>>]
  /\ lock = [f \in Files |-> [s \in Shells |-> "none"]]
  /\ shared = FALSE
  /\ colons = FALSE

Live(s) == at[s].pc \notin {"off", "failed", "crashed"}

Goto(s, l) == at' = [at EXCEPT ![s].pc = l]

Enter(s, l, site, from) ==
  at' = [at EXCEPT ![s] = [pc |-> l, site |-> site, from |-> from]]

Call(s, site, from) == Enter(s, "access", site, from)

SetLock(f, s, l) == lock' = [lock EXCEPT ![f][s] = l]

\* The process ends; the system closes its files and drops its locks.
End(s, pc) ==
  /\ at' = [at EXCEPT ![s] = [Off EXCEPT !.pc = pc]]
  /\ command' = [command EXCEPT ![s] = {}]
  /\ list' = [list EXCEPT ![s] = <<>>]
  /\ todo' = [todo EXCEPT ![s] = <<>>]
  /\ rd' = [rd EXCEPT ![s] = NoFile]
  /\ wr' = [wr EXCEPT ![s] = NoFile]
  /\ lock' = [f \in Files |-> [lock[f] EXCEPT ![s] = "none"]]
  /\ UNCHANGED <<disk, past>>

-----------------------------------------------------------------------------
(* get_config_file, called by load_config and twice by save_config: makes  *)
(* sure that the name is there.                                            *)

Return(s) == Goto(s, [load |-> "open_r", save |-> "remove",
                      recreate |-> "open_w"][at[s].site])

access(s) ==
  /\ at[s].pc = "access"
  /\ Goto(s, IF path = NoFile THEN "create" ELSE "stat")
  /\ UNCHANGED <<memory, disk, lock, past>>

\* The file's owner may read and write it: it was made so (37) and nobody takes
\* that away.
stat(s) ==
  /\ at[s].pc = "stat"
  /\ IF path = NoFile
     THEN End(s, "failed")
     ELSE Return(s) /\ UNCHANGED <<memory, disk, lock, past>>

Unused ==
  Files \ ({path} \union {rd[s] : s \in Shells} \union {wr[s] : s \in Shells})

\* open(O_CREAT) and close.
create(s) ==
  /\ at[s].pc = "create"
  /\ Return(s)
  /\ IF path # NoFile
     THEN UNCHANGED <<disk, lock>>
     ELSE LET f == Min(Unused)
          IN  /\ path' = f
              /\ content' = [content EXCEPT ![f] = <<>>]
              /\ lock' = [lock EXCEPT ![f] = [t \in Shells |-> "none"]]
  /\ UNCHANGED <<memory, past>>

-----------------------------------------------------------------------------
(* load_config *)

open_r(s) ==
  /\ at[s].pc = "open_r"
  /\ IF path = NoFile
     THEN End(s, "failed")
     ELSE /\ Goto(s, "lock_r")
          /\ rd' = [rd EXCEPT ![s] = path]
          /\ UNCHANGED <<command, list, todo, wr, disk, lock, past>>

lock_r(s) ==
  /\ at[s].pc = "lock_r"
  /\ \A t \in Shells \ {s} : lock[rd[s]][t] # "write"
  /\ SetLock(rd[s], s, "read")
  /\ Goto(s, "read")
  /\ UNCHANGED <<memory, disk, past>>

\* The first getline fills the buffer with the whole file.  A line stands as
\* the element it was written for; add takes it apart.
read(s) ==
  /\ at[s].pc = "read"
  /\ todo' = [todo EXCEPT ![s] = content[rd[s]]]
  /\ Goto(s, "add")
  /\ UNCHANGED <<command, list, rd, wr, disk, lock, past>>

\* add_conf_elm ends in save_config: each line read is followed by a save of
\* the whole list.
add(s) ==
  /\ at[s].pc = "add"
  /\ todo[s] # <<>>
  /\ IF ~Readable(Head(todo[s]))
     THEN End(s, "crashed")
     ELSE /\ list' = [list EXCEPT ![s] = add_conf_elm(@, Parsed(Head(todo[s])))]
          /\ todo' = [todo EXCEPT ![s] = Tail(@)]
          /\ Call(s, "save", at[s].from)
          /\ UNCHANGED <<command, rd, wr, disk, lock, past>>

\* Unlock and close.  main loads once before its loop and once in it.
close_r(s) ==
  /\ at[s].pc = "add"
  /\ todo[s] = <<>>
  /\ SetLock(rd[s], s, "none")
  /\ rd' = [rd EXCEPT ![s] = NoFile]
  /\ IF at[s].from = "boot" THEN Call(s, "load", "loop") ELSE Goto(s, "prompt")
  /\ UNCHANGED <<command, list, todo, wr, disk, past>>

-----------------------------------------------------------------------------
(* save_config *)

\* Mutants: the file is not created again; the old file is written over.
remove_Straight(s) ==
  /\ at[s].pc = "remove"
  /\ path' = NoFile
  /\ Enter(s, "open_w", "recreate", at[s].from)
  /\ UNCHANGED <<memory, content, lock, past>>

remove_Not(s) ==
  /\ at[s].pc = "remove"
  /\ Call(s, "recreate", at[s].from)
  /\ UNCHANGED <<memory, disk, lock, past>>

remove(s) ==
  /\ at[s].pc = "remove"
  /\ IF path = NoFile
     THEN End(s, "failed")
     ELSE /\ path' = NoFile
          /\ Call(s, "recreate", at[s].from)
          /\ UNCHANGED <<memory, content, lock, past>>

open_w(s) ==
  /\ at[s].pc = "open_w"
  /\ IF path = NoFile
     THEN End(s, "failed")
     ELSE /\ Goto(s, "lock_w")
          /\ wr' = [wr EXCEPT ![s] = path]
          /\ UNCHANGED <<command, list, todo, rd, disk, lock, past>>

\* Mutant: only main's first load is left.
Saved_NoLoad(s) ==
  /\ command' = [command EXCEPT ![s] = {}]
  /\ wr' = [wr EXCEPT ![s] = NoFile]
  /\ Enter(s, IF at[s].from = "command" THEN "prompt" ELSE "add", "load", at[s].from)

\* Back to the line after the one just added, or out of the command and to
\* the load of the main loop.
Saved(s) ==
  /\ command' = [command EXCEPT ![s] = {}]
  /\ wr' = [wr EXCEPT ![s] = NoFile]
  /\ IF at[s].from = "command"
     THEN Call(s, "load", "loop")
     ELSE Enter(s, "add", "load", at[s].from)

\* An empty list: save_config returns with the file open and locked.
lock_w(s) ==
  /\ at[s].pc = "lock_w"
  /\ \A t \in Shells \ {s} : lock[wr[s]][t] = "none"
  /\ SetLock(wr[s], s, "write")
  /\ IF list[s] = <<>>
     THEN Saved(s) /\ UNCHANGED <<list, todo, rd, disk, past>>
     ELSE Goto(s, "unlock") /\ UNCHANGED <<memory, disk, past>>

\* The lines are in the buffer of stdio.
unlock(s) ==
  /\ at[s].pc = "unlock"
  /\ SetLock(wr[s], s, "none")
  /\ Goto(s, "fclose")
  /\ UNCHANGED <<memory, disk, past>>

\* They reach the file.
fclose(s) ==
  /\ at[s].pc = "fclose"
  /\ content' = [content EXCEPT ![wr[s]] = Overwrite(list[s], @)]
  /\ Saved(s)
  /\ UNCHANGED <<list, todo, rd, path, lock, past>>

-----------------------------------------------------------------------------
(* shortdir_handler, from the main loop *)

Set(e)     == [op |-> "set", elm |-> e]
Del(names) == [op |-> "del", names |-> names]

\* del takes one name, clear them all.
Commands ==
  {Set(e) : e \in Aliases} \union {Del({n}) : n \in Names} \union {Del(Names)}

\* rm_config does not save a list that was empty.
shortdir(s, c) ==
  /\ at[s].pc = "prompt"
  /\ IF c.op = "del" /\ list[s] = <<>>
     THEN Call(s, "load", "loop") /\ UNCHANGED memory
     ELSE /\ Call(s, "save", "command")
          /\ command' = [command EXCEPT ![s] = {c}]
          /\ list' = [list EXCEPT ![s] = IF c.op = "set" THEN add_conf_elm(@, c.elm)
                                                         ELSE rm_config(@, c.names)]
          /\ UNCHANGED <<todo, rd, wr>>
  /\ colons' = (colons \/ (c.op = "set" /\ ~Plain(c.elm)))
  /\ UNCHANGED <<disk, lock, shared>>

\* Any command that leaves the aliases alone.
other(s) ==
  /\ at[s].pc = "prompt"
  /\ Call(s, "load", "loop")
  /\ UNCHANGED <<memory, disk, lock, past>>

\* exit, Ctrl-D, del without a name; or a crash: jump to a name that is not
\* there takes get_conf's NULL for an array.
leave(s) ==
  /\ at[s].pc = "prompt"
  /\ End(s, "off")

start(s) ==
  /\ ~Live(s)
  /\ Call(s, "load", "boot")
  /\ shared' = (shared \/ \E t \in Shells : Live(t))
  /\ UNCHANGED <<memory, disk, lock, colons>>

\* Killed between any two system calls.
kill(s) ==
  /\ Live(s)
  /\ End(s, "off")

get_config_file(s) == access(s) \/ stat(s) \/ create(s)
load_config(s) == open_r(s) \/ lock_r(s) \/ read(s) \/ add(s) \/ close_r(s)
save_config(s) == remove(s) \/ open_w(s) \/ lock_w(s) \/ unlock(s) \/ fclose(s)

Run(s) == get_config_file(s) \/ load_config(s) \/ save_config(s)

Next ==
  \E s \in Shells :
    \/ Run(s) \/ other(s) \/ leave(s) \/ start(s) \/ kill(s)
    \/ \E c \in Commands : shortdir(s, c)

Spec == Init /\ [][Next]_vars

-----------------------------------------------------------------------------
(* Properties *)

\* No list ever has two elements with one name, whatever the file holds.
TypeOK ==
  /\ at \in [Shells -> [pc : {"off", "failed", "crashed", "access", "stat", "create", "open_r",
                              "lock_r", "read", "add", "prompt", "remove", "open_w",
                              "lock_w", "unlock", "fclose"},
                        site : {"load", "save", "recreate"},
                        from : {"boot", "loop", "command"}]]
  /\ command \in [Shells -> {{}} \union {{c} : c \in Commands}]
  /\ list \in [Shells -> Seq(Elements)]
  /\ todo \in [Shells -> Seq(Elements)]
  /\ rd \in [Shells -> Files \union {NoFile}]
  /\ wr \in [Shells -> Files \union {NoFile}]
  /\ path \in Files \union {NoFile}
  /\ content \in [Files -> Seq(Elements)]
  /\ lock \in [Files -> [Shells -> {"none", "read", "write"}]]
  /\ shared \in BOOLEAN /\ colons \in BOOLEAN
  /\ \A s \in Shells : \A i, j \in DOMAIN list[s] :
       list[s][i].name = list[s][j].name => i = j

\* A shell stops with an error only where two have run at the same time: the
\* file is never gone by the shell's own doing, whenever an earlier one was
\* killed.  (With two shells it happens: the lock is taken on the file just
\* created, config.h:178-190, and protects neither lines 19-21 nor 174.)  And
\* none crashes over a line without a third field (144) unless names or
\* directories with colons have been set: rivals do not break lines.
OnlyRivalsFail ==
  /\ ~shared => \A s \in Shells : at[s].pc # "failed"
  /\ ~colons => \A s \in Shells : at[s].pc # "crashed"

\* As long as one shell runs at a time, what it goes by when it prompts is
\* what the file says, line by line, although the file was written once for
\* each line it has.
FileIsList ==
  ~shared => \A s \in Shells :
    at[s].pc = "prompt" => path # NoFile /\ content[path] = list[s]

\* t has a lock s waits for.
WaitsFor(s, t) ==
  /\ s # t
  /\ \/ at[s].pc = "lock_r" /\ lock[rd[s]][t] = "write"
     \/ at[s].pc = "lock_w" /\ lock[wr[s]][t] # "none"

\* Of two shells, one that waits for a lock waits for one that runs on and
\* waits for nothing: neither for one that waits itself, nor for one that
\* sits at its prompt with the lock save_config did not give back
\* (config.h:196).  While load_config holds the lock on the file it reads,
\* its saves lock a newer one.
WaitsForOneThatRuns ==
  \A s, t \in Shells : WaitsFor(s, t) =>
    /\ at[t].pc # "prompt"
    /\ \A u \in Shells : ~WaitsFor(t, u)

OnDisk == IF path = NoFile THEN <<>> ELSE content[path]

\* A command has changed the list, and the old file is still there.
Pending(s) == at[s].site = "save" /\ command[s] # {}

\* The lines that count while shell s runs: a command is done once the old
\* file is gone.
Lines(s) ==
  CASE Pending(s) -> OnDisk
    [] at[s].site = "load" /\ at[s].pc \notin {"add", "prompt"} -> list[s] \o OnDisk
    [] OTHER -> list[s] \o todo[s]

Running == {s \in Shells : Live(s)}

\* What a user sees of it: the aliases that count, and the command that is
\* still to be done.
Told == AliasesOf(IF Running = {} THEN OnDisk
                  ELSE Lines(CHOOSE s \in Shells : Live(s)))

Asked == UNION {command[s] : s \in {t \in Shells : Pending(t)}}

Store == INSTANCE AliasStore WITH alias <- Told, ask <- Asked, up <- Running # {}

\* One shell at a time keeps the promise of AliasStore, killed and started
\* again at whatever point, for names and directories without a colon; where
\* it is left and not killed, nothing is lost.
AliasesLast ==
  [][~shared' /\ ~colons' => /\ [Store!Next]_(Store!vars)
                            /\ \A s \in Shells : leave(s) => Store!Close]_vars
=============================================================================
