----------------------------- MODULE AliasStore -----------------------------
(***************************************************************************)
(* What shortdir promises a user who runs one shell at a time (prj1): a    *)
(* lasting table of names for directories.  A command is asked for and     *)
(* then done, as a whole; a shell that ends leaves the table as it is; one *)
(* that is killed may lose aliases and leave the command undone, and never *)
(* brings an alias back or points it elsewhere.                            *)
(***************************************************************************)
EXTENDS Functions

CONSTANT Commands  \* [op |-> "set", elm |-> e] or [op |-> "del", names |-> N]

VARIABLES alias,  \* alias[n]: the directory the name n stands for
          ask,    \* the commands asked for and not yet done: one or none
          up      \* a shell runs

vars == <<alias, ask, up>>

Without(names) == Restrict(alias, DOMAIN alias \ names)

With(elm) ==
  [n \in DOMAIN alias \union {elm.name} |->
     IF n = elm.name THEN elm.path ELSE alias[n]]

After(c) == IF c.op = "set" THEN With(c.elm) ELSE Without(c.names)

Open  == ~up /\ up' /\ UNCHANGED <<alias, ask>>
Ask   == up /\ up' /\ ask = {} /\ alias' = alias /\ \E c \in Commands : ask' = {c}
Do    == up /\ up' /\ ask' = {} /\ \E c \in ask : alias' = After(c)
Close == up /\ ~up' /\ ask = {} /\ UNCHANGED <<alias, ask>>
Crash ==
  /\ up /\ ~up' /\ ask' = {}
  /\ \E lost \in SUBSET DOMAIN alias : alias' = Without(lost)

Next == Open \/ Ask \/ Do \/ Close \/ Crash
=============================================================================
