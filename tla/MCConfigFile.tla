---------------------------- MODULE MCConfigFile ----------------------------
(***************************************************************************)
(* Instances of ConfigFile for TLC.                                        *)
(***************************************************************************)
EXTENDS ConfigFile

CONSTANTS s1, s2, a, b, home, tmp

TwoShells == {s1, s2}

\* Names and directories are made of these pieces; "" is what is on the other
\* side of a colon at an end.
PiecesUsed == {a, b, home, tmp, ""}

\* Two names, one of them set to either of two directories.
Plainly == {[name |-> <<a>>, path |-> <<home>>], [name |-> <<a>>, path |-> <<tmp>>],
            [name |-> <<b>>, path |-> <<home>>]}

\* Colons in the name, in the directory, and a name that is nothing else.
Oddly == {[name |-> <<a, b>>, path |-> <<home>>], [name |-> <<b>>, path |-> <<tmp, home>>],
          [name |-> <<"", "">>, path |-> <<home>>]}

SomeAliases == Plainly \union Oddly

\* Once two shells have run at the same time, they go on with one path only and
\* without colons: what they do to each other does not depend on it.
RivalsAgree ==
  shared => ~colons /\ \A s \in Shells : \A i \in DOMAIN list[s] : list[s][i].path = <<home>>

\* The files without their numbers: what each name or descriptor leads to and
\* which of them lead to the same.  States that differ in the numbers, or in
\* files nothing leads to, have the same future.
View ==
  LET leads == <<path, rd[s1], wr[s1], rd[s2], wr[s2]>>
  IN  <<at, command, list, todo, past,
        [i \in 1..5 |->
           IF leads[i] = NoFile THEN <<>>
           ELSE <<CHOOSE j \in 1..i : leads[j] = leads[i],
                  content[leads[i]], lock[leads[i]]>>]>>
=============================================================================
