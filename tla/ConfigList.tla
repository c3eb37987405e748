----------------------------- MODULE ConfigList -----------------------------
(***************************************************************************)
(* The list of prj1/config.h, and its lines in the file.  Only shortdir    *)
(* keeps elements, all of type "alias", so that an element is a name       *)
(* (args[0]) and a path (args[1]).  Elements are found by the sum of two   *)
(* hashes; the names of an instance are taken to differ in it.             *)
(*                                                                         *)
(* A name or a path is the sequence of its pieces between the colons, one  *)
(* piece if it has none: a:b is <<a, b>>, and : alone is <<"", "">>.       *)
(***************************************************************************)
EXTENDS Naturals, SequencesExt

\* fprintf puts a colon between name and path, and does not mark it off from
\* those within.  (The type and its colon are the same in all lines.)
Line(e) == e.name \o e.path

\* strtok passes over empty pieces.
Filled(line) == {i \in DOMAIN line : line[i] # ""}

\* Without a third field load_config takes the length of nothing.
Readable(e) == \E i, j \in Filled(Line(e)) : i # j

\* The first piece is the name, the next the path; the rest is dropped.
Parsed(e) ==
  LET i == Min(Filled(Line(e)))
      j == Min(Filled(Line(e)) \ {i})
  IN  [name |-> <<Line(e)[i]>>, path |-> <<Line(e)[j]>>]

\* It comes out of the file as it went in.
Plain(e) == Readable(e) /\ Parsed(e) = e

\* Mutant: a name that is already there is added once more.
add_conf_elm_Again(list, elm) == Append(list, elm)

\* The first element with the name gets the new path, or a new one is
\* appended.
add_conf_elm(list, elm) ==
  LET i == SelectInSeq(list, LAMBDA e : e.name = elm.name)
  IN  IF i = 0 THEN Append(list, elm) ELSE ReplaceAt(list, i, elm)

\* Which elements rm_config unlinks.  Ahead of the first element that stays
\* all of them; behind it prev moves on to an element just unlinked, so that
\* the next one stays.
Unlinked(list, names) ==
  LET Matches(i) == list[i].name \in names
      unlinked[i \in DOMAIN list] ==
        /\ Matches(i)
        /\ (\A j \in 1..i : Matches(j)) \/ ~unlinked[i - 1]
  IN  {i \in DOMAIN list : unlinked[i]}

\* The elements at the positions in kept, in their order.
ElementsAt(list, kept) ==
  [k \in 1..Cardinality(kept) |->
     list[CHOOSE i \in kept : Cardinality({j \in kept : j < i}) = k - 1]]

\* Mutant: the first element is not looked at.
rm_config_NotFirst(list, names) ==
  ElementsAt(list, DOMAIN list \ (Unlinked(list, names) \ {1}))

rm_config(list, names) == ElementsAt(list, DOMAIN list \ Unlinked(list, names))

\* fdopen(fd, "w") truncates nothing: the lines overwrite the start of the
\* file.  (All lines are taken to have one length.)
Overwrite(lines, old) == lines \o SubSeq(old, Len(lines) + 1, Len(old))

\* The aliases a sequence of elements stands for; of two elements with one
\* name the later counts.
AliasesOf(lines) ==
  [n \in {e.name : e \in Range(lines)} |->
     lines[SelectLastInSeq(lines, LAMBDA e : e.name = n)].path]
==========================================================
