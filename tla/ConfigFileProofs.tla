-------------------------- MODULE ConfigFileProofs --------------------------
(***************************************************************************)
(* Theorems about ConfigFile, for any aliases and, but for the last one,   *)
(* any number of shells.                                                   *)
(***************************************************************************)
EXTENDS ConfigFile, FiniteSetTheorems, SequenceTheorems, WellFoundedInduction, TLAPS

-----------------------------------------------------------------------------
(* Lists *)

LEMMA Least ==
  ASSUME NEW S \in SUBSET Nat, S # {}
  PROVE  Min(S) \in S /\ \A b \in S : Min(S) <= b
<1>1. PICK a \in S : \A b \in S : ~(<<b, a>> \in OpToRel(<, Nat))
  BY NatLessThanWellFounded, WFMin
<1>2. ASSUME NEW b \in S PROVE a <= b
  <2>1. b < a => <<b, a>> \in OpToRel(<, Nat)
    BY DEF OpToRel
  <2>2. ~(b < a)
    BY <1>1, <2>1, Zenon
  <2> QED
    BY <2>2
<1>3. \E x \in S : \A y \in S : x <= y
  BY <1>2
<1> QED
  BY <1>3 DEF Min

Distinct(l) == \A i, j \in DOMAIN l : l[i].name = l[j].name => i = j

\* No list has two elements with one name.
Lists == {l \in Seq(Elements) : Distinct(l)}

\* A name that is there gets the new path, another one comes last.
LEMMA AddFits ==
  ASSUME NEW l \in Lists, NEW elm \in Elements
  PROVE  add_conf_elm(l, elm) \in Lists
<1> DEFINE found == {i \in 1..Len(l) : l[i].name = elm.name}
           i == IF found # {} THEN Min(found) ELSE 0
<1>1. add_conf_elm(l, elm) = IF i = 0 THEN Append(l, elm) ELSE [l EXCEPT ![i] = elm]
  BY DEF add_conf_elm, SelectInSeq, ReplaceAt
<1>2. /\ l \in Seq(Elements) /\ Distinct(l) /\ DOMAIN l = 1..Len(l) /\ Len(l) \in Nat
  BY DEF Lists
<1>3. CASE found = {}
  <2>1. i = 0 /\ add_conf_elm(l, elm) = Append(l, elm)
    BY <1>1, <1>3
  <2> HIDE DEF i
  <2>2. \A k \in 1..Len(l) : l[k].name # elm.name
    BY <1>3
  <2>3. /\ Append(l, elm) \in Seq(Elements) /\ DOMAIN Append(l, elm) = 1..(Len(l) + 1)
        /\ \A k \in 1..Len(l) : Append(l, elm)[k] = l[k]
        /\ Append(l, elm)[Len(l) + 1] = elm
    BY <1>2
  <2>4. Distinct(Append(l, elm))
    BY <1>2, <2>2, <2>3 DEF Distinct
  <2> QED
    BY <2>1, <2>3, <2>4 DEF Lists
<1>4. CASE found # {}
  <2>1. found \in SUBSET Nat
    BY <1>2
  <2>2. i \in found
    BY <1>4, <2>1, Least
  <2>3. i \in 1..Len(l) /\ i # 0 /\ l[i].name = elm.name
    BY <1>2, <2>2
  <2>4. add_conf_elm(l, elm) = [l EXCEPT ![i] = elm]
    BY <1>1, <2>3
  <2> HIDE DEF i, found
  <2> DEFINE m == [l EXCEPT ![i] = elm]
  <2>5. m \in Seq(Elements) /\ DOMAIN m = 1..Len(l)
    BY <1>2, <2>3, ExceptSeq
  <2>6. \A k \in 1..Len(l) : m[k].name = l[k].name
    BY <1>2, <2>3
  <2>7. Distinct(m)
    BY <1>2, <2>5, <2>6 DEF Distinct
  <2> QED
    BY <2>4, <2>5, <2>7 DEF Lists
<1> QED
  BY <1>3, <1>4

\* For each k there is a k-th member.
LEMMA Ranks ==
  ASSUME NEW S \in SUBSET Nat, IsFiniteSet(S), NEW k \in 1..Cardinality(S)
  PROVE  \E i \in S : Cardinality({j \in S : j < i}) = k - 1
<1> DEFINE Below(i) == {j \in S : j < i}
           n == Cardinality(S)
           T == 0..(n - 1)
           r == [i \in S |-> Cardinality(Below(i))]
<1>1. n \in Nat /\ n >= 1
  BY FS_CardinalityType
<1>2. \A i \in S : IsFiniteSet(Below(i)) /\ Cardinality(Below(i)) \in Nat
  <2> TAKE i \in S
  <2>1. Below(i) \in SUBSET S
    OBVIOUS
  <2> HIDE DEF Below
  <2> QED
    BY <2>1, FS_Subset, FS_CardinalityType
<1>3. ASSUME NEW i \in S PROVE r[i] \in T
  <2>1. Below(i) \in SUBSET (S \ {i})
    OBVIOUS
  <2>2. IsFiniteSet(S \ {i}) /\ Cardinality(S \ {i}) = n - 1
    BY FS_RemoveElement
  <2> HIDE DEF Below
  <2>3. Cardinality(Below(i)) <= n - 1
    BY <2>1, <2>2, FS_Subset
  <2> QED
    BY <1>1, <1>2, <2>3
<1>4. ASSUME NEW i \in S, NEW j \in S, i < j PROVE r[i] < r[j]
  <2>1. (Below(i) \cup {i}) \in SUBSET Below(j) /\ i \notin Below(i)
    <3>1. \A x \in S : x \in Nat
      OBVIOUS
    <3>2. \A x \in S : x < i => x < j
      BY <1>4, <3>1
    <3>3. ~(i < i)
      BY <3>1
    <3> QED
      BY <1>4, <3>2, <3>3
  <2> HIDE DEF Below
  <2>2. Cardinality(Below(i) \cup {i}) = Cardinality(Below(i)) + 1
    BY <1>2, <2>1, FS_AddElement
  <2>3. Cardinality(Below(i) \cup {i}) <= Cardinality(Below(j))
    BY <1>2, <2>1, FS_Subset
  <2> QED
    BY <1>2, <2>2, <2>3
<1>5. r \in [S -> T]
  BY <1>3
<1>6. \A i, j \in S : r[i] = r[j] => i = j
  <2> SUFFICES ASSUME NEW i \in S, NEW j \in S, i # j PROVE r[i] # r[j]
    OBVIOUS
  <2>1. i < j \/ j < i
    OBVIOUS
  <2>2. r[i] \in Nat /\ r[j] \in Nat
    BY <1>2
  <2> HIDE DEF r
  <2> QED
    BY <1>4, <2>1, <2>2
<1>7. IsFiniteSet(T) /\ Cardinality(T) = n
  <2> HIDE DEF n, r
  <2>1. 0 \in Int /\ n - 1 \in Int /\ ~(0 > n - 1) /\ (n - 1) - 0 + 1 = n
    BY <1>1
  <2> QED
    BY <2>1, FS_Interval
<1> HIDE DEF r, T, Below
<1>8. r \in Injection(S, T)
  BY <1>5, <1>6 DEF Injection, IsInjective
<1>9. r \in Surjection(S, T)
  BY <1>7, <1>8, FS_Injection
<1>10. k - 1 \in T
  BY <1>1 DEF T
<1>11. PICK i \in S : r[i] = k - 1
  BY <1>9, <1>10 DEF Surjection
<1>12. r[i] = Cardinality(Below(i))
  BY DEF r
<1> QED
  BY <1>11, <1>12 DEF Below

\* Taking elements out leaves a list, whichever they are.
LEMMA ElementsFit ==
  ASSUME NEW l \in Lists, NEW kept \in SUBSET DOMAIN l
  PROVE  ElementsAt(l, kept) \in Lists
<1> DEFINE n == Cardinality(kept)
           Rank(i) == Cardinality({j \in kept : j < i})
           place == [k \in 1..n |-> CHOOSE i \in kept : Rank(i) = k - 1]
           m == [k \in 1..n |-> l[place[k]]]
<1>1. l \in Seq(Elements) /\ Distinct(l) /\ DOMAIN l = 1..Len(l) /\ Len(l) \in Nat
  BY DEF Lists
<1>2. kept \in SUBSET Nat /\ IsFiniteSet(kept) /\ n \in Nat
  <2>1. IsFiniteSet(1..Len(l))
    BY <1>1, FS_Interval
  <2> QED
    BY <1>1, <2>1, FS_Subset, FS_CardinalityType
<1>3. \A k \in 1..n : place[k] \in kept /\ Rank(place[k]) = k - 1
  <2> TAKE k \in 1..n
  <2>1. \E i \in kept : Rank(i) = k - 1
    BY <1>2, Ranks
  <2> HIDE DEF Rank
  <2> QED
    BY <2>1
<1>4. ElementsAt(l, kept) = m
  BY DEF ElementsAt
<1> HIDE DEF place, Rank, n
<1>5. m \in Seq(Elements) /\ DOMAIN m = 1..n
  BY <1>1, <1>2, <1>3
<1>6. \A i, j \in 1..n : place[i] = place[j] => i = j
  BY <1>2, <1>3
<1>7. Distinct(m)
  BY <1>1, <1>3, <1>5, <1>6 DEF Distinct
<1> QED
  BY <1>4, <1>5, <1>7 DEF Lists

LEMMA RemoveFits ==
  ASSUME NEW l \in Lists, NEW names
  PROVE  rm_config(l, names) \in Lists
BY ElementsFit DEF rm_config

\* The lines written, and what is left of a longer file.
LEMMA OverwriteFits ==
  ASSUME NEW lines \in Seq(Elements), NEW old \in Seq(Elements)
  PROVE  /\ Overwrite(lines, old) \in Seq(Elements)
         /\ old = <<>> => Overwrite(lines, old) = lines
<1>1. SubSeq(old, Len(lines) + 1, Len(old)) \in Seq(Elements)
  OBVIOUS
<1>2. old = <<>> => SubSeq(old, Len(lines) + 1, Len(old)) = <<>>
  OBVIOUS
<1> QED
  BY <1>1, <1>2, ConcatProperties, ConcatEmptySeq DEF Overwrite

LEMMA Couple == \A x, y : <<x>> \o <<y>> = <<x, y>>
<1> SUFFICES ASSUME NEW S, NEW x \in S, NEW y \in S PROVE <<x>> \o <<y>> = <<x, y>>
  <2>1. \A x, y : x \in {x, y} /\ y \in {x, y}
    OBVIOUS
  <2> QED
    BY <2>1
<1>1. /\ <<x>> \in Seq(S) /\ <<y>> \in Seq(S) /\ <<x, y>> \in Seq(S)
      /\ Len(<<x>>) = 1 /\ Len(<<y>>) = 1 /\ Len(<<x, y>>) = 2
  OBVIOUS
<1> DEFINE both == <<x>> \o <<y>>
<1>2. /\ both \in Seq(S) /\ Len(both) = 2
      /\ both[1] = x /\ both[2] = y
  BY <1>1, ConcatProperties
<1> HIDE DEF both
<1>3. \A i \in 1..Len(both) : both[i] = <<x, y>>[i]
  BY <1>2
<1> QED
  BY <1>1, <1>2, <1>3, SeqEqual DEF both

\* What strtok leaves of a line: two pieces, and taken apart once more it stays
\* the same.
LEMMA ParsedStays ==
  ASSUME NEW e \in Aliases, Readable(e)
  PROVE  Readable(Parsed(e)) /\ Parsed(Parsed(e)) = Parsed(e)
<1> DEFINE line == Line(e)
           i == Min(Filled(line))
           j == Min(Filled(line) \ {i})
           two == <<line[i], line[j]>>
<1>1. Filled(line) \in SUBSET Nat
  <2>1. e.name \in Seq(Pieces) /\ e.path \in Seq(Pieces)
    BY AliasesAssumption
  <2>2. line \in Seq(Pieces)
    BY <2>1, ConcatProperties DEF Line
  <2> HIDE DEF line
  <2>3. DOMAIN line = 1..Len(line) /\ Len(line) \in Nat
    BY <2>2
  <2>4. \A n \in 1..Len(line) : n \in Nat
    BY <2>3
  <2> QED
    BY <2>3, <2>4, Zenon DEF Filled
<1>2. PICK k, l \in Filled(line) : k # l
  BY DEF Readable
<1>3. i \in Filled(line)
  BY <1>1, <1>2, Least
<1>4. j \in Filled(line)
  <2>1. Filled(line) \ {i} # {} /\ Filled(line) \ {i} \in SUBSET Nat
    BY <1>1, <1>2
  <2> QED
    BY <2>1, Least
<1>5. line[i] # "" /\ line[j] # ""
  BY <1>3, <1>4 DEF Filled
<1>6. Parsed(e) = [name |-> <<line[i]>>, path |-> <<line[j]>>]
  BY DEF Parsed
<1> HIDE DEF line, i, j
<1>7. Line(Parsed(e)) = two
  <2>1. <<line[i]>> \o <<line[j]>> = two
    BY Couple
  <2> HIDE DEF two
  <2> QED
    BY <1>6, <2>1 DEF Line
<1> HIDE DEF two
<1>8. DOMAIN two = {1, 2} /\ two[1] = line[i] /\ two[2] = line[j]
  BY DEF two
<1>9. Filled(two) = {1, 2}
  BY <1>5, <1>8 DEF Filled
<1>10. Min({1, 2}) = 1
  <2>1. Min({1, 2}) \in {1, 2} /\ Min({1, 2}) <= 1
    BY Least
  <2> QED
    BY <2>1
<1>11. Min({1, 2} \ {1}) = 2
  <2>1. {1, 2} \ {1} = {2}
    OBVIOUS
  <2>2. Min({2}) \in {2}
    BY Least
  <2> QED
    BY <2>1, <2>2
<1>12. Parsed(Parsed(e)) = [name |-> <<two[1]>>, path |-> <<two[2]>>]
  BY <1>7, <1>9, <1>10, <1>11 DEF Parsed
<1>13. Readable(Parsed(e))
  BY <1>7, <1>9 DEF Readable
<1> QED
  BY <1>6, <1>8, <1>12, <1>13

LEMMA ParsedFits ==
  ASSUME NEW e \in Elements, Readable(e)
  PROVE  Parsed(e) \in Elements
<1>1. CASE e \in Aliases
  BY <1>1 DEF Elements
<1>2. CASE e \notin Aliases
  <2>1. PICK f \in Aliases : Readable(f) /\ e = Parsed(f)
    BY <1>2 DEF Elements
  <2> QED
    BY <2>1, ParsedStays
<1> QED
  BY <1>1, <1>2

-----------------------------------------------------------------------------
(* Types *)

Pcs == {"off", "failed", "crashed", "access", "stat", "create", "open_r",
        "lock_r", "read", "add", "prompt", "remove", "open_w", "lock_w", "unlock", "fclose"}
Places == [pc : Pcs, site : {"load", "save", "recreate"},
           from : {"boot", "loop", "command"}]

\* What is open while it is used.
Opens ==
  \A s \in Shells :
    /\ at[s].pc \in {"lock_r", "read"} => rd[s] \in Files
    /\ at[s].pc \in {"lock_w", "unlock", "fclose"} => wr[s] \in Files

Types ==
  /\ at \in [Shells -> Places]
  /\ command \in [Shells -> {{}} \union {{c} : c \in Commands}]
  /\ list \in [Shells -> Lists]
  /\ todo \in [Shells -> Seq(Elements)]
  /\ rd \in [Shells -> Files \union {NoFile}]
  /\ wr \in [Shells -> Files \union {NoFile}]
  /\ path \in Files \union {NoFile}
  /\ content \in [Files -> Seq(Elements)]
  /\ lock \in [Files -> [Shells -> {"none", "read", "write"}]]
  /\ shared \in BOOLEAN /\ colons \in BOOLEAN

LEMMA EmptyList == <<>> \in Lists /\ <<>> \in Seq(Elements)
<1>1. <<>> \in Seq(Elements) /\ DOMAIN <<>> = {}
  BY EmptySeq
<1> QED
  BY <1>1 DEF Lists, Distinct

LEMMA TypesFit == Types => TypeOK
BY DEF Types, TypeOK, Lists, Distinct, Places, Pcs

LEMMA InitTypes == Init => Types /\ Opens
<1> SUFFICES ASSUME Init PROVE Types /\ Opens
  OBVIOUS
<1>1. Off \in Places
  BY DEF Off, Places, Pcs
<1>2. Types
  BY <1>1, EmptyList DEF Init, Types
<1>3. Opens
  BY DEF Init, Opens, Off
<1> QED
  BY <1>2, <1>3

\* As many files as names and descriptors may need, and one more.
LEMMA SomeUnused ==
  ASSUME Types, path = NoFile
  PROVE  Min(Unused) \in Files \cap Unused /\ Min(Unused) # NoFile
<1> DEFINE Image(f) == {f[s] : s \in Shells}
           n == Cardinality(Shells)
<1>1. IsFiniteSet(Shells) /\ n \in Nat
  BY ShellsAssumption, FS_CardinalityType
<1>2. ASSUME NEW f \in [Shells -> Files \union {NoFile}]
      PROVE  IsFiniteSet(Image(f)) /\ Cardinality(Image(f)) <= n
             /\ Cardinality(Image(f)) \in Nat
  <2>1. f \in Surjection(Shells, Image(f))
    BY DEF Surjection
  <2> HIDE DEF Image
  <2> QED
    BY <1>1, <2>1, FS_Surjection, FS_CardinalityType
<1>3. /\ IsFiniteSet(Image(rd)) /\ Cardinality(Image(rd)) <= n /\ Cardinality(Image(rd)) \in Nat
      /\ IsFiniteSet(Image(wr)) /\ Cardinality(Image(wr)) <= n /\ Cardinality(Image(wr)) \in Nat
  BY <1>2 DEF Types
<1> DEFINE both == Image(rd) \cup Image(wr)
<1>4. IsFiniteSet(both) /\ Cardinality(both) <= 2 * n /\ Cardinality(both) \in Nat
  <2> HIDE DEF Image, n
  <2>1. /\ IsFiniteSet(both)
        /\ Cardinality(both) = Cardinality(Image(rd)) + Cardinality(Image(wr))
                                 - Cardinality(Image(rd) \cap Image(wr))
    BY <1>3, FS_Union
  <2>2. Cardinality(Image(rd) \cap Image(wr)) \in Nat
    BY <1>3, FS_Intersection, FS_CardinalityType
  <2>3. \A i, j, k \in Nat : i <= n /\ j <= n => i + j - k <= 2 * n
    BY <1>1
  <2>4. Cardinality(both) <= 2 * n
    BY ONLY <1>3, <2>1, <2>2, <2>3
  <2> QED
    BY <2>1, <2>4, FS_CardinalityType
<1>5. Cardinality(Files) = 2 * n + 1 /\ IsFiniteSet(Files) /\ Files \in SUBSET Nat
  <2> HIDE DEF n
  <2>1. 2 * n + 1 \in Int /\ ~(1 > 2 * n + 1) /\ (2 * n + 1) - 1 + 1 = 2 * n + 1
    BY <1>1
  <2>2. Files = 1..(2 * n + 1)
    BY DEF Files, n
  <2> QED
    BY <2>1, <2>2, FS_Interval
<1>6. ~(Files \subseteq both)
  <2> HIDE DEF both
  <2> SUFFICES ASSUME Files \subseteq both PROVE FALSE
    OBVIOUS
  <2>1. Cardinality(Files) <= Cardinality(both)
    BY <1>4, FS_Subset
  <2> HIDE DEF n
  <2> QED
    BY <1>1, <1>4, <1>5, <2>1
<1>7. Unused # {} /\ Unused \in SUBSET Files
  BY <1>6, NoFileAssumption DEF Unused
<1>8. Min(Unused) \in Unused
  BY <1>5, <1>7, Least
<1> QED
  BY <1>7, <1>8, NoFileAssumption

\* Where shell s goes, and the others stay.
Put(s, l, site, from) ==
  /\ at' \in [Shells -> Places]
  /\ at'[s] = [pc |-> l, site |-> site, from |-> from]
  /\ \A t \in Shells \ {s} : at'[t] = at[t]

LEMMA Going ==
  ASSUME Types, NEW s \in Shells
  PROVE  /\ at[s].site \in {"load", "save", "recreate"}
         /\ at[s].from \in {"boot", "loop", "command"}
         /\ \A l \in Pcs : Goto(s, l) => Put(s, l, at[s].site, at[s].from)
         /\ \A l \in Pcs, site \in {"load", "save", "recreate"},
               from \in {"boot", "loop", "command"} :
              Enter(s, l, site, from) => Put(s, l, site, from)
         /\ \A l \in {"off", "failed", "crashed"} : End(s, l) => Put(s, l, "load", "boot")
         /\ Return(s) => \E l \in {"open_r", "remove", "open_w"} :
                           /\ Put(s, l, at[s].site, at[s].from)
                           /\ l = "open_r" <=> at[s].site = "load"
                           /\ l = "remove" <=> at[s].site = "save"
                           /\ l = "open_w" <=> at[s].site = "recreate"
<1>1. at \in [Shells -> Places] /\ at[s] \in Places
  BY DEF Types
<1>2. at[s].site \in {"load", "save", "recreate"} /\ at[s].from \in {"boot", "loop", "command"}
  BY <1>1 DEF Places
<1>3. ASSUME NEW l \in Pcs, Goto(s, l) PROVE Put(s, l, at[s].site, at[s].from)
  BY <1>1, <1>3 DEF Goto, Put, Places
<1>4. ASSUME NEW l \in Pcs, NEW site \in {"load", "save", "recreate"},
             NEW from \in {"boot", "loop", "command"}, Enter(s, l, site, from)
      PROVE  Put(s, l, site, from)
  BY <1>1, <1>4 DEF Enter, Put, Places
<1>5. ASSUME NEW l \in {"off", "failed", "crashed"}, End(s, l) PROVE Put(s, l, "load", "boot")
  <2>1. at' = [at EXCEPT ![s] = [pc |-> l, site |-> "load", from |-> "boot"]]
    <3>1. [Off EXCEPT !.pc = l] = [pc |-> l, site |-> "load", from |-> "boot"]
      BY DEF Off
    <3> QED
      BY <1>5, <3>1 DEF End
  <2> QED
    BY <1>1, <2>1 DEF Put, Places, Pcs
<1>6. ASSUME Return(s)
      PROVE  \E l \in {"open_r", "remove", "open_w"} :
               /\ Put(s, l, at[s].site, at[s].from)
               /\ l = "open_r" <=> at[s].site = "load"
               /\ l = "remove" <=> at[s].site = "save"
               /\ l = "open_w" <=> at[s].site = "recreate"
  <2>1. {"open_r", "remove", "open_w"} \subseteq Pcs
    BY DEF Pcs
  <2>2. CASE at[s].site = "load"
    <3>1. Goto(s, "open_r")
      BY <1>6, <2>2 DEF Return
    <3> QED
      BY <1>3, <2>1, <2>2, <3>1
  <2>3. CASE at[s].site = "save"
    <3>1. Goto(s, "remove")
      BY <1>6, <2>3 DEF Return
    <3> QED
      BY <1>3, <2>1, <2>3, <3>1
  <2>4. CASE at[s].site = "recreate"
    <3>1. Goto(s, "open_w")
      BY <1>6, <2>4 DEF Return
    <3> QED
      BY <1>3, <2>1, <2>4, <3>1
  <2> QED
    BY <1>2, <2>2, <2>3, <2>4
<1> QED
  BY <1>2, <1>3, <1>4, <1>5, <1>6

LEMMA StepOpens ==
  ASSUME Opens, NEW s \in Shells, NEW l, NEW site, NEW from, Put(s, l, site, from),
         \A t \in Shells \ {s} : rd'[t] = rd[t] /\ wr'[t] = wr[t],
         l \in {"lock_r", "read"} => rd'[s] \in Files,
         l \in {"lock_w", "unlock", "fclose"} => wr'[s] \in Files
  PROVE  Opens'
BY DEF Opens, Put

\* The end of a process.
LEMMA EndTypes ==
  ASSUME Types, Opens, NEW s \in Shells, NEW l \in {"off", "failed", "crashed"}, End(s, l)
  PROVE  Types' /\ Opens'
<1>1. Put(s, l, "load", "boot")
  BY Going
<1>2. lock' \in [Files -> [Shells -> {"none", "read", "write"}]]
  BY DEF End, Types
<1>3. command' \in [Shells -> {{}} \union {{c} : c \in Commands}]
  BY DEF End, Types
<1>4. list' \in [Shells -> Lists] /\ todo' \in [Shells -> Seq(Elements)]
  BY EmptyList DEF End, Types
<1>5. /\ rd' \in [Shells -> Files \union {NoFile}] /\ wr' \in [Shells -> Files \union {NoFile}]
      /\ \A t \in Shells \ {s} : rd'[t] = rd[t] /\ wr'[t] = wr[t]
      /\ UNCHANGED <<path, content, past>>
  BY DEF End, Types, disk, past
<1>6. Types'
  BY <1>1, <1>2, <1>3, <1>4, <1>5 DEF Types, Put, past
<1>7. Opens'
  BY <1>1, <1>5, StepOpens
<1> QED
  BY <1>6, <1>7

\* A step that leaves everything but a shell's place, and the lock on one
\* file, as it is.
LEMMA PlainTypes ==
  ASSUME Types, Opens, NEW s \in Shells, NEW l, NEW site, NEW from, Put(s, l, site, from),
         UNCHANGED <<memory, disk, past>>,
         lock' = lock \/ \E f, k : k \in {"none", "read", "write"} /\ SetLock(f, s, k),
         l \in {"lock_r", "read"} => rd[s] \in Files,
         l \in {"lock_w", "unlock", "fclose"} => wr[s] \in Files
  PROVE  Types' /\ Opens'
<1>1. lock' \in [Files -> [Shells -> {"none", "read", "write"}]]
  <2>1. lock \in [Files -> [Shells -> {"none", "read", "write"}]]
    BY DEF Types
  <2>2. ASSUME NEW f, NEW k \in {"none", "read", "write"}, SetLock(f, s, k)
        PROVE  lock' \in [Files -> [Shells -> {"none", "read", "write"}]]
    BY <2>1, <2>2 DEF SetLock
  <2> QED
    BY <2>1, <2>2
<1>2. UNCHANGED <<command, list, todo, rd, wr, path, content, past>>
  BY DEF memory, disk
<1>3. Types'
  BY <1>1, <1>2 DEF Types, Put, past
<1>4. Opens'
  BY <1>2, StepOpens
<1> QED
  BY <1>3, <1>4

LEMMA FindTypes ==
  ASSUME Types, Opens, NEW s \in Shells, get_config_file(s)
  PROVE  Types' /\ Opens'
<1> USE DEF memory, disk, past
<1>1. CASE access(s)
  <2>1. \E l \in {"create", "stat"} : Put(s, l, at[s].site, at[s].from)
    BY <1>1, Going DEF access, Pcs
  <2> QED
    BY <1>1, <2>1, PlainTypes DEF access
<1>2. CASE stat(s)
  <2>1. CASE path = NoFile
    BY <1>2, <2>1, EndTypes DEF stat
  <2>2. CASE path # NoFile
    <3>1. PICK l \in {"open_r", "remove", "open_w"} : Put(s, l, at[s].site, at[s].from)
      BY <1>2, <2>2, Going DEF stat
    <3> QED
      BY <1>2, <2>2, <3>1, PlainTypes DEF stat
  <2> QED
    BY <2>1, <2>2
<1>3. CASE create(s)
  <2>1. PICK l \in {"open_r", "remove", "open_w"} : Put(s, l, at[s].site, at[s].from)
    BY <1>3, Going DEF create
  <2>2. CASE path # NoFile
    BY <1>3, <2>1, <2>2, PlainTypes DEF create
  <2>3. CASE path = NoFile
    <3> DEFINE f == Min(Unused)
    <3>1. f \in Files
      BY <2>3, SomeUnused
    <3>2. /\ path' = f /\ content' = [content EXCEPT ![f] = <<>>]
          /\ lock' = [lock EXCEPT ![f] = [t \in Shells |-> "none"]]
          /\ UNCHANGED <<command, list, todo, rd, wr, past>>
      BY <1>3, <2>3 DEF create
    <3> HIDE DEF f
    <3>3. content' \in [Files -> Seq(Elements)]
      BY <3>1, <3>2, EmptyList DEF Types
    <3>4. lock' \in [Files -> [Shells -> {"none", "read", "write"}]]
      BY <3>1, <3>2 DEF Types
    <3>5. Types'
      BY <2>1, <3>1, <3>2, <3>3, <3>4 DEF Types, Put
    <3>6. Opens'
      BY <2>1, <3>2, StepOpens
    <3> QED
      BY <3>5, <3>6
  <2> QED
    BY <2>2, <2>3
<1> QED
  BY <1>1, <1>2, <1>3 DEF get_config_file

LEMMA LoadTypes ==
  ASSUME Types, Opens, NEW s \in Shells, load_config(s)
  PROVE  Types' /\ Opens'
<1> USE DEF memory, disk, past
<1>1. CASE open_r(s)
  <2>1. CASE path = NoFile
    BY <1>1, <2>1, EndTypes DEF open_r
  <2>2. CASE path # NoFile
    <3>1. Put(s, "lock_r", at[s].site, at[s].from)
      BY <1>1, <2>2, Going DEF open_r, Pcs
    <3>2. /\ rd' = [rd EXCEPT ![s] = path]
          /\ UNCHANGED <<command, list, todo, wr, path, content, lock, past>>
      BY <1>1, <2>2 DEF open_r
    <3>3. rd'[s] \in Files /\ \A t \in Shells \ {s} : rd'[t] = rd[t]
      BY <2>2, <3>2 DEF Types
    <3>4. Types'
      BY <3>1, <3>2 DEF Types, Put
    <3>5. Opens'
      BY <3>1, <3>2, <3>3, StepOpens
    <3> QED
      BY <3>4, <3>5
  <2> QED
    BY <2>1, <2>2
<1>2. CASE lock_r(s)
  <2>1. Put(s, "read", at[s].site, at[s].from) /\ rd[s] \in Files
    BY <1>2, Going DEF lock_r, Pcs, Opens
  <2>2. SetLock(rd[s], s, "read") /\ UNCHANGED <<memory, disk, past>>
    BY <1>2 DEF lock_r
  <2> QED
    BY <2>1, <2>2, PlainTypes
<1>3. CASE read(s)
  <2>1. Put(s, "add", at[s].site, at[s].from) /\ rd[s] \in Files
    BY <1>3, Going DEF read, Pcs, Opens
  <2>2. /\ todo' = [todo EXCEPT ![s] = content[rd[s]]]
        /\ UNCHANGED <<command, list, rd, wr, path, content, lock, past>>
    BY <1>3 DEF read
  <2>3. Types'
    BY <2>1, <2>2 DEF Types, Put
  <2>4. Opens'
    BY <2>1, <2>2, StepOpens
  <2> QED
    BY <2>3, <2>4
<1>4. CASE add(s)
  <2>1. CASE ~Readable(Head(todo[s]))
    BY <1>4, <2>1, EndTypes DEF add
  <2>2. CASE Readable(Head(todo[s]))
    <3>1. Put(s, "access", "save", at[s].from)
      BY <1>4, <2>2, Going DEF add, Call, Pcs
    <3>2. /\ todo[s] # <<>> /\ todo' = [todo EXCEPT ![s] = Tail(@)]
          /\ list' = [list EXCEPT ![s] = add_conf_elm(@, Parsed(Head(todo[s])))]
          /\ UNCHANGED <<command, rd, wr, path, content, lock, past>>
      BY <1>4, <2>2 DEF add
    <3>3. Parsed(Head(todo[s])) \in Elements /\ Tail(todo[s]) \in Seq(Elements)
      BY <2>2, <3>2, HeadTailProperties, ParsedFits DEF Types
    <3>4. add_conf_elm(list[s], Parsed(Head(todo[s]))) \in Lists
      BY <3>3, AddFits DEF Types
    <3>5. Types'
      BY <3>1, <3>2, <3>3, <3>4 DEF Types, Put
    <3>6. Opens'
      BY <3>1, <3>2, StepOpens
    <3> QED
      BY <3>5, <3>6
  <2> QED
    BY <2>1, <2>2
<1>5. CASE close_r(s)
  <2>1. \E l \in {"access", "prompt"}, from \in {"boot", "loop", "command"} :
          Put(s, l, "load", from) \/ Put(s, l, at[s].site, from)
    BY <1>5, Going DEF close_r, Call, Pcs
  <2>2. /\ SetLock(rd[s], s, "none") /\ rd' = [rd EXCEPT ![s] = NoFile]
        /\ UNCHANGED <<command, list, todo, wr, path, content, past>>
    BY <1>5 DEF close_r
  <2>3. lock' \in [Files -> [Shells -> {"none", "read", "write"}]]
    BY <2>2 DEF Types, SetLock
  <2>4. rd' \in [Shells -> Files \union {NoFile}] /\ \A t \in Shells \ {s} : rd'[t] = rd[t]
    BY <2>2 DEF Types
  <2>5. Types'
    BY <2>1, <2>2, <2>3, <2>4 DEF Types, Put
  <2>6. Opens'
    BY <2>1, <2>2, <2>4, StepOpens
  <2> QED
    BY <2>5, <2>6
<1> QED
  BY <1>1, <1>2, <1>3, <1>4, <1>5 DEF load_config

\* The end of save_config.
LEMMA SavedTypes ==
  ASSUME Types, Opens, NEW s \in Shells, Saved(s),
         UNCHANGED <<list, todo, rd, path, past>>,
         content' \in [Files -> Seq(Elements)],
         lock' \in [Files -> [Shells -> {"none", "read", "write"}]]
  PROVE  Types' /\ Opens'
<1>1. \E l \in {"access", "add"}, from \in {"boot", "loop", "command"} : Put(s, l, "load", from)
  BY Going DEF Saved, Call, Pcs
<1>2. /\ command' = [command EXCEPT ![s] = {}] /\ wr' = [wr EXCEPT ![s] = NoFile]
  BY DEF Saved
<1>3. /\ wr' \in [Shells -> Files \union {NoFile}] /\ \A t \in Shells \ {s} : wr'[t] = wr[t]
      /\ command' \in [Shells -> {{}} \union {{c} : c \in Commands}]
  BY <1>2 DEF Types
<1>4. Types'
  BY <1>1, <1>3 DEF Types, Put, past
<1>5. Opens'
  BY <1>1, <1>3, StepOpens
<1> QED
  BY <1>4, <1>5

LEMMA SaveTypes ==
  ASSUME Types, Opens, NEW s \in Shells, save_config(s)
  PROVE  Types' /\ Opens'
<1> USE DEF memory, disk, past
<1>1. CASE remove(s)
  <2>1. CASE path = NoFile
    BY <1>1, <2>1, EndTypes DEF remove
  <2>2. CASE path # NoFile
    <3>1. Put(s, "access", "recreate", at[s].from)
      BY <1>1, <2>2, Going DEF remove, Call, Pcs
    <3>2. /\ path' = NoFile
          /\ UNCHANGED <<command, list, todo, rd, wr, content, lock, past>>
      BY <1>1, <2>2 DEF remove
    <3>3. Types'
      BY <3>1, <3>2 DEF Types, Put
    <3>4. Opens'
      BY <3>1, <3>2, StepOpens
    <3> QED
      BY <3>3, <3>4
  <2> QED
    BY <2>1, <2>2
<1>2. CASE open_w(s)
  <2>1. CASE path = NoFile
    BY <1>2, <2>1, EndTypes DEF open_w
  <2>2. CASE path # NoFile
    <3>1. Put(s, "lock_w", at[s].site, at[s].from)
      BY <1>2, <2>2, Going DEF open_w, Pcs
    <3>2. /\ wr' = [wr EXCEPT ![s] = path]
          /\ UNCHANGED <<command, list, todo, rd, path, content, lock, past>>
      BY <1>2, <2>2 DEF open_w
    <3>3. wr'[s] \in Files /\ \A t \in Shells \ {s} : wr'[t] = wr[t]
      BY <2>2, <3>2 DEF Types
    <3>4. Types'
      BY <3>1, <3>2 DEF Types, Put
    <3>5. Opens'
      BY <3>1, <3>2, <3>3, StepOpens
    <3> QED
      BY <3>4, <3>5
  <2> QED
    BY <2>1, <2>2
<1>3. CASE lock_w(s)
  <2>1. SetLock(wr[s], s, "write") /\ wr[s] \in Files
    BY <1>3 DEF lock_w, Opens
  <2>2. CASE list[s] = <<>>
    <3>1. lock' \in [Files -> [Shells -> {"none", "read", "write"}]]
      BY <2>1 DEF Types, SetLock
    <3>2. Saved(s) /\ UNCHANGED <<list, todo, rd, disk, past>>
      BY <1>3, <2>2 DEF lock_w
    <3> QED
      BY <3>1, <3>2, SavedTypes DEF Types
  <2>3. CASE list[s] # <<>>
    <3>1. Put(s, "unlock", at[s].site, at[s].from) /\ UNCHANGED <<memory, disk, past>>
      BY <1>3, <2>3, Going DEF lock_w, Pcs
    <3> QED
      BY <2>1, <3>1, PlainTypes
  <2> QED
    BY <2>2, <2>3
<1>4. CASE unlock(s)
  <2>1. Put(s, "fclose", at[s].site, at[s].from) /\ wr[s] \in Files
    BY <1>4, Going DEF unlock, Pcs, Opens
  <2>2. SetLock(wr[s], s, "none") /\ UNCHANGED <<memory, disk, past>>
    BY <1>4 DEF unlock
  <2> QED
    BY <2>1, <2>2, PlainTypes
<1>5. CASE fclose(s)
  <2>1. /\ content' = [content EXCEPT ![wr[s]] = Overwrite(list[s], @)]
        /\ Saved(s) /\ UNCHANGED <<list, todo, rd, path, lock, past>>
        /\ wr[s] \in Files
    BY <1>5 DEF fclose, Opens
  <2>2. Overwrite(list[s], content[wr[s]]) \in Seq(Elements)
    BY <2>1, OverwriteFits DEF Types, Lists
  <2>3. content' \in [Files -> Seq(Elements)]
    BY <2>1, <2>2 DEF Types
  <2> QED
    BY <2>1, <2>3, SavedTypes DEF Types
<1> QED
  BY <1>1, <1>2, <1>3, <1>4, <1>5 DEF save_config

LEMMA CommandTypes ==
  ASSUME Types, Opens, NEW s \in Shells,
         \/ other(s) \/ leave(s) \/ start(s) \/ kill(s)
         \/ \E c \in Commands : shortdir(s, c)
  PROVE  Types' /\ Opens'
<1> USE DEF memory, disk, past
<1>1. CASE other(s)
  <2>1. Put(s, "access", "load", "loop")
    BY <1>1, Going DEF other, Call, Pcs
  <2> QED
    BY <1>1, <2>1, PlainTypes DEF other
<1>2. CASE leave(s) \/ kill(s)
  BY <1>2, EndTypes DEF leave, kill
<1>3. CASE start(s)
  <2>1. Put(s, "access", "load", "boot")
    BY <1>3, Going DEF start, Call, Pcs
  <2>2. UNCHANGED <<command, list, todo, rd, wr, path, content, lock, colons>>
        /\ shared' \in BOOLEAN
    BY <1>3 DEF start, Types
  <2>3. Types'
    BY <2>1, <2>2 DEF Types, Put
  <2>4. Opens'
    BY <2>1, <2>2, StepOpens
  <2> QED
    BY <2>3, <2>4
<1>4. ASSUME NEW c \in Commands, shortdir(s, c) PROVE Types' /\ Opens'
  <2>0. colons' \in BOOLEAN
    BY <1>4 DEF shortdir, Types
  <2>1. CASE c.op = "del" /\ list[s] = <<>>
    <3>1. Put(s, "access", "load", "loop") /\ UNCHANGED <<memory, disk, lock, shared>>
      BY <1>4, <2>1, Going DEF shortdir, Call, Pcs
    <3>2. Types'
      BY <3>1, <2>0 DEF Types, Put
    <3>3. Opens'
      BY <3>1, StepOpens
    <3> QED
      BY <3>2, <3>3
  <2>2. CASE ~(c.op = "del" /\ list[s] = <<>>)
    <3>1. Put(s, "access", "save", "command")
      BY <1>4, <2>2, Going DEF shortdir, Call, Pcs
    <3>2. /\ command' = [command EXCEPT ![s] = {c}]
          /\ list' = [list EXCEPT ![s] = IF c.op = "set" THEN add_conf_elm(@, c.elm)
                                                         ELSE rm_config(@, c.names)]
          /\ UNCHANGED <<todo, rd, wr, path, content, lock, shared>>
      BY <1>4, <2>2 DEF shortdir
    <3>3. c.op = "set" => c.elm \in Elements
      BY DEF Commands, Set, Del, Elements
    <3>4. list'[s] \in Lists
      BY <3>2, <3>3, AddFits, RemoveFits DEF Types
    <3>5. list' \in [Shells -> Lists] /\ command' \in [Shells -> {{}} \union {{d} : d \in Commands}]
      BY <3>2, <3>4 DEF Types
    <3>6. Types'
      BY <2>0, <3>1, <3>2, <3>5 DEF Types, Put
    <3>7. Opens'
      BY <3>1, <3>2, StepOpens
    <3> QED
      BY <3>6, <3>7
  <2> QED
    BY <2>1, <2>2
<1> QED
  BY <1>1, <1>2, <1>3, <1>4

LEMMA StepTypes == Types /\ Opens /\ [Next]_vars => Types' /\ Opens'
<1> SUFFICES ASSUME Types, Opens, [Next]_vars PROVE Types' /\ Opens'
  OBVIOUS
<1>1. CASE Next
  BY <1>1, FindTypes, LoadTypes, SaveTypes, CommandTypes DEF Next, Run
<1>2. CASE UNCHANGED vars
  BY <1>2 DEF vars, Types, Opens, past
<1> QED
  BY <1>1, <1>2

LEMMA TypesAlways == Spec => [](Types /\ Opens)
BY InitTypes, StepTypes, PTL DEF Spec

\* No list has two elements with one name, whatever the file holds and however
\* many shells write to it (add_conf_elm, rm_config, config.h:87-101, 245-304).
THEOREM TypeTheorem == Spec => []TypeOK
BY TypesAlways, TypesFit, PTL

-----------------------------------------------------------------------------
(* One shell at a time *)

\* Where main's loop loads the file, it says what the list says; at the start
\* the list is empty.
Loading(s) ==
  IF at[s].from = "boot" THEN list[s] = <<>>
  ELSE path # NoFile /\ content[path] = list[s]

\* What a shell that runs alone goes by at each point.
InStep(s) ==
  /\ at[s].pc \notin {"access", "create"} => path # NoFile
  /\ at[s].pc \in {"access", "stat", "create"} =>
       /\ at[s].site = "load" => Loading(s)
       /\ at[s].site = "recreate" => path = NoFile
  /\ at[s].pc \in {"open_r", "lock_r", "read"} => Loading(s)
  /\ at[s].pc \in {"lock_r", "read"} => rd[s] = path
  /\ at[s].pc = "add" =>
       content[path] = list[s] \/ (list[s] = <<>> /\ content[path] = todo[s])
  /\ at[s].pc = "prompt" => content[path] = list[s]
  /\ at[s].pc \in {"open_w", "lock_w", "unlock", "fclose"} => content[path] = <<>>
  /\ at[s].pc \in {"lock_w", "unlock", "fclose"} => wr[s] = path

Sole ==
  /\ \A s, t \in Shells : Live(s) /\ Live(t) => s = t
  /\ \A s \in Shells : at[s].pc # "failed"
  /\ \A s \in Shells : IF Live(s) THEN InStep(s) ELSE list[s] = <<>>

LEMMA InitSole == Init => Sole
BY DEF Init, Sole, Live, Off

\* A step of the shell that runs.
LEMMA StepSole ==
  ASSUME Types, Sole, NEW s \in Shells, Live(s), NEW l, NEW site, NEW from,
         Put(s, l, site, from), l # "failed",
         \A t \in Shells \ {s} : list'[t] = list[t],
         IF l \in {"off", "crashed"} THEN list'[s] = <<>> ELSE InStep(s)'
  PROVE  Sole'
<1>1. \A t \in Shells \ {s} : ~Live(t)
  BY DEF Sole
<1>2. at'[s].pc = l /\ \A t \in Shells \ {s} : at'[t] = at[t]
  BY DEF Put
<1>3. \A t \in Shells \ {s} : ~Live(t)' /\ list'[t] = <<>> /\ at'[t].pc # "failed"
  BY <1>1, <1>2 DEF Sole, Live
<1>4. Live(s)' <=> l \notin {"off", "crashed"}
  BY <1>2 DEF Live
<1> QED
  BY <1>2, <1>3, <1>4 DEF Sole

LEMMA EndSole ==
  ASSUME Types, Sole, NEW s \in Shells, Live(s), NEW l \in {"off", "crashed"}, End(s, l)
  PROVE  Sole'
<1>1. Put(s, l, "load", "boot")
  BY Going
<1>2. list' = [list EXCEPT ![s] = <<>>]
  BY DEF End
<1>3. list'[s] = <<>> /\ \A t \in Shells \ {s} : list'[t] = list[t]
  BY <1>2 DEF Types
<1> QED
  BY <1>1, <1>3, StepSole

LEMMA FindSole ==
  ASSUME Types, Sole, NEW s \in Shells, get_config_file(s)
  PROVE  Sole'
<1> USE DEF memory, disk, past
<1>1. Live(s) /\ InStep(s)
  BY DEF get_config_file, access, stat, create, Live, Sole
<1>2. CASE access(s)
  <2>1. Put(s, IF path = NoFile THEN "create" ELSE "stat", at[s].site, at[s].from)
    BY <1>2, Going DEF access, Pcs
  <2>2. UNCHANGED <<command, list, todo, rd, wr, path, content>>
    BY <1>2 DEF access
  <2>3. InStep(s)'
    BY <1>1, <1>2, <2>1, <2>2 DEF access, InStep, Loading, Put
  <2> QED
    BY <1>1, <2>1, <2>2, <2>3, StepSole
<1>3. CASE stat(s)
  <2>1. path # NoFile /\ at[s].pc = "stat"
    BY <1>1, <1>3 DEF InStep, stat
  <2>2. PICK l \in {"open_r", "remove", "open_w"} :
          /\ Put(s, l, at[s].site, at[s].from)
          /\ l = "open_r" <=> at[s].site = "load"
          /\ l = "open_w" <=> at[s].site = "recreate"
    BY <1>3, <2>1, Going DEF stat
  <2>3. UNCHANGED <<command, list, todo, rd, wr, path, content>>
    BY <1>3, <2>1 DEF stat
  <2>4. InStep(s)'
    BY <1>1, <2>1, <2>2, <2>3 DEF InStep, Loading, Put
  <2> QED
    BY <1>1, <2>2, <2>3, <2>4, StepSole
<1>4. CASE create(s)
  <2>1. at[s].pc = "create"
    BY <1>4 DEF create
  <2>2. PICK l \in {"open_r", "remove", "open_w"} :
          /\ Put(s, l, at[s].site, at[s].from)
          /\ l = "open_r" <=> at[s].site = "load"
          /\ l = "open_w" <=> at[s].site = "recreate"
    BY <1>4, Going DEF create
  <2>3. UNCHANGED <<command, list, todo, rd, wr>>
    BY <1>4 DEF create
  <2>4. CASE path # NoFile
    <3>1. UNCHANGED <<path, content>>
      BY <1>4, <2>4 DEF create
    <3>2. InStep(s)'
      BY <1>1, <2>1, <2>2, <2>3, <2>4, <3>1 DEF InStep, Loading, Put
    <3> QED
      BY <1>1, <2>2, <2>3, <3>2, StepSole
  <2>5. CASE path = NoFile
    <3> DEFINE f == Min(Unused)
    <3>1. f \in Files /\ f # NoFile
      BY <2>5, SomeUnused
    <3>2. path' = f /\ content' = [content EXCEPT ![f] = <<>>]
      BY <1>4, <2>5 DEF create
    <3> HIDE DEF f
    <3>3. path' # NoFile /\ content'[path'] = <<>>
      BY <3>1, <3>2 DEF Types
    <3>4. InStep(s)'
      BY <1>1, <2>1, <2>2, <2>3, <2>5, <3>3 DEF InStep, Loading, Put
    <3> QED
      BY <1>1, <2>2, <2>3, <3>4, StepSole
  <2> QED
    BY <2>4, <2>5
<1> QED
  BY <1>2, <1>3, <1>4 DEF get_config_file

LEMMA LoadSole ==
  ASSUME Types, Sole, NEW s \in Shells, load_config(s)
  PROVE  Sole'
<1> USE DEF memory, disk, past
<1>1. Live(s) /\ InStep(s)
  BY DEF load_config, open_r, lock_r, read, add, close_r, Live, Sole
<1>2. CASE open_r(s)
  <2>1. path # NoFile /\ at[s].pc = "open_r"
    BY <1>1, <1>2 DEF InStep, open_r
  <2>2. Put(s, "lock_r", at[s].site, at[s].from)
    BY <1>2, <2>1, Going DEF open_r, Pcs
  <2>3. rd' = [rd EXCEPT ![s] = path] /\ UNCHANGED <<list, path, content>>
    BY <1>2, <2>1 DEF open_r
  <2>4. InStep(s)'
    BY <1>1, <2>1, <2>2, <2>3 DEF InStep, Loading, Put, Types
  <2> QED
    BY <1>1, <2>2, <2>3, <2>4, StepSole
<1>3. CASE lock_r(s)
  <2>1. Put(s, "read", at[s].site, at[s].from) /\ at[s].pc = "lock_r"
    BY <1>3, Going DEF lock_r, Pcs
  <2>2. UNCHANGED <<list, todo, rd, wr, path, content>>
    BY <1>3 DEF lock_r
  <2>3. InStep(s)'
    BY <1>1, <2>1, <2>2 DEF InStep, Loading, Put
  <2> QED
    BY <1>1, <2>1, <2>2, <2>3, StepSole
<1>4. CASE read(s)
  <2>1. Put(s, "add", at[s].site, at[s].from) /\ at[s].pc = "read"
    BY <1>4, Going DEF read, Pcs
  <2>2. todo' = [todo EXCEPT ![s] = content[rd[s]]] /\ UNCHANGED <<list, rd, wr, path, content>>
    BY <1>4 DEF read
  <2>3. todo'[s] = content[path]
    BY <1>1, <2>1, <2>2 DEF InStep, Types
  <2>4. InStep(s)'
    BY <1>1, <2>1, <2>2, <2>3 DEF InStep, Loading, Put
  <2> QED
    BY <1>1, <2>1, <2>2, <2>4, StepSole
<1>5. CASE add(s)
  <2>1. CASE ~Readable(Head(todo[s]))
    BY <1>1, <1>5, <2>1, EndSole DEF add
  <2>2. CASE Readable(Head(todo[s]))
    <3>1. Put(s, "access", "save", at[s].from) /\ at[s].pc = "add"
      BY <1>5, <2>2, Going DEF add, Call, Pcs
    <3>2. /\ list' = [list EXCEPT ![s] = add_conf_elm(@, Parsed(Head(todo[s])))]
          /\ UNCHANGED <<path, content>>
      BY <1>5, <2>2 DEF add
    <3>3. InStep(s)' /\ \A t \in Shells \ {s} : list'[t] = list[t]
      BY <3>1, <3>2 DEF InStep, Put, Types
    <3> QED
      BY <1>1, <3>1, <3>3, StepSole
  <2> QED
    BY <2>1, <2>2
<1>6. CASE close_r(s)
  <2>1. /\ at[s].pc = "add" /\ todo[s] = <<>>
        /\ UNCHANGED <<list, todo, wr, path, content>>
    BY <1>6 DEF close_r
  <2>2. path # NoFile /\ content[path] = list[s]
    BY <1>1, <2>1 DEF InStep
  <2>3. CASE at[s].from = "boot"
    <3>1. Put(s, "access", "load", "loop")
      BY <1>6, <2>3, Going DEF close_r, Call, Pcs
    <3>2. InStep(s)'
      BY <2>1, <2>2, <3>1 DEF InStep, Loading, Put
    <3> QED
      BY <1>1, <2>1, <3>1, <3>2, StepSole
  <2>4. CASE at[s].from # "boot"
    <3>1. Put(s, "prompt", at[s].site, at[s].from)
      BY <1>6, <2>4, Going DEF close_r, Pcs
    <3>2. InStep(s)'
      BY <2>1, <2>2, <3>1 DEF InStep, Loading, Put
    <3> QED
      BY <1>1, <2>1, <3>1, <3>2, StepSole
  <2> QED
    BY <2>3, <2>4
<1> QED
  BY <1>2, <1>3, <1>4, <1>5, <1>6 DEF load_config

\* save_config comes back to a file that says what the list says.
LEMMA SavedSole ==
  ASSUME Types, Sole, NEW s \in Shells, Live(s), Saved(s),
         UNCHANGED <<list, path>>, path' # NoFile, content'[path'] = list[s]
  PROVE  Sole'
<1>1. CASE at[s].from = "command"
  <2>1. Put(s, "access", "load", "loop")
    BY <1>1, Going DEF Saved, Call, Pcs
  <2>2. InStep(s)'
    BY <2>1 DEF InStep, Loading, Put
  <2> QED
    BY <2>1, <2>2, StepSole
<1>2. CASE at[s].from # "command"
  <2>1. Put(s, "add", "load", at[s].from)
    BY <1>2, Going DEF Saved, Pcs
  <2>2. InStep(s)'
    BY <2>1 DEF InStep, Loading, Put
  <2> QED
    BY <2>1, <2>2, StepSole
<1> QED
  BY <1>1, <1>2

LEMMA SaveSole ==
  ASSUME Types, Opens, Sole, NEW s \in Shells, save_config(s)
  PROVE  Sole'
<1> USE DEF memory, disk, past
<1>1. Live(s) /\ InStep(s)
  BY DEF save_config, remove, open_w, lock_w, unlock, fclose, Live, Sole
<1>2. CASE remove(s)
  <2>1. path # NoFile /\ at[s].pc = "remove"
    BY <1>1, <1>2 DEF InStep, remove
  <2>2. Put(s, "access", "recreate", at[s].from)
    BY <1>2, <2>1, Going DEF remove, Call, Pcs
  <2>3. path' = NoFile /\ UNCHANGED <<list, content>>
    BY <1>2, <2>1 DEF remove
  <2>4. InStep(s)'
    BY <2>2, <2>3 DEF InStep, Put
  <2> QED
    BY <1>1, <2>2, <2>3, <2>4, StepSole
<1>3. CASE open_w(s)
  <2>1. path # NoFile /\ at[s].pc = "open_w"
    BY <1>1, <1>3 DEF InStep, open_w
  <2>2. Put(s, "lock_w", at[s].site, at[s].from)
    BY <1>3, <2>1, Going DEF open_w, Pcs
  <2>3. wr' = [wr EXCEPT ![s] = path] /\ UNCHANGED <<list, path, content>>
    BY <1>3, <2>1 DEF open_w
  <2>4. InStep(s)'
    BY <1>1, <2>1, <2>2, <2>3 DEF InStep, Put, Types
  <2> QED
    BY <1>1, <2>2, <2>3, <2>4, StepSole
<1>4. CASE lock_w(s)
  <2>1. at[s].pc = "lock_w"
    BY <1>4 DEF lock_w
  <2>2. CASE list[s] = <<>>
    <3>1. Saved(s) /\ UNCHANGED <<list, path, content>>
      BY <1>4, <2>2 DEF lock_w
    <3>2. path' # NoFile /\ content'[path'] = list[s]
      BY <1>1, <2>1, <2>2, <3>1 DEF InStep
    <3> QED
      BY <1>1, <3>1, <3>2, SavedSole
  <2>3. CASE list[s] # <<>>
    <3>1. Put(s, "unlock", at[s].site, at[s].from) /\ UNCHANGED <<list, wr, path, content>>
      BY <1>4, <2>3, Going DEF lock_w, Pcs
    <3>2. InStep(s)'
      BY <1>1, <2>1, <3>1 DEF InStep, Put
    <3> QED
      BY <1>1, <3>1, <3>2, StepSole
  <2> QED
    BY <2>2, <2>3
<1>5. CASE unlock(s)
  <2>1. Put(s, "fclose", at[s].site, at[s].from) /\ at[s].pc = "unlock"
    BY <1>5, Going DEF unlock, Pcs
  <2>2. UNCHANGED <<list, wr, path, content>>
    BY <1>5 DEF unlock
  <2>3. InStep(s)'
    BY <1>1, <2>1, <2>2 DEF InStep, Put
  <2> QED
    BY <1>1, <2>1, <2>2, <2>3, StepSole
<1>6. CASE fclose(s)
  <2>1. /\ content' = [content EXCEPT ![wr[s]] = Overwrite(list[s], @)]
        /\ Saved(s) /\ UNCHANGED <<list, path>> /\ at[s].pc = "fclose"
    BY <1>6 DEF fclose
  <2>2. wr[s] = path /\ path # NoFile /\ content[path] = <<>> /\ path \in Files
    BY <1>1, <2>1 DEF InStep, Types
  <2>3. Overwrite(list[s], <<>>) = list[s]
    BY OverwriteFits, EmptyList DEF Types, Lists
  <2>4. content'[path'] = list[s]
    BY <2>1, <2>2, <2>3 DEF Types
  <2> QED
    BY <1>1, <2>1, <2>2, <2>4, SavedSole
<1> QED
  BY <1>2, <1>3, <1>4, <1>5, <1>6 DEF save_config

LEMMA CommandSole ==
  ASSUME Types, Sole, NEW s \in Shells,
         other(s) \/ leave(s) \/ kill(s) \/ \E c \in Commands : shortdir(s, c)
  PROVE  Sole'
<1> USE DEF memory, disk, past
<1>1. Live(s) /\ InStep(s)
  BY DEF other, leave, kill, shortdir, Live, Sole
<1>2. CASE leave(s) \/ kill(s)
  BY <1>1, <1>2, EndSole DEF leave, kill
<1>3. ASSUME Put(s, "access", "load", "loop"), UNCHANGED <<list, path, content>>,
             at[s].pc = "prompt"
      PROVE  Sole'
  <2>1. InStep(s)'
    BY <1>1, <1>3 DEF InStep, Loading, Put
  <2> QED
    BY <1>1, <1>3, <2>1, StepSole
<1>4. CASE other(s)
  BY <1>3, <1>4, Going DEF other, Call, Pcs
<1>5. ASSUME NEW c \in Commands, shortdir(s, c) PROVE Sole'
  <2>1. CASE c.op = "del" /\ list[s] = <<>>
    BY <1>3, <1>5, <2>1, Going DEF shortdir, Call, Pcs
  <2>2. CASE ~(c.op = "del" /\ list[s] = <<>>)
    <3>1. Put(s, "access", "save", "command")
      BY <1>5, <2>2, Going DEF shortdir, Call, Pcs
    <3>2. list' = [list EXCEPT ![s] = IF c.op = "set" THEN add_conf_elm(@, c.elm)
                                                      ELSE rm_config(@, c.names)]
      BY <1>5, <2>2 DEF shortdir
    <3>3. InStep(s)' /\ \A t \in Shells \ {s} : list'[t] = list[t]
      BY <3>1, <3>2 DEF InStep, Put, Types
    <3> QED
      BY <1>1, <3>1, <3>3, StepSole
  <2> QED
    BY <2>1, <2>2
<1> QED
  BY <1>2, <1>4, <1>5

\* A shell that starts where none runs.
LEMMA StartSole ==
  ASSUME Types, Sole, NEW s \in Shells, start(s), ~shared'
  PROVE  Sole'
<1>1. Put(s, "access", "load", "boot")
  BY Going DEF start, Call, Pcs
<1>2. (\A t \in Shells : ~Live(t)) /\ UNCHANGED <<list, path, content>>
  BY DEF start, memory, disk
<1>3. at'[s].pc = "access" /\ at'[s].site = "load" /\ at'[s].from = "boot"
      /\ \A t \in Shells \ {s} : at'[t] = at[t]
  BY <1>1 DEF Put
<1>4. list'[s] = <<>> /\ InStep(s)'
  BY <1>2, <1>3 DEF Sole, InStep, Loading
<1>5. \A t \in Shells \ {s} : ~Live(t)' /\ list'[t] = <<>> /\ at'[t].pc # "failed"
  BY <1>2, <1>3 DEF Sole, Live
<1> QED
  BY <1>3, <1>4, <1>5 DEF Sole, Live

LEMMA SoleAlways == Spec => [](~shared => Sole)
<1>1. ASSUME Types, Opens, ~shared => Sole, [Next]_vars, ~shared' PROVE Sole'
  <2>1. CASE UNCHANGED vars
    BY <1>1, <2>1 DEF vars, Sole, Live, InStep, Loading
  <2>2. ASSUME NEW s \in Shells, start(s) PROVE Sole'
    BY <1>1, <2>2, StartSole DEF start
  <2>3. ASSUME NEW s \in Shells,
               \/ Run(s) \/ other(s) \/ leave(s) \/ kill(s)
               \/ \E c \in Commands : shortdir(s, c)
        PROVE  Sole'
    <3>1. shared' = shared
      BY <2>3 DEF Run, get_config_file, access, stat, create, load_config, open_r,
                  lock_r, read, add, close_r, save_config, remove, open_w, lock_w,
                  unlock, fclose, other, leave, kill, shortdir, End, past
    <3> QED
      BY <1>1, <2>3, <3>1, FindSole, LoadSole, SaveSole, CommandSole DEF Run
  <2> QED
    BY <1>1, <2>1, <2>2, <2>3 DEF Next
<1> QED
  BY <1>1, InitSole, TypesAlways, PTL DEF Spec

\* What a shell that runs alone goes by at its prompt is what the file says
\* (main, seashell.c:46-59).
THEOREM FileTheorem == Spec => []FileIsList
<1>1. (~shared => Sole) => FileIsList
  BY DEF Sole, InStep, Live, FileIsList
<1> QED
  BY <1>1, SoleAlways, PTL

-----------------------------------------------------------------------------
(* Tables of aliases *)

\* No name is given two directories.
Agree(S) == \A d, e \in S : d.name = e.name => d = e

TableOf(S) == [n \in {e.name : e \in S} |-> (CHOOSE e \in S : e.name = n).path]

LEMMA TableHas ==
  ASSUME NEW S, Agree(S), NEW e \in S
  PROVE  e.name \in DOMAIN TableOf(S) /\ TableOf(S)[e.name] = e.path
<1>1. (CHOOSE d \in S : d.name = e.name) = e
  BY DEF Agree
<1> QED
  BY <1>1 DEF TableOf

\* There is a greatest place.
LEMMA Greatest ==
  ASSUME NEW n \in Nat, NEW S \in SUBSET (1..n), S # {}
  PROVE  Max(S) \in S
<1> DEFINE T == {n - i : i \in S}
<1>1. T \in SUBSET Nat /\ T # {}
  <2>1. \A i \in S : n - i \in Nat
    OBVIOUS
  <2>2. \E i \in S : n - i \in T
    OBVIOUS
  <2> QED
    BY <2>1, <2>2
<1>2. Min(T) \in T /\ \A b \in T : Min(T) <= b
  BY <1>1, Least
<1>3. PICK i \in S : Min(T) = n - i
  BY <1>2
<1>4. \A j \in S : i >= j
  <2> TAKE j \in S
  <2>1. n - i <= n - j
    BY <1>2, <1>3
  <2> QED
    BY <2>1
<1> QED
  BY <1>4 DEF Max

\* Where no name is given two directories, what counts is which elements there
\* are.
LEMMA TableOfLines ==
  ASSUME NEW l \in Seq(Elements), Agree(Range(l))
  PROVE  AliasesOf(l) = TableOf(Range(l))
<1>1. DOMAIN l = 1..Len(l) /\ Len(l) \in Nat
  OBVIOUS
<1> DEFINE names == {e.name : e \in Range(l)}
           At(n) == {i \in 1..Len(l) : l[i].name = n}
<1>2. ASSUME NEW n \in names
      PROVE  l[IF At(n) # {} THEN Max(At(n)) ELSE 0].path = TableOf(Range(l))[n]
  <2>1. At(n) # {}
    BY <1>1 DEF Range
  <2>2. Max(At(n)) \in At(n)
    BY <1>1, <2>1, Greatest
  <2>3. l[Max(At(n))] \in Range(l) /\ l[Max(At(n))].name = n
    BY <1>1, <2>2 DEF Range
  <2>4. TableOf(Range(l))[n] = l[Max(At(n))].path
    BY <2>3, TableHas
  <2> QED
    BY <2>1, <2>4
<1>3. AliasesOf(l) = [n \in names |-> l[IF At(n) # {} THEN Max(At(n)) ELSE 0].path]
  BY DEF AliasesOf, SelectLastInSeq
<1> HIDE DEF At
<1>4. AliasesOf(l) = [n \in names |-> TableOf(Range(l))[n]]
  BY <1>2, <1>3
<1>5. TableOf(Range(l)) = [n \in names |-> TableOf(Range(l))[n]]
  BY DEF TableOf
<1> QED
  BY <1>4, <1>5

LEMMA RangeOfConcat ==
  ASSUME NEW l \in Seq(Elements), NEW m \in Seq(Elements)
  PROVE  Range(l \o m) = Range(l) \union Range(m)
<1>1. /\ DOMAIN (l \o m) = 1..(Len(l) + Len(m)) /\ Len(l) \in Nat /\ Len(m) \in Nat
      /\ DOMAIN l = 1..Len(l) /\ DOMAIN m = 1..Len(m)
      /\ \A i \in 1..(Len(l) + Len(m)) :
           (l \o m)[i] = IF i <= Len(l) THEN l[i] ELSE m[i - Len(l)]
  OBVIOUS
<1>2. Range(l \o m) \subseteq Range(l) \union Range(m)
  <2> SUFFICES ASSUME NEW i \in 1..(Len(l) + Len(m))
               PROVE  (l \o m)[i] \in Range(l) \union Range(m)
    BY <1>1 DEF Range
  <2>1. CASE i <= Len(l)
    <3>1. i \in DOMAIN l
      BY <1>1, <2>1
    <3> QED
      BY <1>1, <2>1, <3>1 DEF Range
  <2>2. CASE ~(i <= Len(l))
    <3>1. i - Len(l) \in DOMAIN m
      BY <1>1, <2>2
    <3> QED
      BY <1>1, <2>2, <3>1 DEF Range
  <2> QED
    BY <2>1, <2>2
<1>3. ASSUME NEW i \in DOMAIN l PROVE l[i] \in Range(l \o m)
  <2>1. i \in DOMAIN (l \o m) /\ (l \o m)[i] = l[i]
    BY <1>1
  <2> QED
    BY <2>1 DEF Range
<1>4. ASSUME NEW i \in DOMAIN m PROVE m[i] \in Range(l \o m)
  <2>1. Len(l) + i \in DOMAIN (l \o m) /\ (l \o m)[Len(l) + i] = m[i]
    BY <1>1
  <2> QED
    BY <2>1 DEF Range
<1> QED
  BY <1>2, <1>3, <1>4 DEF Range

LEMMA RangeOfNone == Range(<<>>) = {}
BY DEF Range

LEMMA RangeOfTail ==
  ASSUME NEW l \in Seq(Elements), l # <<>>
  PROVE  Range(l) = {Head(l)} \union Range(Tail(l)) /\ Head(l) \in Elements
<1>1. /\ DOMAIN l = 1..Len(l) /\ Len(l) \in Nat \ {0} /\ Head(l) = l[1]
      /\ DOMAIN Tail(l) = 1..(Len(l) - 1) /\ \A i \in 1..(Len(l) - 1) : Tail(l)[i] = l[i + 1]
  OBVIOUS
<1>2. ASSUME NEW i \in DOMAIN l PROVE l[i] \in {Head(l)} \union Range(Tail(l))
  <2>1. CASE i = 1
    BY <1>1, <2>1
  <2>2. CASE i # 1
    <3>1. i - 1 \in DOMAIN Tail(l) /\ Tail(l)[i - 1] = l[i]
      BY <1>1, <2>2
    <3> QED
      BY <3>1 DEF Range
  <2> QED
    BY <2>1, <2>2
<1>3. ASSUME NEW i \in DOMAIN Tail(l) PROVE Tail(l)[i] \in Range(l)
  <2>1. i + 1 \in DOMAIN l /\ Tail(l)[i] = l[i + 1]
    BY <1>1
  <2> QED
    BY <2>1 DEF Range
<1>4. Head(l) \in Range(l) /\ Head(l) \in Elements
  <2>1. 1 \in DOMAIN l
    BY <1>1
  <2> QED
    BY <1>1, <2>1 DEF Range
<1>5. Range(l) \subseteq {Head(l)} \union Range(Tail(l))
  BY <1>2 DEF Range
<1>6. Range(Tail(l)) \subseteq Range(l)
  BY <1>3, Zenon DEF Range
<1> QED
  BY <1>4, <1>5, <1>6

\* What a command makes of the elements there are.
Done(c, S) ==
  IF c.op = "set" THEN {e \in S : e.name # c.elm.name} \union {c.elm}
  ELSE {e \in S : e.name \notin c.names}

\* add_conf_elm: the new element, and those with another name.
LEMMA AddRange ==
  ASSUME NEW l \in Lists, NEW elm \in Elements
  PROVE  Range(add_conf_elm(l, elm)) = {e \in Range(l) : e.name # elm.name} \union {elm}
<1> DEFINE found == {i \in 1..Len(l) : l[i].name = elm.name}
           i == IF found # {} THEN Min(found) ELSE 0
<1>1. add_conf_elm(l, elm) = IF i = 0 THEN Append(l, elm) ELSE [l EXCEPT ![i] = elm]
  BY DEF add_conf_elm, SelectInSeq, ReplaceAt
<1>2. /\ l \in Seq(Elements) /\ Distinct(l) /\ DOMAIN l = 1..Len(l) /\ Len(l) \in Nat
  BY DEF Lists
<1>3. CASE found = {}
  <2>1. i = 0 /\ add_conf_elm(l, elm) = Append(l, elm)
    BY <1>1, <1>3
  <2>2. \A k \in 1..Len(l) : l[k].name # elm.name
    BY <1>3
  <2> HIDE DEF i, found
  <2>3. /\ DOMAIN Append(l, elm) = 1..(Len(l) + 1)
        /\ \A k \in 1..Len(l) : Append(l, elm)[k] = l[k]
        /\ Append(l, elm)[Len(l) + 1] = elm
    BY <1>2
  <2>4. Range(Append(l, elm)) = Range(l) \union {elm}
    <3>1. \A k \in 1..(Len(l) + 1) : k \in 1..Len(l) \/ k = Len(l) + 1
      BY <1>2
    <3>2. \A k \in 1..Len(l) : k \in 1..(Len(l) + 1)
      BY <1>2
    <3>3. Len(l) + 1 \in 1..(Len(l) + 1)
      BY <1>2
    <3> QED
      BY <1>2, <2>3, <3>1, <3>2, <3>3, Zenon DEF Range
  <2>5. \A e \in Range(l) : e.name # elm.name
    BY <1>2, <2>2 DEF Range
  <2> QED
    BY <2>1, <2>4, <2>5
<1>4. CASE found # {}
  <2>1. found \in SUBSET Nat
    BY <1>2
  <2>2. i \in found
    BY <1>4, <2>1, Least
  <2>3. i \in 1..Len(l) /\ i # 0 /\ l[i].name = elm.name
    BY <1>2, <2>2
  <2>4. add_conf_elm(l, elm) = [l EXCEPT ![i] = elm]
    BY <1>1, <2>3
  <2> HIDE DEF i, found
  <2> DEFINE m == [l EXCEPT ![i] = elm]
  <2>5. DOMAIN m = DOMAIN l /\ m[i] = elm /\ \A k \in DOMAIN l \ {i} : m[k] = l[k]
    BY <1>2, <2>3
  <2>6. \A k \in DOMAIN l : l[k].name = elm.name <=> k = i
    BY <1>2, <2>3 DEF Distinct
  <2> HIDE DEF m
  <2>7. Range(m) \subseteq {e \in Range(l) : e.name # elm.name} \union {elm}
    BY <2>5, <2>6, Zenon DEF Range
  <2>8. ASSUME NEW k \in DOMAIN l, l[k].name # elm.name PROVE l[k] \in Range(m)
    BY <2>5, <2>6, <2>8 DEF Range
  <2>9. {e \in Range(l) : e.name # elm.name} \subseteq Range(m) /\ elm \in Range(m)
    BY <1>2, <2>3, <2>5, <2>8 DEF Range
  <2> QED
    BY <2>4, <2>7, <2>9 DEF m
<1> QED
  BY <1>3, <1>4

\* ElementsAt keeps what it is told to.
LEMMA ElementsRange ==
  ASSUME NEW l \in Lists, NEW kept \in SUBSET DOMAIN l
  PROVE  Range(ElementsAt(l, kept)) = {l[i] : i \in kept}
<1> DEFINE n == Cardinality(kept)
           Rank(i) == Cardinality({j \in kept : j < i})
           place == [k \in 1..n |-> CHOOSE i \in kept : Rank(i) = k - 1]
           m == [k \in 1..n |-> l[place[k]]]
<1>1. DOMAIN l = 1..Len(l) /\ Len(l) \in Nat
  BY DEF Lists
<1>2. kept \in SUBSET Nat /\ IsFiniteSet(kept) /\ n \in Nat
  <2>1. IsFiniteSet(1..Len(l))
    BY <1>1, FS_Interval
  <2> QED
    BY <1>1, <2>1, FS_Subset, FS_CardinalityType
<1>3. \A k \in 1..n : place[k] \in kept /\ Rank(place[k]) = k - 1
  <2> TAKE k \in 1..n
  <2>1. \E i \in kept : Rank(i) = k - 1
    BY <1>2, Ranks
  <2> HIDE DEF Rank
  <2> QED
    BY <2>1
<1>4. ElementsAt(l, kept) = m
  BY DEF ElementsAt
<1>5. place \in [1..n -> kept]
  BY <1>3
<1>6. DOMAIN m = 1..n /\ \A k \in 1..n : m[k] = l[place[k]]
  OBVIOUS
<1> HIDE DEF place, Rank, n, m
<1>7. \A i, j \in 1..n : place[i] = place[j] => i = j
  BY <1>2, <1>3
<1>8. place \in Surjection(1..n, kept)
  <2>1. place \in Injection(1..n, kept)
    BY <1>5, <1>7 DEF Injection, IsInjective
  <2>2. IsFiniteSet(1..n) /\ Cardinality(1..n) = n
    BY <1>2, FS_Interval
  <2> QED
    BY <1>2, <2>1, <2>2, FS_Injection DEF n
<1>9. \A i \in kept : \E k \in 1..n : place[k] = i
  BY <1>8 DEF Surjection
<1> QED
  BY <1>4, <1>5, <1>9, <1>6 DEF Range

\* The names shortdir takes away: one, or all there are.
Doomed == {{n} : n \in Names} \union {Names}

\* rm_config unlinks what it should: no two neighbours, or all of them.
LEMMA UnlinkedAll ==
  ASSUME NEW l \in Lists, NEW names \in Doomed
  PROVE  Unlinked(l, names) = {i \in DOMAIN l : l[i].name \in names}
<1> DEFINE Matches(i) == l[i].name \in names
           Step(f) == [i \in DOMAIN l |->
                         /\ Matches(i)
                         /\ (\A j \in 1..i : Matches(j)) \/ ~f[i - 1]]
           g == [i \in DOMAIN l |-> Matches(i)]
           unlinked == CHOOSE f : f = Step(f)
<1>1. l \in Seq(Elements) /\ Distinct(l) /\ DOMAIN l = 1..Len(l) /\ Len(l) \in Nat
  BY DEF Lists
<1>2. ASSUME NEW i \in DOMAIN l, Matches(i), NEW f,
             \A j \in DOMAIN l : f[j] => Matches(j)
      PROVE  (\A j \in 1..i : Matches(j)) \/ ~f[i - 1]
  <2>1. CASE names = Names
    <3>1. \A j \in 1..i : j \in DOMAIN l
      BY <1>1
    <3>2. \A j \in DOMAIN l : l[j] \in Elements
      BY <1>1
    <3>3. \A e \in Elements : e.name \in Names
      BY DEF Names
    <3> QED
      BY <2>1, <3>1, <3>2, <3>3
  <2>2. ASSUME NEW n, names = {n} PROVE (\A j \in 1..i : Matches(j)) \/ ~f[i - 1]
    <3>1. CASE i = 1
      <4>1. \A j \in 1..i : j = i
        BY <3>1
      <4> QED
        BY <1>2, <4>1
    <3>2. CASE i # 1
      <4>1. i - 1 \in DOMAIN l /\ i - 1 # i
        BY <1>1, <3>2
      <4>2. ~Matches(i - 1)
        BY <1>1, <1>2, <2>2, <4>1 DEF Distinct
      <4> QED
        BY <1>2, <4>1, <4>2
    <3> QED
      BY <3>1, <3>2
  <2> QED
    BY <2>1, <2>2 DEF Doomed
<1>3. g = Step(g)
  <2>1. \A j \in DOMAIN l : g[j] => Matches(j)
    OBVIOUS
  <2> HIDE DEF g
  <2>2. \A i \in DOMAIN l : Matches(i) => (\A j \in 1..i : Matches(j)) \/ ~g[i - 1]
    BY <1>2, <2>1
  <2>3. \A i \in DOMAIN l :
          (Matches(i) /\ ((\A j \in 1..i : Matches(j)) \/ ~g[i - 1])) = Matches(i)
    BY <2>2
  <2>4. Step(g) = [i \in DOMAIN l |-> Matches(i)]
    BY <2>3, Zenon
  <2> QED
    BY <2>4 DEF g
<1>4. unlinked = Step(unlinked)
  BY <1>3
<1> HIDE DEF unlinked
<1>5. \A j \in DOMAIN l : unlinked[j] => Matches(j)
  BY <1>4
<1>6. \A i \in DOMAIN l : Matches(i) => unlinked[i]
  BY <1>2, <1>4, <1>5
<1>7. Unlinked(l, names) = {i \in DOMAIN l : unlinked[i]}
  BY DEF Unlinked, unlinked
<1> QED
  BY <1>5, <1>6, <1>7

\* rm_config: the elements with another name.
LEMMA RemoveRange ==
  ASSUME NEW l \in Lists, NEW names \in Doomed
  PROVE  Range(rm_config(l, names)) = {e \in Range(l) : e.name \notin names}
<1>1. rm_config(l, names) = ElementsAt(l, DOMAIN l \ {i \in DOMAIN l : l[i].name \in names})
  BY UnlinkedAll DEF rm_config
<1>2. Range(rm_config(l, names)) = {l[i] : i \in DOMAIN l \ {j \in DOMAIN l : l[j].name \in names}}
  BY <1>1, ElementsRange
<1> QED
  BY <1>2 DEF Range

-----------------------------------------------------------------------------
(* Names and directories without colons *)

AllPlain(l) == \A e \in Range(l) : Plain(e)

\* Where none has been set with a colon, none comes out of the file with one,
\* however many shells write to it.
NoColons ==
  /\ \A s \in Shells : AllPlain(list[s]) /\ AllPlain(todo[s]) /\ at[s].pc # "crashed"
  /\ \A f \in Files : AllPlain(content[f])

LEMMA NonePlain == AllPlain(<<>>)
BY RangeOfNone DEF AllPlain

\* A step that takes nothing from or to the file.
LEMMA QuietPlain ==
  ASSUME Types, NoColons, NEW s \in Shells, NEW l, NEW site, NEW from,
         Put(s, l, site, from), l # "crashed",
         UNCHANGED content, AllPlain(list'[s]), AllPlain(todo'[s]),
         \A t \in Shells \ {s} : list'[t] = list[t] /\ todo'[t] = todo[t]
  PROVE  NoColons'
<1>1. \A t \in Shells : at'[t].pc # "crashed"
  BY DEF Put, NoColons
<1>2. \A t \in Shells : AllPlain(list'[t]) /\ AllPlain(todo'[t])
  BY DEF NoColons
<1> QED
  BY <1>1, <1>2 DEF NoColons, AllPlain

LEMMA EndPlain ==
  ASSUME Types, NoColons, NEW s \in Shells, NEW l \in {"off", "failed"}, End(s, l)
  PROVE  NoColons'
<1>1. Put(s, l, "load", "boot")
  BY Going
<1>2. /\ list'[s] = <<>> /\ todo'[s] = <<>> /\ UNCHANGED content
      /\ \A t \in Shells \ {s} : list'[t] = list[t] /\ todo'[t] = todo[t]
  BY DEF End, Types, disk
<1> QED
  BY <1>1, <1>2, NonePlain, QuietPlain

LEMMA SavedPlain ==
  ASSUME Types, NoColons, NEW s \in Shells, Saved(s), UNCHANGED <<list, todo>>,
         \A f \in Files : AllPlain(content'[f])
  PROVE  NoColons'
<1>1. \E l \in {"access", "add"}, from \in {"boot", "loop", "command"} : Put(s, l, "load", from)
  BY Going DEF Saved, Call, Pcs
<1>2. \A t \in Shells : at'[t].pc # "crashed"
  BY <1>1 DEF Put, NoColons
<1> QED
  BY <1>2 DEF NoColons, AllPlain

LEMMA FindPlain ==
  ASSUME Types, NoColons, NEW s \in Shells, get_config_file(s)
  PROVE  NoColons'
<1> USE DEF memory, disk
<1>1. AllPlain(list[s]) /\ AllPlain(todo[s])
  BY DEF NoColons
<1>2. CASE access(s)
  <2>1. \E l \in {"create", "stat"} : Put(s, l, at[s].site, at[s].from)
    BY <1>2, Going DEF access, Pcs
  <2> QED
    BY <1>1, <1>2, <2>1, QuietPlain DEF access
<1>3. CASE stat(s)
  <2>1. CASE path = NoFile
    BY <1>3, <2>1, EndPlain DEF stat
  <2>2. CASE path # NoFile
    <3>1. PICK l \in {"open_r", "remove", "open_w"} : Put(s, l, at[s].site, at[s].from)
      BY <1>3, <2>2, Going DEF stat
    <3> QED
      BY <1>1, <1>3, <2>2, <3>1, QuietPlain DEF stat
  <2> QED
    BY <2>1, <2>2
<1>4. CASE create(s)
  <2>1. PICK l \in {"open_r", "remove", "open_w"} : Put(s, l, at[s].site, at[s].from)
    BY <1>4, Going DEF create
  <2>2. UNCHANGED <<list, todo>>
    BY <1>4 DEF create
  <2>3. \A f \in Files : content'[f] \in {content[f], <<>>}
    BY <1>4, SomeUnused DEF create, Types
  <2>4. \A f \in Files : AllPlain(content'[f])
    BY <2>3, NonePlain DEF NoColons
  <2>5. \A t \in Shells : at'[t].pc # "crashed"
    BY <2>1 DEF Put, NoColons
  <2> QED
    BY <2>2, <2>4, <2>5 DEF NoColons, AllPlain
<1> QED
  BY <1>2, <1>3, <1>4 DEF get_config_file

LEMMA LoadPlain ==
  ASSUME Types, Opens, NoColons, NEW s \in Shells, load_config(s)
  PROVE  NoColons'
<1> USE DEF memory, disk
<1>1. AllPlain(list[s]) /\ AllPlain(todo[s])
  BY DEF NoColons
<1>2. CASE open_r(s)
  <2>1. CASE path = NoFile
    BY <1>2, <2>1, EndPlain DEF open_r
  <2>2. CASE path # NoFile
    <3>1. Put(s, "lock_r", at[s].site, at[s].from)
      BY <1>2, <2>2, Going DEF open_r, Pcs
    <3> QED
      BY <1>1, <1>2, <2>2, <3>1, QuietPlain DEF open_r
  <2> QED
    BY <2>1, <2>2
<1>3. CASE lock_r(s)
  <2>1. Put(s, "read", at[s].site, at[s].from)
    BY <1>3, Going DEF lock_r, Pcs
  <2> QED
    BY <1>1, <1>3, <2>1, QuietPlain DEF lock_r
<1>4. CASE read(s)
  <2>1. Put(s, "add", at[s].site, at[s].from) /\ rd[s] \in Files
    BY <1>4, Going DEF read, Pcs, Opens
  <2>2. todo' = [todo EXCEPT ![s] = content[rd[s]]] /\ UNCHANGED <<list, content>>
    BY <1>4 DEF read
  <2>3. todo'[s] = content[rd[s]] /\ \A t \in Shells \ {s} : todo'[t] = todo[t]
    BY <2>2 DEF Types
  <2>4. AllPlain(todo'[s])
    BY <2>1, <2>3 DEF NoColons
  <2> QED
    BY <1>1, <2>1, <2>2, <2>3, <2>4, QuietPlain
<1>5. CASE add(s)
  <2> DEFINE e == Head(todo[s])
  <2>1. todo[s] # <<>> /\ todo[s] \in Seq(Elements) /\ list[s] \in Lists
    BY <1>5 DEF add, Types
  <2>2. Range(todo[s]) = {e} \union Range(Tail(todo[s])) /\ e \in Elements
    BY <2>1, RangeOfTail
  <2>3. Plain(e) /\ AllPlain(Tail(todo[s]))
    BY <1>1, <2>2 DEF AllPlain
  <2>4. Readable(e) /\ Parsed(e) = e
    BY <2>3 DEF Plain
  <2>5. Put(s, "access", "save", at[s].from)
    BY <1>5, <2>4, Going DEF add, Call, Pcs
  <2>6. /\ list'[s] = add_conf_elm(list[s], e) /\ todo'[s] = Tail(todo[s])
        /\ \A t \in Shells \ {s} : list'[t] = list[t] /\ todo'[t] = todo[t]
        /\ UNCHANGED content
    BY <1>5, <2>4 DEF add, Types
  <2> HIDE DEF e
  <2>7. AllPlain(list'[s])
    BY <1>1, <2>1, <2>2, <2>3, <2>6, AddRange DEF AllPlain
  <2> QED
    BY <2>3, <2>5, <2>6, <2>7, QuietPlain
<1>6. CASE close_r(s)
  <2>1. \E l \in {"access", "prompt"}, from \in {"boot", "loop", "command"} :
          Put(s, l, "load", from) \/ Put(s, l, at[s].site, from)
    BY <1>6, Going DEF close_r, Call, Pcs
  <2>2. UNCHANGED <<list, todo, content>>
    BY <1>6 DEF close_r
  <2> QED
    BY <1>1, <2>1, <2>2, QuietPlain
<1> QED
  BY <1>2, <1>3, <1>4, <1>5, <1>6 DEF load_config

\* The lines written and those left of a longer file.
LEMMA OverwriteRange ==
  ASSUME NEW lines \in Seq(Elements), NEW old \in Seq(Elements)
  PROVE  Range(Overwrite(lines, old)) \subseteq Range(lines) \union Range(old)
<1> DEFINE rest == SubSeq(old, Len(lines) + 1, Len(old))
<1>1. rest \in Seq(Elements)
  OBVIOUS
<1>2. Len(lines) \in Nat /\ Len(old) \in Nat /\ DOMAIN old = 1..Len(old)
  OBVIOUS
<1>3. \A i \in DOMAIN rest : Len(lines) + i \in DOMAIN old /\ rest[i] = old[Len(lines) + i]
  <2>1. /\ DOMAIN rest = 1..Len(rest)
        /\ Len(rest) = IF Len(lines) + 1 <= Len(old) THEN Len(old) - Len(lines) ELSE 0
    BY <1>2
  <2>2. \A i \in 1..Len(rest) : rest[i] = old[Len(lines) + 1 + i - 1]
    BY <1>2, <2>1
  <2> HIDE DEF rest
  <2>3. ASSUME NEW i \in DOMAIN rest
        PROVE  Len(lines) + i \in DOMAIN old /\ rest[i] = old[Len(lines) + i]
    <3>0. i \in 1..Len(rest)
      BY <2>1
    <3>1. i \in Nat /\ 1 <= i /\ i <= Len(old) - Len(lines)
      <4>1. CASE Len(lines) + 1 <= Len(old)
        BY <1>2, <2>1, <3>0, <4>1
      <4>2. CASE ~(Len(lines) + 1 <= Len(old))
        BY <1>2, <2>1, <3>0, <4>2
      <4> QED
        BY <4>1, <4>2
    <3>2. Len(lines) + 1 + i - 1 = Len(lines) + i
      BY <1>2, <3>1
    <3>3. Len(lines) + i \in 1..Len(old)
      BY <1>2, <3>1
    <3> QED
      BY <1>2, <2>2, <3>0, <3>2, <3>3
  <2> QED
    BY <2>3
<1> HIDE DEF rest
<1>4. Range(rest) \subseteq Range(old)
  BY <1>3 DEF Range
<1>5. Range(lines \o rest) = Range(lines) \union Range(rest)
  BY <1>1, RangeOfConcat
<1> QED
  BY <1>4, <1>5 DEF Overwrite, rest

LEMMA SavePlain ==
  ASSUME Types, Opens, NoColons, NEW s \in Shells, save_config(s)
  PROVE  NoColons'
<1> USE DEF memory, disk
<1>1. AllPlain(list[s]) /\ AllPlain(todo[s]) /\ \A f \in Files : AllPlain(content[f])
  BY DEF NoColons
<1>2. CASE remove(s)
  <2>1. CASE path = NoFile
    BY <1>2, <2>1, EndPlain DEF remove
  <2>2. CASE path # NoFile
    <3>1. Put(s, "access", "recreate", at[s].from)
      BY <1>2, <2>2, Going DEF remove, Call, Pcs
    <3> QED
      BY <1>1, <1>2, <2>2, <3>1, QuietPlain DEF remove
  <2> QED
    BY <2>1, <2>2
<1>3. CASE open_w(s)
  <2>1. CASE path = NoFile
    BY <1>3, <2>1, EndPlain DEF open_w
  <2>2. CASE path # NoFile
    <3>1. Put(s, "lock_w", at[s].site, at[s].from)
      BY <1>3, <2>2, Going DEF open_w, Pcs
    <3> QED
      BY <1>1, <1>3, <2>2, <3>1, QuietPlain DEF open_w
  <2> QED
    BY <2>1, <2>2
<1>4. CASE lock_w(s)
  <2>1. CASE list[s] = <<>>
    BY <1>1, <1>4, <2>1, SavedPlain DEF lock_w
  <2>2. CASE list[s] # <<>>
    <3>1. Put(s, "unlock", at[s].site, at[s].from) /\ UNCHANGED <<list, todo, content>>
      BY <1>4, <2>2, Going DEF lock_w, Pcs
    <3> QED
      BY <1>1, <3>1, QuietPlain
  <2> QED
    BY <2>1, <2>2
<1>5. CASE unlock(s)
  <2>1. Put(s, "fclose", at[s].site, at[s].from)
    BY <1>5, Going DEF unlock, Pcs
  <2> QED
    BY <1>1, <1>5, <2>1, QuietPlain DEF unlock
<1>6. CASE fclose(s)
  <2>1. /\ content' = [content EXCEPT ![wr[s]] = Overwrite(list[s], @)]
        /\ Saved(s) /\ UNCHANGED <<list, todo>> /\ wr[s] \in Files
    BY <1>6 DEF fclose, Opens
  <2>2. AllPlain(Overwrite(list[s], content[wr[s]]))
    <3>1. list[s] \in Seq(Elements) /\ content[wr[s]] \in Seq(Elements)
      BY <2>1 DEF Types, Lists
    <3>2. Range(Overwrite(list[s], content[wr[s]])) \subseteq Range(list[s]) \union Range(content[wr[s]])
      BY <3>1, OverwriteRange
    <3> QED
      BY <1>1, <2>1, <3>2 DEF AllPlain
  <2>3. \A f \in Files : content'[f] = IF f = wr[s] THEN Overwrite(list[s], content[wr[s]])
                                                    ELSE content[f]
    BY <2>1 DEF Types
  <2>4. \A f \in Files : AllPlain(content'[f])
    BY <1>1, <2>2, <2>3
  <2> QED
    BY <2>1, <2>4, SavedPlain
<1> QED
  BY <1>2, <1>3, <1>4, <1>5, <1>6 DEF save_config

LEMMA CommandPlain ==
  ASSUME Types, NoColons, ~colons', NEW s \in Shells,
         \/ other(s) \/ leave(s) \/ start(s) \/ kill(s)
         \/ \E c \in Commands : shortdir(s, c)
  PROVE  NoColons'
<1> USE DEF memory, disk
<1>1. AllPlain(list[s]) /\ AllPlain(todo[s])
  BY DEF NoColons
<1>2. CASE leave(s) \/ kill(s)
  BY <1>2, EndPlain DEF leave, kill
<1>3. CASE other(s)
  <2>1. Put(s, "access", "load", "loop") /\ UNCHANGED <<list, todo, content>>
    BY <1>3, Going DEF other, Call, Pcs
  <2> QED
    BY <1>1, <2>1, QuietPlain
<1>4. CASE start(s)
  <2>1. Put(s, "access", "load", "boot") /\ UNCHANGED <<list, todo, content>>
    BY <1>4, Going DEF start, Call, Pcs
  <2> QED
    BY <1>1, <2>1, QuietPlain
<1>5. ASSUME NEW c \in Commands, shortdir(s, c) PROVE NoColons'
  <2>1. CASE c.op = "del" /\ list[s] = <<>>
    <3>1. Put(s, "access", "load", "loop") /\ UNCHANGED <<list, todo, content>>
      BY <1>5, <2>1, Going DEF shortdir, Call, Pcs
    <3> QED
      BY <1>1, <3>1, QuietPlain
  <2>2. CASE ~(c.op = "del" /\ list[s] = <<>>)
    <3>1. Put(s, "access", "save", "command")
      BY <1>5, <2>2, Going DEF shortdir, Call, Pcs
    <3>2. /\ list' = [list EXCEPT ![s] = IF c.op = "set" THEN add_conf_elm(@, c.elm)
                                                         ELSE rm_config(@, c.names)]
          /\ UNCHANGED <<todo, content>>
      BY <1>5, <2>2 DEF shortdir
    <3>3. /\ list'[s] = IF c.op = "set" THEN add_conf_elm(list[s], c.elm)
                                        ELSE rm_config(list[s], c.names)
          /\ \A t \in Shells \ {s} : list'[t] = list[t]
          /\ list[s] \in Lists
      BY <3>2 DEF Types
    <3>4. c.op = "set" => Plain(c.elm)
      BY <1>5 DEF shortdir
    <3>5. ASSUME NEW e \in Aliases, c = Set(e) PROVE AllPlain(list'[s])
      <4>1. c.op = "set" /\ c.elm = e /\ e \in Elements
        BY <3>5 DEF Set, Elements
      <4>2. Range(list'[s]) = {d \in Range(list[s]) : d.name # e.name} \union {e}
        BY <3>3, <4>1, AddRange
      <4> QED
        BY <1>1, <3>4, <4>1, <4>2 DEF AllPlain
    <3>6. ASSUME NEW names \in Doomed, c = Del(names) PROVE AllPlain(list'[s])
      <4>1. c.op # "set" /\ c.names = names
        BY <3>6 DEF Del
      <4>2. Range(list'[s]) = {d \in Range(list[s]) : d.name \notin names}
        BY <3>3, <4>1, RemoveRange
      <4> QED
        BY <1>1, <4>2 DEF AllPlain
    <3>7. (\E e \in Aliases : c = Set(e)) \/ (\E names \in Doomed : c = Del(names))
      BY DEF Commands, Doomed
    <3> QED
      BY <1>1, <3>1, <3>2, <3>3, <3>5, <3>6, <3>7, QuietPlain
  <2> QED
    BY <2>1, <2>2
<1> QED
  BY <1>2, <1>3, <1>4, <1>5

LEMMA ColonsStay == [Next]_vars /\ ~colons' => ~colons
BY DEF Next, Run, get_config_file, access, stat, create, load_config, open_r, lock_r, read,
       add, close_r, save_config, remove, open_w, lock_w, unlock, fclose, other, leave,
       kill, start, shortdir, End, vars, past

LEMMA PlainAlways == Spec => [](~colons => NoColons)
<1>1. Init => NoColons
  BY NonePlain DEF Init, NoColons, Off
<1>2. ASSUME Types, Opens, ~colons => NoColons, [Next]_vars, ~colons' PROVE NoColons'
  <2>1. NoColons
    BY <1>2, ColonsStay
  <2>2. CASE Next
    BY <1>2, <2>1, <2>2, FindPlain, LoadPlain, SavePlain, CommandPlain DEF Next, Run
  <2>3. CASE UNCHANGED vars
    BY <2>1, <2>3 DEF vars, NoColons, AllPlain
  <2> QED
    BY <1>2, <2>2, <2>3
<1> QED
  BY <1>1, <1>2, TypesAlways, PTL DEF Spec

\* A shell that runs alone never stops with an error, whenever an earlier one
\* was killed; and none crashes over a line that was written for a name and a
\* directory without a colon, however many run (get_config_file, load_config,
\* save_config, config.h:12-217).
THEOREM RivalsTheorem == Spec => []OnlyRivalsFail
<1>1. (~shared => Sole) /\ (~colons => NoColons) => OnlyRivalsFail
  BY DEF Sole, NoColons, OnlyRivalsFail
<1> QED
  BY <1>1, SoleAlways, PlainAlways, PTL

-----------------------------------------------------------------------------
(* What a shell that runs alone promises *)

\* The elements that count: what the lines of ConfigFile hold.
Kept(s) ==
  IF Pending(s) THEN Range(OnDisk)
  ELSE IF at[s].site = "load" /\ at[s].pc \notin {"add", "prompt"}
       THEN Range(list[s]) \union Range(OnDisk)
       ELSE Range(list[s]) \union Range(todo[s])

\* Which call of get_config_file leads where, and where a command or lines
\* that were read are still to be dealt with.
Placed(s) ==
  /\ at[s].pc \in {"open_r", "lock_r", "read", "add", "prompt"} => at[s].site = "load"
  /\ at[s].pc = "remove" => at[s].site = "save"
  /\ at[s].pc \in {"open_w", "lock_w", "unlock", "fclose"} => at[s].site = "recreate"
  /\ at[s].from = "command" => at[s].site # "load"
  /\ command[s] # {} => at[s].from = "command"
  /\ at[s].from = "command" \/ (at[s].site = "load" /\ at[s].pc # "add") => todo[s] = <<>>

\* A command asked for is done in the list, and not yet in the file.
Prepared(s) ==
  /\ path # NoFile
  /\ \A c \in command[s] : Range(list[s]) = Done(c, Range(OnDisk))

Neat(s) ==
  /\ Placed(s)
  /\ Agree(Kept(s))
  /\ Range(OnDisk) \subseteq Kept(s)
  /\ Pending(s) => Prepared(s)

Resting(s) == at[s].site = "load" /\ command[s] = {} /\ todo[s] = <<>>

\* However a shell is killed, what is left is some of what counts, and no name
\* is given two directories.
Tidy ==
  /\ Agree(Range(OnDisk))
  /\ \A s \in Shells : IF Live(s) THEN Neat(s) ELSE Resting(s)

Waits(s) == IF Pending(s) THEN command[s] ELSE {}

\* What a user sees, in these terms.
Reads ==
  /\ \A s \in Shells : Live(s) => Told = TableOf(Kept(s)) /\ Asked = Waits(s)
  /\ (\A s \in Shells : ~Live(s)) => Told = TableOf(Range(OnDisk)) /\ Asked = {}

LEMMA DiskTypes ==
  ASSUME Types
  PROVE  OnDisk \in Seq(Elements) /\ Range(OnDisk) \subseteq Elements
<1>1. OnDisk \in Seq(Elements)
  BY EmptyList DEF Types, OnDisk
<1> QED
  BY <1>1 DEF Range

LEMMA LinesKept ==
  ASSUME Types, NEW s \in Shells
  PROVE  Lines(s) \in Seq(Elements) /\ Range(Lines(s)) = Kept(s)
<1>1. list[s] \in Seq(Elements) /\ todo[s] \in Seq(Elements) /\ OnDisk \in Seq(Elements)
  BY DiskTypes DEF Types, Lists
<1>2. /\ Range(list[s] \o OnDisk) = Range(list[s]) \union Range(OnDisk)
      /\ Range(list[s] \o todo[s]) = Range(list[s]) \union Range(todo[s])
      /\ list[s] \o OnDisk \in Seq(Elements) /\ list[s] \o todo[s] \in Seq(Elements)
  BY <1>1, RangeOfConcat
<1> DEFINE loading == at[s].site = "load" /\ at[s].pc \notin {"add", "prompt"}
<1>3. CASE Pending(s)
  <2>1. Lines(s) = OnDisk /\ Kept(s) = Range(OnDisk)
    BY <1>3 DEF Lines, Kept, Pending
  <2> QED
    BY <1>1, <2>1
<1>4. CASE ~Pending(s) /\ loading
  <2>1. Lines(s) = list[s] \o OnDisk /\ Kept(s) = Range(list[s]) \union Range(OnDisk)
    BY <1>4 DEF Lines, Kept
  <2> QED
    BY <1>2, <2>1
<1>5. CASE ~Pending(s) /\ ~loading
  <2>1. Lines(s) = list[s] \o todo[s] /\ Kept(s) = Range(list[s]) \union Range(todo[s])
    BY <1>5 DEF Lines, Kept
  <2> QED
    BY <1>2, <2>1
<1> QED
  BY <1>3, <1>4, <1>5

LEMMA TidyReads == Types /\ Sole /\ Tidy => Reads
<1> SUFFICES ASSUME Types, Sole, Tidy PROVE Reads
  OBVIOUS
<1>1. \A t \in Shells : ~Live(t) => ~Pending(t)
  BY DEF Tidy, Resting, Pending
<1>2. ASSUME NEW s \in Shells, Live(s) PROVE Told = TableOf(Kept(s)) /\ Asked = Waits(s)
  <2>1. \A t \in Shells : Live(t) <=> t = s
    BY <1>2 DEF Sole
  <2>2. (CHOOSE t \in Shells : Live(t)) = s /\ Running # {}
    BY <2>1 DEF Running
  <2>3. Told = AliasesOf(Lines(s))
    BY <2>2 DEF Told
  <2>4. Agree(Kept(s))
    BY <1>2 DEF Tidy, Neat
  <2>5. Told = TableOf(Kept(s))
    BY <2>3, <2>4, LinesKept, TableOfLines
  <2>6. Asked = Waits(s)
    <3>1. \A t \in Shells : Pending(t) => t = s
      BY <1>1, <2>1
    <3>2. CASE Pending(s)
      <4>1. {t \in Shells : Pending(t)} = {s}
        BY <3>1, <3>2
      <4> QED
        BY <3>2, <4>1 DEF Asked, Waits
    <3>3. CASE ~Pending(s)
      <4>1. {t \in Shells : Pending(t)} = {}
        BY <3>1, <3>3
      <4> QED
        BY <3>3, <4>1 DEF Asked, Waits
    <3> QED
      BY <3>2, <3>3
  <2> QED
    BY <2>5, <2>6
<1>3. ASSUME \A s \in Shells : ~Live(s) PROVE Told = TableOf(Range(OnDisk)) /\ Asked = {}
  <2>1. Running = {} /\ {t \in Shells : Pending(t)} = {}
    BY <1>1, <1>3 DEF Running
  <2>2. Told = AliasesOf(OnDisk) /\ Asked = {}
    BY <2>1 DEF Told, Asked
  <2> QED
    BY <2>2, DiskTypes, TableOfLines DEF Tidy
<1> QED
  BY <1>2, <1>3 DEF Reads

LEMMA InitTidy == Init => Tidy
<1> SUFFICES ASSUME Init PROVE Tidy
  OBVIOUS
<1>1. OnDisk = <<>> /\ \A s \in Shells : at[s] = Off /\ command[s] = {} /\ todo[s] = <<>>
  BY DEF Init, OnDisk
<1> QED
  BY <1>1, RangeOfNone DEF Tidy, Agree, Live, Resting, Off

\* A step of the shell that runs.
LEMMA StepTidy ==
  ASSUME Types, Sole, Tidy, NEW s \in Shells, Live(s), NEW l, NEW site, NEW from,
         Put(s, l, site, from), l \notin {"off", "failed", "crashed"},
         \A t \in Shells \ {s} : command'[t] = command[t] /\ todo'[t] = todo[t],
         Neat(s)'
  PROVE  Tidy'
<1>1. at'[s].pc = l /\ \A t \in Shells \ {s} : at'[t] = at[t]
  BY DEF Put
<1>2. \A t \in Shells \ {s} : ~Live(t)' /\ Resting(t)'
  BY <1>1 DEF Sole, Tidy, Live, Resting
<1>3. Live(s)'
  BY <1>1 DEF Live
<1>4. Agree(Range(OnDisk))'
  BY DEF Neat, Agree
<1> QED
  BY <1>2, <1>3, <1>4 DEF Tidy

\* One after which nothing looks different.
Still(s) == Live(s)' /\ Kept(s)' = Kept(s) /\ Waits(s)' = Waits(s)

\* A step that may change no more than where s is, and names or empties the
\* file.
LEMMA FindTidy ==
  ASSUME Types, Sole, Tidy, NEW s \in Shells, get_config_file(s)
  PROVE  Tidy' /\ Still(s)
<1> USE DEF memory, disk, past
<1>1. Live(s) /\ Neat(s) /\ InStep(s)
  BY DEF get_config_file, access, stat, create, Live, Sole, Tidy
<1>2. ASSUME NEW l \in {"create", "stat", "open_r", "remove", "open_w"},
             Put(s, l, at[s].site, at[s].from),
             l \in {"create", "stat"} \/
               /\ l = "open_r" <=> at[s].site = "load"
               /\ l = "remove" <=> at[s].site = "save"
               /\ l = "open_w" <=> at[s].site = "recreate",
             at[s].pc \in {"access", "stat", "create"},
             UNCHANGED <<command, list, todo>>, OnDisk' = OnDisk,
             path # NoFile => path' # NoFile
      PROVE  Tidy' /\ Still(s)
  <2>1. at'[s] = [pc |-> l, site |-> at[s].site, from |-> at[s].from]
    BY <1>2 DEF Put
  <2>2. Pending(s)' <=> Pending(s)
    BY <1>2, <2>1 DEF Pending
  <2>3. Kept(s)' = Kept(s) /\ Waits(s)' = Waits(s)
    BY <1>2, <2>1, <2>2 DEF Kept, Waits
  <2>4. Placed(s)'
    BY <1>1, <1>2, <2>1, Going DEF Neat, Placed
  <2>5. Prepared(s) => Prepared(s)'
    BY <1>2 DEF Prepared
  <2>6. Neat(s)'
    BY <1>1, <1>2, <2>2, <2>3, <2>4, <2>5 DEF Neat
  <2> QED
    BY <1>1, <1>2, <2>1, <2>3, <2>6, StepTidy DEF Still, Live
<1>3. CASE access(s)
  <2>1. Put(s, IF path = NoFile THEN "create" ELSE "stat", at[s].site, at[s].from)
    BY <1>3, Going DEF access, Pcs
  <2>2. UNCHANGED <<command, list, todo, path, content>> /\ at[s].pc = "access"
    BY <1>3 DEF access
  <2>3. OnDisk' = OnDisk
    BY <2>2 DEF OnDisk
  <2> QED
    BY <1>2, <2>1, <2>2, <2>3
<1>4. CASE stat(s)
  <2>1. path # NoFile /\ at[s].pc = "stat"
    BY <1>1, <1>4 DEF InStep, stat
  <2>2. UNCHANGED <<command, list, todo, path, content>> /\ Return(s)
    BY <1>4, <2>1 DEF stat
  <2>3. OnDisk' = OnDisk
    BY <2>2 DEF OnDisk
  <2> QED
    BY <1>2, <2>1, <2>2, <2>3, Going
<1>5. CASE create(s)
  <2>1. UNCHANGED <<command, list, todo>> /\ at[s].pc = "create" /\ Return(s)
    BY <1>5 DEF create
  <2>2. OnDisk' = OnDisk /\ (path # NoFile => path' # NoFile)
    <3>1. CASE path # NoFile
      BY <1>5, <3>1 DEF create, OnDisk
    <3>2. CASE path = NoFile
      <4> DEFINE f == Min(Unused)
      <4>1. f \in Files /\ f # NoFile
        BY <3>2, SomeUnused
      <4>2. path' = f /\ content' = [content EXCEPT ![f] = <<>>]
        BY <1>5, <3>2 DEF create
      <4> HIDE DEF f
      <4>3. path' # NoFile /\ content'[path'] = <<>>
        BY <4>1, <4>2 DEF Types
      <4> QED
        BY <3>2, <4>3 DEF OnDisk
    <3> QED
      BY <3>1, <3>2
  <2> QED
    BY <1>2, <2>1, <2>2, Going
<1> QED
  BY <1>3, <1>4, <1>5 DEF get_config_file

\* The line added was read: the two together are what they were.
LEMMA AddKept ==
  ASSUME NEW l \in Lists, NEW m \in Seq(Elements), m # <<>>,
         Agree(Range(l) \union Range(m))
  PROVE  Range(add_conf_elm(l, Head(m))) \union Range(Tail(m)) = Range(l) \union Range(m)
<1>1. Range(m) = {Head(m)} \union Range(Tail(m)) /\ Head(m) \in Elements
  BY RangeOfTail
<1>2. Range(add_conf_elm(l, Head(m))) =
        {e \in Range(l) : e.name # Head(m).name} \union {Head(m)}
  BY <1>1, AddRange
<1>3. \A e \in Range(l) : e.name = Head(m).name => e = Head(m)
  BY <1>1 DEF Agree
<1> QED
  BY <1>1, <1>2, <1>3

LEMMA LoadTidy ==
  ASSUME Types, Sole, Tidy, NoColons, NEW s \in Shells, load_config(s)
  PROVE  Tidy' /\ Still(s)
<1> USE DEF memory, disk, past
<1>1. Live(s) /\ Neat(s) /\ InStep(s) /\ Placed(s)
  BY DEF load_config, open_r, lock_r, read, add, close_r, Live, Sole, Tidy, Neat
<1>2. /\ at[s].site = "load" /\ at[s].from # "command" /\ command[s] = {}
      /\ ~Pending(s) /\ at[s].from \in {"boot", "loop"}
  BY <1>1, Going DEF load_config, open_r, lock_r, read, add, close_r, Placed, Pending
<1>3. ASSUME NEW l \in {"lock_r", "read", "add", "prompt", "access"},
             NEW site \in {"load", "save"}, NEW from \in {"boot", "loop"},
             Put(s, l, site, from), l # "access" => site = "load",
             site = "load" /\ l # "add" => todo'[s] = <<>>,
             UNCHANGED <<command, path, content>>,
             \A t \in Shells \ {s} : todo'[t] = todo[t],
             Kept(s)' = Kept(s)
      PROVE  Tidy' /\ Still(s)
  <2>1. at'[s] = [pc |-> l, site |-> site, from |-> from]
    BY <1>3 DEF Put
  <2>2. ~Pending(s)' /\ OnDisk' = OnDisk
    BY <1>2, <1>3 DEF Pending, OnDisk
  <2>3. Placed(s)'
    BY <1>2, <1>3, <2>1 DEF Placed
  <2>4. Neat(s)'
    BY <1>1, <1>3, <2>2, <2>3 DEF Neat
  <2>5. Waits(s)' = Waits(s)
    BY <1>2, <2>2 DEF Waits
  <2> QED
    BY <1>1, <1>3, <2>1, <2>4, <2>5, StepTidy DEF Still, Live
<1>4. CASE open_r(s)
  <2>1. path # NoFile /\ at[s].pc = "open_r"
    BY <1>1, <1>4 DEF InStep, open_r
  <2>2. Put(s, "lock_r", "load", at[s].from)
    BY <1>2, <1>4, <2>1, Going DEF open_r, Pcs
  <2>3. UNCHANGED <<command, list, todo, path, content>>
    BY <1>4, <2>1 DEF open_r
  <2>4. Kept(s)' = Kept(s) /\ todo[s] = <<>>
    BY <1>1, <1>2, <2>1, <2>2, <2>3 DEF Kept, Put, Pending, OnDisk, Placed
  <2> QED
    BY <1>2, <1>3, <2>2, <2>3, <2>4
<1>5. CASE lock_r(s)
  <2>1. Put(s, "read", "load", at[s].from) /\ at[s].pc = "lock_r"
    BY <1>2, <1>5, Going DEF lock_r, Pcs
  <2>2. UNCHANGED <<command, list, todo, path, content>>
    BY <1>5 DEF lock_r
  <2>3. Kept(s)' = Kept(s) /\ todo[s] = <<>>
    BY <1>1, <1>2, <2>1, <2>2 DEF Kept, Put, Pending, OnDisk, Placed
  <2> QED
    BY <1>2, <1>3, <2>1, <2>2, <2>3
<1>6. CASE read(s)
  <2>1. Put(s, "add", "load", at[s].from) /\ at[s].pc = "read"
    BY <1>2, <1>6, Going DEF read, Pcs
  <2>2. todo' = [todo EXCEPT ![s] = content[rd[s]]] /\ UNCHANGED <<command, list, path, content>>
    BY <1>6 DEF read
  <2>3. todo'[s] = OnDisk /\ \A t \in Shells \ {s} : todo'[t] = todo[t]
    BY <1>1, <2>1, <2>2 DEF InStep, OnDisk, Types
  <2>4. Kept(s)' = Kept(s)
    BY <1>2, <2>1, <2>2, <2>3 DEF Kept, Put, Pending
  <2> QED
    BY <1>2, <1>3, <2>1, <2>2, <2>3, <2>4
<1>7. CASE add(s)
  <2>0. Readable(Head(todo[s])) /\ Parsed(Head(todo[s])) = Head(todo[s])
    <3>1. todo[s] # <<>> /\ todo[s] \in Seq(Elements)
      BY <1>7 DEF add, Types
    <3>2. Head(todo[s]) \in Range(todo[s])
      BY <3>1, RangeOfTail
    <3> QED
      BY <3>2 DEF NoColons, AllPlain, Plain
  <2>1. Put(s, "access", "save", at[s].from) /\ at[s].pc = "add" /\ todo[s] # <<>>
    BY <1>7, <2>0, Going DEF add, Call, Pcs
  <2>2. /\ list' = [list EXCEPT ![s] = add_conf_elm(@, Head(todo[s]))]
        /\ todo' = [todo EXCEPT ![s] = Tail(@)]
        /\ UNCHANGED <<command, path, content>>
    BY <1>7, <2>0 DEF add
  <2>3. /\ list'[s] = add_conf_elm(list[s], Head(todo[s])) /\ todo'[s] = Tail(todo[s])
        /\ \A t \in Shells \ {s} : todo'[t] = todo[t]
    BY <2>2 DEF Types
  <2>4. Kept(s) = Range(list[s]) \union Range(todo[s]) /\ Agree(Kept(s))
    BY <1>1, <1>2, <2>1 DEF Kept, Neat
  <2>5. Range(list[s])' \union Range(todo[s])' = Kept(s)
    <3>1. list[s] \in Lists /\ todo[s] \in Seq(Elements)
      BY DEF Types
    <3>2. Range(add_conf_elm(list[s], Head(todo[s]))) \union Range(Tail(todo[s])) = Kept(s)
      BY <2>1, <2>4, <3>1, AddKept
    <3> QED
      BY <2>3, <3>2
  <2>6. Kept(s)' = Kept(s)
    BY <1>2, <2>1, <2>2, <2>5 DEF Kept, Put, Pending
  <2> QED
    BY <1>2, <1>3, <2>1, <2>2, <2>3, <2>6
<1>8. CASE close_r(s)
  <2>1. /\ at[s].pc = "add" /\ todo[s] = <<>>
        /\ UNCHANGED <<command, list, todo, path, content>>
    BY <1>8 DEF close_r
  <2>2. path # NoFile /\ OnDisk = list[s]
    BY <1>1, <2>1 DEF InStep, OnDisk
  <2>3. Kept(s) = Range(list[s])
    BY <1>2, <2>1, RangeOfNone DEF Kept
  <2>4. CASE at[s].from = "boot"
    <3>1. Put(s, "access", "load", "loop")
      BY <1>8, <2>4, Going DEF close_r, Call, Pcs
    <3>2. OnDisk' = OnDisk
      BY <2>1 DEF OnDisk
    <3>3. Kept(s)' = Kept(s)
      BY <1>2, <2>1, <2>2, <2>3, <3>1, <3>2 DEF Kept, Put, Pending
    <3> QED
      BY <1>3, <2>1, <3>1, <3>3
  <2>5. CASE at[s].from # "boot"
    <3>1. Put(s, "prompt", "load", at[s].from)
      BY <1>2, <1>8, <2>5, Going DEF close_r, Pcs
    <3>2. Kept(s)' = Kept(s)
      BY <1>2, <2>1, <2>3, <3>1, RangeOfNone DEF Kept, Put, Pending
    <3> QED
      BY <1>2, <1>3, <2>1, <3>1, <3>2
  <2> QED
    BY <2>4, <2>5
<1> QED
  BY <1>4, <1>5, <1>6, <1>7, <1>8 DEF load_config

\* save_config comes back to a file that says what the list says.
LEMMA SavedTidy ==
  ASSUME Types, Sole, Tidy, NEW s \in Shells, Live(s), at[s].site = "recreate", Saved(s),
         UNCHANGED <<list, todo, path>>, path # NoFile, content'[path] = list[s]
  PROVE  Tidy' /\ Still(s)
<1>1. Neat(s) /\ Placed(s) /\ ~Pending(s)
  BY DEF Tidy, Neat, Pending
<1>2. Kept(s) = Range(list[s]) \union Range(todo[s])
  BY <1>1 DEF Kept
<1>3. /\ command'[s] = {} /\ OnDisk' = list[s]
      /\ \A t \in Shells \ {s} : command'[t] = command[t]
  BY DEF Saved, Types, OnDisk
<1>4. ASSUME NEW l \in {"access", "add"}, NEW from \in {"boot", "loop"}, Put(s, l, "load", from),
             l = "access" => todo[s] = <<>>
      PROVE  Tidy' /\ Still(s)
  <2>1. at'[s] = [pc |-> l, site |-> "load", from |-> from]
    BY <1>4 DEF Put
  <2>2. ~Pending(s)'
    BY <2>1 DEF Pending
  <2>3. Placed(s)'
    BY <1>3, <1>4, <2>1 DEF Placed
  <2>4. Kept(s)' = Kept(s)
    <3>1. CASE l = "access"
      <4>1. Kept(s)' = Range(list[s])' \union Range(OnDisk)'
        BY <2>1, <2>2, <3>1 DEF Kept
      <4>2. Range(list[s])' = Range(list[s]) /\ Range(OnDisk)' = Range(list[s])
        BY <1>3
      <4> QED
        BY <1>2, <1>4, <3>1, <4>1, <4>2, RangeOfNone
    <3>2. CASE l = "add"
      BY <1>2, <2>1, <2>2, <3>2 DEF Kept
    <3> QED
      BY <3>1, <3>2
  <2>5. Waits(s)' = Waits(s)
    BY <1>1, <2>2 DEF Waits
  <2>6. Neat(s)'
    BY <1>1, <1>2, <1>3, <2>2, <2>3, <2>4 DEF Neat
  <2> QED
    BY <1>3, <1>4, <2>1, <2>4, <2>5, <2>6, StepTidy DEF Still, Live
<1>5. CASE at[s].from = "command"
  <2>1. Put(s, "access", "load", "loop")
    BY <1>5, Going DEF Saved, Call, Pcs
  <2> QED
    BY <1>1, <1>4, <1>5, <2>1 DEF Placed
<1>6. CASE at[s].from # "command"
  <2>1. Put(s, "add", "load", at[s].from) /\ at[s].from \in {"boot", "loop"}
    BY <1>6, Going DEF Saved, Pcs
  <2> QED
    BY <1>4, <2>1
<1> QED
  BY <1>5, <1>6

LEMMA DoneAgrees == ASSUME NEW c, NEW S, Agree(S) PROVE Agree(Done(c, S))
BY DEF Agree, Done

\* The step in which a command is done as a whole.
Doing(s) ==
  /\ Live(s)' /\ Waits(s)' = {}
  /\ command[s] # {} /\ Waits(s) = command[s]
  /\ \A c \in command[s] : Kept(s)' = Done(c, Kept(s))

LEMMA RemoveTidy ==
  ASSUME Types, Sole, Tidy, NEW s \in Shells, remove(s)
  PROVE  Tidy' /\ (Still(s) \/ Doing(s))
<1> USE DEF memory, disk, past
<1>1. Live(s) /\ Neat(s) /\ InStep(s) /\ Placed(s) /\ at[s].pc = "remove" /\ at[s].site = "save"
  BY DEF remove, Live, Sole, Tidy, Neat, Placed
<1>2. path # NoFile
  BY <1>1 DEF InStep
<1>3. Put(s, "access", "recreate", at[s].from)
  BY <1>2, Going DEF remove, Call, Pcs
<1>4. path' = NoFile /\ UNCHANGED <<command, list, todo, content>>
  BY <1>2 DEF remove
<1>5. at'[s] = [pc |-> "access", site |-> "recreate", from |-> at[s].from]
  BY <1>3 DEF Put
<1>6. ~Pending(s)' /\ OnDisk' = <<>> /\ Range(OnDisk)' = {}
  BY <1>4, <1>5, RangeOfNone DEF Pending, OnDisk
<1>7. Placed(s)'
  BY <1>1, <1>4, <1>5 DEF Placed
<1>8. Kept(s)' = Range(list[s]) \union Range(todo[s]) /\ Waits(s)' = {} /\ Live(s)'
  BY <1>4, <1>5, <1>6 DEF Kept, Waits, Live
<1>9. ASSUME Agree(Kept(s)') PROVE Tidy'
  <2>1. Neat(s)'
    BY <1>6, <1>7, <1>9 DEF Neat, Agree
  <2> QED
    BY <1>1, <1>3, <1>4, <2>1, StepTidy
<1>10. CASE Pending(s)
  <2>1. todo[s] = <<>> /\ Prepared(s) /\ Kept(s) = Range(OnDisk) /\ command[s] # {}
    BY <1>1, <1>10 DEF Neat, Placed, Kept, Pending
  <2>2. Kept(s)' = Range(list[s])
    BY <1>8, <2>1, RangeOfNone
  <2>3. \A c \in command[s] : Kept(s)' = Done(c, Kept(s))
    BY <2>1, <2>2 DEF Prepared
  <2>4. PICK c \in command[s] : Kept(s)' = Done(c, Kept(s))
    BY <2>1, <2>3
  <2>5. Agree(Kept(s)')
    BY <1>1, <2>4, DoneAgrees DEF Neat
  <2>6. Waits(s) = command[s]
    BY <1>10 DEF Waits
  <2> QED
    BY <1>8, <1>9, <2>1, <2>3, <2>5, <2>6 DEF Doing
<1>11. CASE ~Pending(s)
  <2>1. Kept(s) = Range(list[s]) \union Range(todo[s]) /\ Waits(s) = {}
    BY <1>1, <1>11 DEF Kept, Waits
  <2>2. Agree(Kept(s)')
    BY <1>1, <1>8, <2>1 DEF Neat
  <2> QED
    BY <1>8, <1>9, <2>1, <2>2 DEF Still
<1> QED
  BY <1>10, <1>11

LEMMA SaveTidy ==
  ASSUME Types, Opens, Sole, Tidy, NEW s \in Shells, save_config(s)
  PROVE  Tidy' /\ (Still(s) \/ Doing(s))
<1> USE DEF memory, disk, past
<1>1. Live(s) /\ Neat(s) /\ InStep(s) /\ Placed(s)
  BY DEF save_config, remove, open_w, lock_w, unlock, fclose, Live, Sole, Tidy, Neat
<1>2. ASSUME NEW l \in {"lock_w", "unlock", "fclose"}, Put(s, l, at[s].site, at[s].from),
             at[s].pc \in {"open_w", "lock_w", "unlock"},
             UNCHANGED <<command, list, todo, path, content>>
      PROVE  Tidy' /\ Still(s)
  <2>1. at'[s] = [pc |-> l, site |-> "recreate", from |-> at[s].from] /\ at[s].site = "recreate"
    BY <1>1, <1>2 DEF Put, Placed
  <2>2. ~Pending(s) /\ ~Pending(s)' /\ OnDisk' = OnDisk
    BY <1>2, <2>1 DEF Pending, OnDisk
  <2>3. Placed(s)'
    BY <1>1, <1>2, <2>1 DEF Placed
  <2>4. Kept(s)' = Kept(s) /\ Waits(s)' = Waits(s)
    BY <1>2, <2>1, <2>2 DEF Kept, Waits
  <2>5. Neat(s)'
    BY <1>1, <2>2, <2>3, <2>4 DEF Neat
  <2> QED
    BY <1>1, <1>2, <2>1, <2>4, <2>5, StepTidy DEF Still, Live
<1>3. CASE open_w(s)
  <2>1. path # NoFile /\ at[s].pc = "open_w"
    BY <1>1, <1>3 DEF InStep, open_w
  <2>2. Put(s, "lock_w", at[s].site, at[s].from)
    BY <1>3, <2>1, Going DEF open_w, Pcs
  <2> QED
    BY <1>2, <1>3, <2>1, <2>2 DEF open_w
<1>4. CASE lock_w(s)
  <2>1. at[s].pc = "lock_w" /\ at[s].site = "recreate"
    BY <1>1, <1>4 DEF lock_w, Placed
  <2>2. CASE list[s] = <<>>
    <3>1. Saved(s) /\ UNCHANGED <<list, todo, path, content>>
      BY <1>4, <2>2 DEF lock_w
    <3>2. path # NoFile /\ content'[path] = list[s]
      BY <1>1, <2>1, <2>2, <3>1 DEF InStep
    <3> QED
      BY <1>1, <2>1, <3>1, <3>2, SavedTidy
  <2>3. CASE list[s] # <<>>
    <3>1. Put(s, "unlock", at[s].site, at[s].from) /\ UNCHANGED <<memory, disk>>
      BY <1>4, <2>3, Going DEF lock_w, Pcs
    <3> QED
      BY <1>2, <2>1, <3>1
  <2> QED
    BY <2>2, <2>3
<1>5. CASE unlock(s)
  <2>1. Put(s, "fclose", at[s].site, at[s].from) /\ at[s].pc = "unlock"
    BY <1>5, Going DEF unlock, Pcs
  <2>2. UNCHANGED <<memory, disk>>
    BY <1>5 DEF unlock
  <2> QED
    BY <1>2, <2>1, <2>2
<1>6. CASE fclose(s)
  <2>1. /\ content' = [content EXCEPT ![wr[s]] = Overwrite(list[s], @)]
        /\ Saved(s) /\ UNCHANGED <<list, todo, path>> /\ at[s].pc = "fclose"
    BY <1>6 DEF fclose
  <2>2. wr[s] = path /\ path # NoFile /\ content[path] = <<>> /\ path \in Files
    BY <1>1, <2>1 DEF InStep, Types
  <2>3. Overwrite(list[s], <<>>) = list[s]
    BY OverwriteFits, EmptyList DEF Types, Lists
  <2>4. content'[path] = list[s]
    BY <2>1, <2>2, <2>3 DEF Types
  <2> QED
    BY <1>1, <2>1, <2>2, <2>4, SavedTidy DEF Placed
<1> QED
  BY <1>3, <1>4, <1>5, <1>6, RemoveTidy DEF save_config

\* The prompt, and the start of a command.
Asking(s) ==
  /\ Live(s)' /\ Kept(s)' = Kept(s)
  /\ Waits(s) = {} /\ \E c \in Commands : Waits(s)' = {c}

\* What a command makes of the list.
LEMMA CommandRange ==
  ASSUME NEW l \in Lists, NEW c \in Commands
  PROVE  Range(IF c.op = "set" THEN add_conf_elm(l, c.elm) ELSE rm_config(l, c.names))
           = Done(c, Range(l))
<1>1. ASSUME NEW e \in Aliases, c = Set(e)
      PROVE  Range(add_conf_elm(l, c.elm)) = Done(c, Range(l)) /\ c.op = "set"
  BY <1>1, AddRange DEF Set, Done, Elements
<1>2. ASSUME NEW names \in Doomed, c = Del(names)
      PROVE  Range(rm_config(l, c.names)) = Done(c, Range(l)) /\ c.op # "set"
  <2>1. c.op = "del" /\ c.names = names
    BY <1>2 DEF Del
  <2> QED
    BY <2>1, RemoveRange DEF Done
<1>3. (\E e \in Aliases : c = Set(e)) \/ (\E names \in Doomed : c = Del(names))
  BY DEF Commands, Doomed
<1> QED
  BY <1>1, <1>2, <1>3

LEMMA PromptTidy ==
  ASSUME Types, Sole, Tidy, NEW s \in Shells,
         other(s) \/ \E c \in Commands : shortdir(s, c)
  PROVE  Tidy' /\ (Still(s) \/ Asking(s))
<1> USE DEF memory, disk, past
<1>1. Live(s) /\ Neat(s) /\ InStep(s) /\ Placed(s) /\ at[s].pc = "prompt"
  BY DEF other, shortdir, Live, Sole, Tidy, Neat
<1>2. /\ at[s].site = "load" /\ todo[s] = <<>> /\ command[s] = {} /\ ~Pending(s)
      /\ path # NoFile /\ OnDisk = list[s]
  BY <1>1 DEF Placed, Pending, InStep, OnDisk
<1>3. Kept(s) = Range(list[s]) /\ Waits(s) = {} /\ Agree(Range(list[s]))
  BY <1>1, <1>2, RangeOfNone DEF Kept, Waits, Neat
<1>4. ASSUME Put(s, "access", "load", "loop"), UNCHANGED <<command, list, todo, path, content>>
      PROVE  Tidy' /\ Still(s)
  <2>1. at'[s] = [pc |-> "access", site |-> "load", from |-> "loop"]
    BY <1>4 DEF Put
  <2>2. ~Pending(s)' /\ OnDisk' = list[s] /\ list' = list
    BY <1>2, <1>4, <2>1 DEF Pending, OnDisk
  <2>3. Placed(s)'
    BY <1>2, <1>4, <2>1 DEF Placed
  <2>4. Kept(s)' = Kept(s) /\ Waits(s)' = Waits(s)
    BY <1>3, <2>1, <2>2 DEF Kept, Waits
  <2>5. Neat(s)'
    BY <1>3, <2>2, <2>3, <2>4 DEF Neat
  <2> QED
    BY <1>1, <1>4, <2>1, <2>4, <2>5, StepTidy DEF Still, Live
<1>5. CASE other(s)
  BY <1>4, <1>5, Going DEF other, Call, Pcs
<1>6. ASSUME NEW c \in Commands, shortdir(s, c) PROVE Tidy' /\ (Still(s) \/ Asking(s))
  <2>1. CASE c.op = "del" /\ list[s] = <<>>
    BY <1>4, <1>6, <2>1, Going DEF shortdir, Call, Pcs
  <2>2. CASE ~(c.op = "del" /\ list[s] = <<>>)
    <3>1. Put(s, "access", "save", "command")
      BY <1>6, <2>2, Going DEF shortdir, Call, Pcs
    <3>2. /\ command' = [command EXCEPT ![s] = {c}]
          /\ list' = [list EXCEPT ![s] = IF c.op = "set" THEN add_conf_elm(@, c.elm)
                                                         ELSE rm_config(@, c.names)]
          /\ UNCHANGED <<todo, path, content>>
      BY <1>6, <2>2 DEF shortdir
    <3>3. /\ command'[s] = {c} /\ \A t \in Shells \ {s} : command'[t] = command[t]
          /\ list'[s] = IF c.op = "set" THEN add_conf_elm(list[s], c.elm)
                                        ELSE rm_config(list[s], c.names)
      BY <3>2 DEF Types
    <3>4. at'[s] = [pc |-> "access", site |-> "save", from |-> "command"]
      BY <3>1 DEF Put
    <3>5. Pending(s)' /\ OnDisk' = list[s] /\ path' # NoFile
      BY <1>2, <3>2, <3>3, <3>4 DEF Pending, OnDisk
    <3>6. Range(list[s])' = Done(c, Range(list[s]))
      BY <3>3, CommandRange DEF Types
    <3>7. Prepared(s)'
      BY <3>3, <3>5, <3>6 DEF Prepared
    <3>8. Placed(s)'
      BY <1>2, <3>2, <3>4 DEF Placed
    <3>9. Kept(s)' = Kept(s) /\ Waits(s)' = {c}
      BY <1>3, <3>3, <3>5 DEF Kept, Waits
    <3>10. Neat(s)'
      BY <1>3, <3>5, <3>7, <3>8, <3>9 DEF Neat
    <3> QED
      BY <1>1, <1>3, <3>1, <3>2, <3>3, <3>4, <3>9, <3>10, StepTidy DEF Asking, Live
  <2> QED
    BY <2>1, <2>2
<1> QED
  BY <1>5, <1>6

LEMMA EndTidy ==
  ASSUME Types, Sole, Tidy, NEW s \in Shells, Live(s), End(s, "off")
  PROVE  Tidy' /\ (\A t \in Shells : ~Live(t)') /\ UNCHANGED <<path, content>>
<1>1. Put(s, "off", "load", "boot")
  BY Going
<1>2. at'[s] = [pc |-> "off", site |-> "load", from |-> "boot"] /\ \A t \in Shells \ {s} : at'[t] = at[t]
  BY <1>1 DEF Put
<1>3. /\ command'[s] = {} /\ todo'[s] = <<>> /\ UNCHANGED <<path, content>>
      /\ \A t \in Shells \ {s} : command'[t] = command[t] /\ todo'[t] = todo[t]
  BY DEF End, Types, disk
<1>4. \A t \in Shells : ~Live(t)' /\ Resting(t)'
  BY <1>2, <1>3 DEF Sole, Tidy, Live, Resting
<1>5. Range(OnDisk)' = Range(OnDisk)
  BY <1>3 DEF OnDisk
<1> QED
  BY <1>3, <1>4, <1>5 DEF Tidy

LEMMA StartTidy ==
  ASSUME Types, Sole, Tidy, NEW s \in Shells, start(s), ~shared'
  PROVE  /\ Tidy' /\ Live(s)' /\ \A t \in Shells : ~Live(t)
         /\ Kept(s)' = Range(OnDisk) /\ Waits(s)' = {}
<1>1. Put(s, "access", "load", "boot")
  BY Going DEF start, Call, Pcs
<1>2. /\ \A t \in Shells : ~Live(t)
      /\ UNCHANGED <<command, list, todo, path, content>>
  BY DEF start, memory, disk
<1>3. at'[s] = [pc |-> "access", site |-> "load", from |-> "boot"] /\ \A t \in Shells \ {s} : at'[t] = at[t]
  BY <1>1 DEF Put
<1>4. list[s] = <<>> /\ command[s] = {} /\ todo[s] = <<>>
  BY <1>2 DEF Sole, Tidy, Resting
<1>5. ~Pending(s)' /\ OnDisk' = OnDisk
  BY <1>2, <1>3 DEF Pending, OnDisk
<1>6. Kept(s)' = Range(OnDisk) /\ Waits(s)' = {}
  <2>1. Kept(s)' = Range(list[s])' \union Range(OnDisk)'
    BY <1>3, <1>5 DEF Kept
  <2>2. Range(list[s])' = {} /\ Range(OnDisk)' = Range(OnDisk)
    BY <1>2, <1>4, <1>5, RangeOfNone
  <2> QED
    BY <1>5, <2>1, <2>2 DEF Waits
<1>7. Placed(s)'
  BY <1>2, <1>3, <1>4 DEF Placed
<1>8. Neat(s)' /\ Agree(Range(OnDisk))'
  BY <1>5, <1>6, <1>7 DEF Neat, Tidy
<1>9. \A t \in Shells \ {s} : ~Live(t)' /\ Resting(t)'
  BY <1>2, <1>3 DEF Tidy, Live, Resting
<1>10. Live(s)'
  BY <1>3 DEF Live
<1> QED
  BY <1>2, <1>6, <1>8, <1>9, <1>10 DEF Tidy

\* Some of the elements make the table without some names.
LEMMA SomeOfTable ==
  ASSUME NEW S, Agree(S), NEW D \in SUBSET S
  PROVE  /\ DOMAIN TableOf(D) \subseteq DOMAIN TableOf(S)
         /\ TableOf(D) = [n \in DOMAIN TableOf(D) |-> TableOf(S)[n]]
<1>1. Agree(D)
  BY DEF Agree
<1>2. ASSUME NEW n \in DOMAIN TableOf(D)
      PROVE  n \in DOMAIN TableOf(S) /\ TableOf(D)[n] = TableOf(S)[n]
  <2>1. PICK e \in D : e.name = n
    BY DEF TableOf
  <2> QED
    BY <1>1, <2>1, TableHas
<1>3. TableOf(D) = [n \in DOMAIN TableOf(D) |-> TableOf(D)[n]]
  BY DEF TableOf
<1> QED
  BY <1>2, <1>3

\* What is done to the elements is done to the table.
LEMMA SetTable ==
  ASSUME NEW S, Agree(S), NEW c, c.op = "set"
  PROVE  TableOf(Done(c, S)) =
           [n \in DOMAIN TableOf(S) \union {c.elm.name} |->
              IF n = c.elm.name THEN c.elm.path ELSE TableOf(S)[n]]
<1> DEFINE rest == {e \in S : e.name # c.elm.name}
           names == DOMAIN TableOf(S) \union {c.elm.name}
<1>1. Done(c, S) = rest \union {c.elm} /\ Agree(Done(c, S))
  BY DoneAgrees DEF Done
<1>2. DOMAIN TableOf(Done(c, S)) = names
  BY <1>1 DEF TableOf
<1>3. ASSUME NEW n \in names
      PROVE  TableOf(Done(c, S))[n] = IF n = c.elm.name THEN c.elm.path ELSE TableOf(S)[n]
  <2>1. CASE n = c.elm.name
    BY <1>1, <2>1, TableHas
  <2>2. CASE n # c.elm.name
    <3>1. PICK e \in S : e.name = n
      BY <2>2 DEF TableOf
    <3>2. e \in Done(c, S)
      BY <1>1, <2>2, <3>1
    <3> QED
      BY <1>1, <2>2, <3>1, <3>2, TableHas
  <2> QED
    BY <2>1, <2>2
<1>4. TableOf(Done(c, S)) = [n \in DOMAIN TableOf(Done(c, S)) |-> TableOf(Done(c, S))[n]]
  BY DEF TableOf
<1> HIDE DEF names
<1>5. TableOf(Done(c, S)) = [n \in names |-> TableOf(Done(c, S))[n]]
  BY <1>2, <1>4
<1>6. TableOf(Done(c, S)) = [n \in names |-> IF n = c.elm.name THEN c.elm.path ELSE TableOf(S)[n]]
  BY <1>3, <1>5
<1> QED
  BY <1>6 DEF names

LEMMA DelTable ==
  ASSUME NEW S, Agree(S), NEW c, c.op # "set"
  PROVE  TableOf(Done(c, S)) = [n \in DOMAIN TableOf(S) \ c.names |-> TableOf(S)[n]]
<1>1. Done(c, S) = {e \in S : e.name \notin c.names}
  BY DEF Done
<1>2. DOMAIN TableOf(Done(c, S)) = DOMAIN TableOf(S) \ c.names
  BY <1>1 DEF TableOf
<1>3. TableOf(Done(c, S)) = [n \in DOMAIN TableOf(Done(c, S)) |-> TableOf(S)[n]]
  BY <1>1, SomeOfTable
<1> QED
  BY <1>2, <1>3

\* The steps of one shell as steps of AliasStore.
LEMMA StillStore ==
  ASSUME Reads, Reads', NEW s \in Shells, Live(s), Still(s)
  PROVE  UNCHANGED Store!vars
<1>1. Told' = Told /\ Asked' = Asked
  BY DEF Reads, Still
<1>2. Running # {} /\ Running' # {}
  BY DEF Still, Running
<1>3. (Running # {})' = (Running # {})
  BY <1>2
<1> QED
  BY <1>1, <1>3 DEF Store!vars

LEMMA DoingStore ==
  ASSUME Types, Tidy, Reads, Reads', NEW s \in Shells, Live(s), Doing(s)
  PROVE  Store!Next
<1>1. /\ Told = TableOf(Kept(s)) /\ Told' = TableOf(Kept(s)')
      /\ Asked = command[s] /\ Asked' = {}
  BY DEF Reads, Doing
<1>2. Running # {} /\ Running' # {}
  BY DEF Doing, Running
<1>3. PICK c \in command[s] : Kept(s)' = Done(c, Kept(s))
  BY DEF Doing
<1>4. Agree(Kept(s))
  BY DEF Tidy, Neat
<1>5. Told' = Store!After(c)
  <2>1. CASE c.op = "set"
    <3>1. Told' = [n \in DOMAIN Told \union {c.elm.name} |->
                     IF n = c.elm.name THEN c.elm.path ELSE Told[n]]
      BY <1>1, <1>3, <1>4, <2>1, SetTable
    <3> QED
      BY <2>1, <3>1 DEF Store!After, Store!With
  <2>2. CASE c.op # "set"
    <3>1. TableOf(Done(c, Kept(s))) =
            [n \in DOMAIN TableOf(Kept(s)) \ c.names |-> TableOf(Kept(s))[n]]
      BY <1>4, <2>2, DelTable
    <3>2. Told' = [n \in DOMAIN Told \ c.names |-> Told[n]]
      BY <1>1, <1>3, <3>1, Zenon
    <3> QED
      BY <2>2, <3>2 DEF Store!After, Store!Without, Store!Restrict
  <2> QED
    BY <2>1, <2>2
<1>6. Store!Do
  BY <1>1, <1>2, <1>3, <1>5 DEF Store!Do
<1> QED
  BY <1>6 DEF Store!Next

LEMMA AskingStore ==
  ASSUME Reads, Reads', NEW s \in Shells, Live(s), Asking(s)
  PROVE  Store!Next
<1>1. Told' = Told /\ Asked = {} /\ \E c \in Commands : Asked' = {c}
  BY DEF Reads, Asking
<1>2. Running # {} /\ Running' # {}
  BY DEF Asking, Running
<1>3. Store!Ask
  BY <1>1, <1>2 DEF Store!Ask
<1> QED
  BY <1>3 DEF Store!Next

LEMMA StartStore ==
  ASSUME Reads, Reads', NEW s \in Shells, Live(s)', \A t \in Shells : ~Live(t),
         Kept(s)' = Range(OnDisk), Waits(s)' = {}
  PROVE  Store!Next
<1>1. Told' = Told /\ Asked' = Asked
  BY DEF Reads
<1>2. Running = {} /\ Running' # {}
  BY DEF Running
<1>3. Store!Open
  BY <1>1, <1>2 DEF Store!Open
<1> QED
  BY <1>3 DEF Store!Next

LEMMA EndStore ==
  ASSUME Tidy, Reads, Reads', NEW s \in Shells, Live(s),
         \A t \in Shells : ~Live(t)', UNCHANGED <<path, content>>
  PROVE  Store!Next /\ (Sole /\ at[s].pc = "prompt" => Store!Close)
<1>1. /\ Told = TableOf(Kept(s)) /\ Asked = Waits(s)
      /\ Told' = TableOf(Range(OnDisk)) /\ Asked' = {}
  <2>1. Range(OnDisk)' = Range(OnDisk)
    BY DEF OnDisk
  <2> QED
    BY <2>1 DEF Reads
<1>2. Running # {} /\ Running' = {}
  BY DEF Running
<1>3. Agree(Kept(s)) /\ Range(OnDisk) \subseteq Kept(s) /\ Placed(s)
  BY DEF Tidy, Neat
<1>4. Store!Crash
  <2> DEFINE lost == DOMAIN Told \ DOMAIN Told'
  <2>1. DOMAIN Told' \subseteq DOMAIN Told /\ Told' = [n \in DOMAIN Told' |-> Told[n]]
    BY <1>1, <1>3, SomeOfTable
  <2>2. DOMAIN Told \ lost = DOMAIN Told'
    BY <2>1
  <2>3. Told' = Store!Without(lost)
    BY <2>1, <2>2 DEF Store!Without, Store!Restrict
  <2> QED
    BY <1>1, <1>2, <2>3 DEF Store!Crash
<1>5. ASSUME Sole, at[s].pc = "prompt" PROVE Store!Close
  <2>1. at[s].site = "load" /\ todo[s] = <<>> /\ OnDisk = list[s] /\ ~Pending(s)
    BY <1>3, <1>5 DEF Placed, Sole, InStep, OnDisk, Pending
  <2>2. Kept(s) = Range(OnDisk) /\ Waits(s) = {}
    BY <1>5, <2>1, RangeOfNone DEF Kept, Waits
  <2> QED
    BY <1>1, <1>2, <2>2 DEF Store!Close
<1> QED
  BY <1>4, <1>5 DEF Store!Next

LEMMA SharedStays == [Next]_vars /\ ~shared' => ~shared
BY DEF Next, Run, get_config_file, access, stat, create, load_config, open_r, lock_r, read,
       add, close_r, save_config, remove, open_w, lock_w, unlock, fclose, other, leave,
       kill, start, shortdir, End, vars, past

\* What AliasesLast says of a step.
Promise ==
  /\ [Store!Next]_(Store!vars)
  /\ \A s \in Shells : leave(s) => Store!Close

\* Where the shell runs on, none has left.
LEMMA NotLeaving ==
  ASSUME Types, Sole, NEW s \in Shells, Live(s), Live(s)'
  PROVE  \A t \in Shells : ~leave(t)
<1> SUFFICES ASSUME NEW t \in Shells, leave(t) PROVE FALSE
  OBVIOUS
<1>1. t = s
  BY DEF leave, Live, Sole
<1>2. Put(s, "off", "load", "boot")
  BY <1>1, Going DEF leave
<1> QED
  BY <1>2 DEF Put, Live

LEMMA StepPromise ==
  /\ Types /\ Opens /\ (~colons => NoColons) /\ (~shared /\ ~colons => Sole /\ Tidy)
  /\ [Next]_vars /\ ~shared' /\ ~colons'
  => Tidy' /\ (Reads /\ Reads' => Promise)
<1> SUFFICES ASSUME Types, Opens, NoColons, Sole /\ Tidy, [Next]_vars, ~shared'
             PROVE  Tidy' /\ (Reads /\ Reads' => Promise)
  BY SharedStays, ColonsStay
<1>1. CASE UNCHANGED vars
  <2>1. UNCHANGED <<at, command, list, todo, path, content>>
    BY <1>1 DEF vars
  <2>2. Tidy'
    BY <2>1 DEF Tidy, Live, Resting, Neat, Placed, Prepared, Kept, Pending, OnDisk
  <2>3. Told' = Told /\ Asked' = Asked /\ Running' = Running
    BY <2>1 DEF Told, Asked, Running, Live, Lines, Pending, OnDisk
  <2>4. UNCHANGED Store!vars
    BY <2>3 DEF Store!vars
  <2>5. \A s \in Shells : ~leave(s)
    <3> SUFFICES ASSUME NEW s \in Shells, leave(s) PROVE FALSE
      OBVIOUS
    <3>1. at[s].pc = "prompt" /\ Put(s, "off", "load", "boot")
      BY Going DEF leave
    <3> QED
      BY <2>1, <3>1 DEF Put
  <2> QED
    BY <2>2, <2>4, <2>5 DEF Promise
<1>2. ASSUME NEW s \in Shells, start(s)
      PROVE  Tidy' /\ (Reads /\ Reads' => Promise)
  <2>1. Tidy' /\ (Reads /\ Reads' => Store!Next)
    BY <1>2, StartTidy, StartStore
  <2>2. \A t \in Shells : ~leave(t)
    BY <1>2, StartTidy DEF leave, Live
  <2> QED
    BY <2>1, <2>2 DEF Promise
<1>3. ASSUME NEW s \in Shells, leave(s) \/ kill(s)
      PROVE  Tidy' /\ (Reads /\ Reads' => Promise)
  <2>1. End(s, "off") /\ Live(s)
    BY <1>3 DEF leave, kill, Live
  <2>2. Tidy' /\ (\A t \in Shells : ~Live(t)') /\ UNCHANGED <<path, content>>
    BY <2>1, EndTidy
  <2>3. ASSUME NEW t \in Shells, leave(t) PROVE t = s /\ at[s].pc = "prompt"
    BY <2>1, <2>3 DEF leave, Live, Sole
  <2> QED
    BY <2>1, <2>2, <2>3, EndStore DEF Promise
<1>4. ASSUME NEW s \in Shells, Run(s) \/ other(s) \/ \E c \in Commands : shortdir(s, c)
      PROVE  Tidy' /\ (Reads /\ Reads' => Promise)
  <2>1. Live(s)
    BY <1>4 DEF Run, get_config_file, access, stat, create, load_config, open_r,
                lock_r, read, add, close_r, save_config, remove, open_w, lock_w,
                unlock, fclose, other, shortdir, Live
  <2>2. Tidy' /\ (Still(s) \/ Doing(s) \/ Asking(s))
    BY <1>4, FindTidy, LoadTidy, SaveTidy, PromptTidy DEF Run
  <2>3. \A t \in Shells : ~leave(t)
    BY <2>1, <2>2, NotLeaving DEF Still, Doing, Asking
  <2> QED
    BY <2>1, <2>2, <2>3, StillStore, DoingStore, AskingStore DEF Promise
<1> QED
  BY <1>1, <1>2, <1>3, <1>4 DEF Next

LEMMA TidyAlways == Spec => [](~shared /\ ~colons => Sole /\ Tidy)
<1>1. /\ Types /\ Opens /\ (~colons => NoColons) /\ (~shared /\ ~colons => Sole /\ Tidy)
      /\ [Next]_vars /\ ~shared' /\ ~colons'
      => Tidy'
  BY StepPromise
<1>2. [Next]_vars /\ ~shared' /\ ~colons' => ~shared /\ ~colons
  BY SharedStays, ColonsStay
<1> QED
  BY <1>1, <1>2, InitTidy, TypesAlways, SoleAlways, PlainAlways, PTL DEF Spec

\* One shell at a time, names and directories without a colon: a command is done
\* as a whole or not at all, a shell that ends leaves the aliases as they are,
\* and one that is killed loses some at most (main, shortdir_handler,
\* load_config, save_config, seashell.c:46-59, config.h:12-304).
THEOREM AliasesTheorem == Spec => AliasesLast
<1>1. [Next]_vars /\ ~shared' /\ ~colons' => ~shared /\ ~colons
  BY SharedStays, ColonsStay
<1>2. Types /\ (~shared /\ ~colons => Sole /\ Tidy) => (~shared /\ ~colons => Reads)
  BY TidyReads
<1>3. /\ Types /\ Opens /\ (~colons => NoColons) /\ (~shared /\ ~colons => Sole /\ Tidy)
      /\ (~shared /\ ~colons => Reads) /\ (~shared /\ ~colons => Reads)'
      /\ [Next]_vars
      => [~shared' /\ ~colons' => Promise]_vars
  BY <1>1, StepPromise
<1> QED
  BY <1>2, <1>3, TypesAlways, PlainAlways, TidyAlways, PTL DEF Spec, AliasesLast, Promise

-----------------------------------------------------------------------------
(* Two shells at a time *)

\* load_config has the file it reads open while it adds, and so saves; that
\* it has added something is why save_config never finds the list empty then.
Control(s) ==
  /\ at[s].pc \in {"open_r", "lock_r", "read", "add", "prompt", "off", "failed", "crashed"} =>
       at[s].site = "load"
  /\ at[s].pc = "remove" => at[s].site = "save"
  /\ at[s].pc \in {"open_w", "lock_w", "unlock", "fclose"} => at[s].site = "recreate"
  /\ at[s].from = "command" => at[s].site # "load"
  /\ rd[s] # NoFile <=>
       IF at[s].site = "load" THEN at[s].pc \in {"lock_r", "read", "add"}
       ELSE at[s].from # "command"
  /\ wr[s] # NoFile <=> at[s].pc \in {"lock_w", "unlock", "fclose"}
  /\ at[s].site # "load" /\ at[s].from # "command" => list[s] # <<>>

\* s asks for a lock on f.
Asks(s, f) ==
  (at[s].pc = "lock_r" /\ rd[s] = f) \/ (at[s].pc = "lock_w" /\ wr[s] = f)

\* load_config is on its way to the file, or has just opened f.
Nearing(s, f) ==
  \/ at[s].site = "load" /\ at[s].pc \in {"access", "stat", "create", "open_r"}
  \/ at[s].pc = "lock_r" /\ rd[s] = f

\* A write lock on f that save_config has not given back: as long as f has
\* the name s is on its way to close it, and then nobody asks for it.
LeftLocked(s, f) ==
  IF f = path THEN Nearing(s, f) ELSE \A t \in Shells \ {s} : ~Asks(t, f)

Locked(f, s) ==
  /\ lock[f][s] = "read" => rd[s] = f /\ at[s].pc # "lock_r"
  /\ lock[f][s] = "write" =>
       /\ (at[s].pc = "unlock" /\ wr[s] = f) \/ LeftLocked(s, f)
       /\ \A t \in Shells \ {s} : lock[f][t] = "none"

\* What a shell reads has lost its name once the shell has removed the file.
Removed(s) == at[s].site = "recreate" /\ rd[s] # NoFile => rd[s] # path

\* Neither writes to the file the other reads, if both have removed one.
Apart(s, t) ==
  /\ \A f \in Files : Asks(s, f) /\ Asks(t, f) => f = path
  /\ at[s].site = "recreate" /\ at[t].site = "recreate" /\ wr[s] # NoFile /\ wr[t] # NoFile
       => ~(wr[s] = rd[t] /\ wr[t] = rd[s])

Orderly ==
  /\ \A s \in Shells : Control(s) /\ Removed(s)
  /\ \A f \in Files, s \in Shells : Locked(f, s)
  /\ \A s, t \in Shells : s # t => Apart(s, t)

LEMMA InitOrderly == Init => Orderly
<1> SUFFICES ASSUME Init PROVE Orderly
  OBVIOUS
<1>1. \A s \in Shells : /\ at[s] = [pc |-> "off", site |-> "load", from |-> "boot"]
                        /\ rd[s] = NoFile /\ wr[s] = NoFile
                        /\ \A f \in Files : lock[f][s] = "none"
  BY DEF Init, Off
<1> QED
  BY <1>1 DEF Orderly, Control, Removed, Locked, Apart, Asks

\* A step of s leaves the other shells' files and lists alone.
Apartness(s) == \A t \in Shells \ {s} : rd'[t] = rd[t] /\ wr'[t] = wr[t] /\ list'[t] = list[t]

\* A step of s that gives no lock and no name.
LEMMA QuietOrderly ==
  ASSUME Types, Orderly, NEW s \in Shells, NEW l, NEW site, NEW from, Put(s, l, site, from),
         Apartness(s), rd'[s] = rd[s], wr'[s] \in {wr[s], NoFile}, UNCHANGED <<path, lock>>,
         at[s].pc \notin {"lock_r", "unlock"}, l \notin {"lock_r", "lock_w"},
         Nearing(s, path) => Nearing(s, path)',
         site = "recreate" => at[s].site = "recreate",
         Control(s)'
  PROVE  Orderly'
<1>1. at'[s].pc = l /\ at'[s].site = site /\ \A t \in Shells \ {s} : at'[t] = at[t]
  BY DEF Put
<1>2. \A t \in Shells : Control(t)' /\ Removed(t)'
  BY <1>1 DEF Orderly, Control, Removed, Apartness
<1>3. \A t \in Shells, f \in Files : Asks(t, f)' => Asks(t, f)
  BY <1>1 DEF Asks, Apartness
<1>4. ASSUME NEW f \in Files, NEW t \in Shells PROVE Locked(f, t)'
  <2>1. Locked(f, t)
    BY DEF Orderly
  <2>2. t # s => (Nearing(t, f)' <=> Nearing(t, f)) /\ (at'[t] = at[t])
                 /\ wr'[t] = wr[t] /\ rd'[t] = rd[t]
    BY <1>1 DEF Nearing, Apartness
  <2>3. LeftLocked(t, f) => LeftLocked(t, f)'
    BY <1>1, <1>3, <2>2 DEF LeftLocked, Nearing
  <2> QED
    BY <1>1, <2>1, <2>2, <2>3 DEF Locked
<1>5. ASSUME NEW t \in Shells, NEW u \in Shells, t # u PROVE Apart(t, u)'
  <2>1. Apart(t, u)
    BY <1>5 DEF Orderly
  <2> QED
    BY <1>1, <1>3, <2>1 DEF Apart, Apartness
<1> QED
  BY <1>2, <1>4, <1>5 DEF Orderly

\* The end of a process.
LEMMA EndOrderly ==
  ASSUME Types, Orderly, NEW s \in Shells, NEW l \in {"off", "failed", "crashed"}, End(s, l)
  PROVE  Orderly'
<1>1. Put(s, l, "load", "boot")
  BY Going
<1>2. /\ at'[s] = [pc |-> l, site |-> "load", from |-> "boot"]
      /\ \A t \in Shells \ {s} : at'[t] = at[t]
  BY <1>1 DEF Put
<1>3. /\ rd'[s] = NoFile /\ wr'[s] = NoFile /\ Apartness(s) /\ path' = path
      /\ \A f \in Files : lock'[f][s] = "none" /\ \A t \in Shells \ {s} : lock'[f][t] = lock[f][t]
  BY DEF End, Types, Apartness, disk
<1>4. \A t \in Shells : Control(t)' /\ Removed(t)'
  BY <1>2, <1>3 DEF Orderly, Control, Removed, Apartness
<1>5. \A t \in Shells, f \in Files : Asks(t, f)' => Asks(t, f) /\ t # s
  BY <1>2, <1>3 DEF Asks, Apartness
<1>6. ASSUME NEW f \in Files, NEW t \in Shells PROVE Locked(f, t)'
  <2>1. Locked(f, t)
    BY DEF Orderly
  <2>2. t # s => (Nearing(t, f)' <=> Nearing(t, f)) /\ (at'[t] = at[t])
                 /\ wr'[t] = wr[t] /\ rd'[t] = rd[t]
    BY <1>2, <1>3 DEF Nearing, Apartness
  <2>3. t # s /\ LeftLocked(t, f) => LeftLocked(t, f)'
    BY <1>3, <1>5, <2>2 DEF LeftLocked
  <2>4. \A u \in Shells : lock'[f][u] \in {lock[f][u], "none"}
    BY <1>3
  <2> QED
    BY <1>3, <2>1, <2>2, <2>3, <2>4 DEF Locked
<1>7. ASSUME NEW t \in Shells, NEW u \in Shells, t # u PROVE Apart(t, u)'
  <2>1. Apart(t, u)
    BY <1>7 DEF Orderly
  <2> QED
    BY <1>2, <1>3, <1>5, <2>1 DEF Apart, Apartness
<1> QED
  BY <1>4, <1>6, <1>7 DEF Orderly

\* The name is given to a new file.
LEMMA NameOrderly ==
  ASSUME Types, Orderly, NEW s \in Shells, NEW l, NEW site, NEW from, Put(s, l, site, from),
         UNCHANGED <<list, rd, wr>>, l \notin {"lock_r", "lock_w"}, Control(s)',
         at[s].pc \notin {"lock_r", "unlock"},
         site = "recreate" => at[s].site = "recreate",
         path = NoFile, NEW f \in Files, path' = f,
         lock' = [lock EXCEPT ![f] = [t \in Shells |-> "none"]],
         \A t \in Shells : rd[t] # f /\ wr[t] # f
  PROVE  Orderly'
<1>1. at'[s].pc = l /\ at'[s].site = site /\ \A t \in Shells \ {s} : at'[t] = at[t]
  BY DEF Put
<1>2. f # NoFile
  BY NoFileAssumption
<1>3. \A t \in Shells : Control(t)' /\ Removed(t)'
  BY <1>1, <1>2 DEF Orderly, Control, Removed
<1>4. \A t \in Shells, g \in Files : Asks(t, g)' => Asks(t, g)
  BY <1>1 DEF Asks
<1>5. \A g \in Files, t \in Shells : lock'[g][t] = IF g = f THEN "none" ELSE lock[g][t]
  BY DEF Types
<1>6. ASSUME NEW g \in Files, NEW t \in Shells PROVE Locked(g, t)'
  <2>1. CASE g = f
    BY <1>5, <2>1 DEF Locked
  <2>2. CASE g # f
    <3>1. Locked(g, t) /\ g # path /\ g # path'
      BY <2>2, NoFileAssumption DEF Orderly
    <3>2. LeftLocked(t, g) => LeftLocked(t, g)'
      BY <1>4, <3>1 DEF LeftLocked
    <3>3. \A u \in Shells : lock'[g][u] = lock[g][u]
      BY <1>5, <2>2
    <3> QED
      BY <1>1, <3>1, <3>2, <3>3 DEF Locked
  <2> QED
    BY <2>1, <2>2
<1>7. ASSUME NEW t \in Shells, NEW u \in Shells, t # u PROVE Apart(t, u)'
  <2>1. Apart(t, u)
    BY <1>7 DEF Orderly
  <2>2. \A g \in Files : ~(Asks(t, g)' /\ Asks(u, g)')
    BY <1>4, <2>1, NoFileAssumption DEF Apart
  <2> QED
    BY <1>1, <2>1, <2>2 DEF Apart
<1> QED
  BY <1>3, <1>6, <1>7 DEF Orderly

LEMMA FindOrderly ==
  ASSUME Types, Opens, Orderly, NEW s \in Shells, get_config_file(s)
  PROVE  Orderly'
<1> USE DEF memory, disk, past
<1>1. Control(s)
  BY DEF Orderly
<1>2. CASE access(s)
  <2>1. PICK l \in {"create", "stat"} : Put(s, l, at[s].site, at[s].from)
    BY <1>2, Going DEF access, Pcs
  <2>2. at[s].pc = "access" /\ UNCHANGED <<list, rd, wr, path, lock>>
    BY <1>2 DEF access
  <2>3. Control(s)' /\ Apartness(s) /\ (Nearing(s, path) => Nearing(s, path)')
    BY <1>1, <2>1, <2>2 DEF Control, Apartness, Nearing, Put
  <2> QED
    BY <2>1, <2>2, <2>3, QuietOrderly
<1>3. CASE stat(s) \/ create(s)
  <2>1. CASE stat(s) /\ path = NoFile
    BY <2>1, EndOrderly DEF stat
  <2>2. CASE ~(stat(s) /\ path = NoFile)
    <3>1. PICK l \in {"open_r", "remove", "open_w"} :
            /\ Put(s, l, at[s].site, at[s].from)
            /\ l = "open_r" <=> at[s].site = "load"
            /\ l = "remove" <=> at[s].site = "save"
            /\ l = "open_w" <=> at[s].site = "recreate"
      BY <1>3, <2>2, Going DEF stat, create
    <3>2. at[s].pc \in {"stat", "create"} /\ UNCHANGED <<list, rd, wr>>
      BY <1>3, <2>2 DEF stat, create
    <3>3. Control(s)' /\ Apartness(s)
      BY <1>1, <3>1, <3>2 DEF Control, Apartness, Put
    <3>4. CASE UNCHANGED <<path, lock>>
      <4>1. Nearing(s, path) => Nearing(s, path)'
        BY <3>1, <3>2, <3>4 DEF Nearing, Put
      <4> QED
        BY <3>1, <3>2, <3>3, <3>4, <4>1, QuietOrderly
    <3>5. CASE create(s) /\ path = NoFile
      <4> DEFINE f == Min(Unused)
      <4>1. f \in Files /\ f # NoFile /\ f \in Unused
        BY <3>5, SomeUnused
      <4>2. path' = f /\ lock' = [lock EXCEPT ![f] = [t \in Shells |-> "none"]]
        BY <3>5 DEF create
      <4>3. \A t \in Shells : rd[t] # f /\ wr[t] # f
        BY <4>1 DEF Unused
      <4> HIDE DEF f
      <4> QED
        BY <3>1, <3>2, <3>3, <3>5, <4>1, <4>2, <4>3, NameOrderly
    <3> QED
      BY <1>3, <2>2, <3>4, <3>5 DEF stat, create
  <2> QED
    BY <2>1, <2>2
<1> QED
  BY <1>2, <1>3 DEF get_config_file

\* The file that has the name is opened.
LEMMA OpenOrderly ==
  ASSUME Types, Orderly, NEW s \in Shells, NEW l, NEW site, NEW from, Put(s, l, site, from),
         UNCHANGED <<path, lock>>, Apartness(s), Control(s)', path # NoFile,
         \/ /\ at[s].pc = "open_r" /\ l = "lock_r" /\ site = "load"
            /\ rd'[s] = path /\ wr'[s] = wr[s]
         \/ /\ at[s].pc = "open_w" /\ l = "lock_w" /\ site = "recreate"
            /\ wr'[s] = path /\ rd'[s] = rd[s]
  PROVE  Orderly'
<1>1. at'[s].pc = l /\ at'[s].site = site /\ \A t \in Shells \ {s} : at'[t] = at[t]
  BY DEF Put
<1>2. Control(s) /\ Removed(s) /\ path \in Files
  BY DEF Orderly, Types
<1>3. \A t \in Shells : Control(t)' /\ Removed(t)'
  BY <1>1, <1>2 DEF Orderly, Control, Removed, Apartness
<1>4. \A t \in Shells, f \in Files :
        Asks(t, f)' <=> IF t = s THEN f = path ELSE Asks(t, f)
  BY <1>1 DEF Asks, Apartness
<1>5. ASSUME NEW f \in Files, NEW t \in Shells PROVE Locked(f, t)'
  <2>1. Locked(f, t)
    BY DEF Orderly
  <2>2. f # NoFile
    BY NoFileAssumption
  <2>3. CASE t = s
    <3>1. LeftLocked(s, f) => LeftLocked(s, f)'
      BY <1>1, <1>2, <1>4 DEF LeftLocked, Nearing, Control
    <3> QED
      BY <1>1, <1>2, <2>1, <2>2, <2>3, <3>1 DEF Locked, Control
  <2>4. CASE t # s
    <3>1. LeftLocked(t, f) => LeftLocked(t, f)'
      BY <1>1, <1>4, <2>4 DEF LeftLocked, Nearing, Apartness
    <3> QED
      BY <1>1, <2>1, <2>4, <3>1 DEF Locked, Apartness
  <2> QED
    BY <2>3, <2>4
<1>6. ASSUME NEW t \in Shells, NEW u \in Shells, t # u PROVE Apart(t, u)'
  <2>1. Apart(t, u) /\ Removed(t) /\ Removed(u)
    BY <1>6 DEF Orderly
  <2>2. \A f \in Files : Asks(t, f)' /\ Asks(u, f)' => f = path'
    BY <1>4, <1>6, <2>1 DEF Apart
  <2> QED
    BY <1>1, <1>6, <2>1, <2>2 DEF Apart, Removed, Apartness
<1> QED
  BY <1>3, <1>5, <1>6 DEF Orderly

\* A step that locks or unlocks what it has open.
LEMMA LockOrderly ==
  ASSUME Types, Orderly, NEW s \in Shells, NEW l, NEW site, NEW from, Put(s, l, site, from),
         UNCHANGED path, Apartness(s), Control(s)',
         rd'[s] \in {rd[s], NoFile}, wr'[s] \in {wr[s], NoFile},
         site = "recreate" => at[s].site = "recreate", l \notin {"lock_r", "lock_w"},
         NEW f \in Files, NEW k \in {"none", "read", "write"}, SetLock(f, s, k),
         \A g \in Files : g # f /\ lock[g][s] = "read" => rd'[s] = g,
         \A g \in Files : g # f /\ lock[g][s] = "write" => LeftLocked(s, g)',
         k = "read" => rd'[s] = f /\ \A t \in Shells \ {s} : lock[f][t] # "write",
         k = "write" => /\ (l = "unlock" /\ wr'[s] = f) \/ LeftLocked(s, f)'
                        /\ \A t \in Shells \ {s} : lock[f][t] = "none"
  PROVE  Orderly'
<1>1. at'[s].pc = l /\ at'[s].site = site /\ \A t \in Shells \ {s} : at'[t] = at[t]
  BY DEF Put
<1>2. \A t \in Shells : Control(t)' /\ Removed(t)'
  BY <1>1 DEF Orderly, Control, Removed, Apartness
<1>3. \A t \in Shells, g \in Files : Asks(t, g)' => Asks(t, g) /\ t # s
  BY <1>1 DEF Asks, Apartness
<1>4. \A g \in Files, t \in Shells :
        lock'[g][t] = IF g = f /\ t = s THEN k ELSE lock[g][t]
  BY DEF Types, SetLock
<1>5. ASSUME NEW g \in Files, NEW t \in Shells PROVE Locked(g, t)'
  <2>1. Locked(g, t)
    BY DEF Orderly
  <2>2. CASE t = s
    <3>1. CASE g = f
      <4>1. lock'[g][s] = k /\ \A u \in Shells \ {s} : lock'[g][u] = lock[g][u]
        BY <1>4, <3>1
      <4> QED
        BY <1>1, <2>2, <3>1, <4>1 DEF Locked
    <3>2. CASE g # f
      <4>1. \A u \in Shells : lock'[g][u] = lock[g][u]
        BY <1>4, <3>2
      <4> QED
        BY <1>1, <2>1, <2>2, <3>2, <4>1 DEF Locked
    <3> QED
      BY <3>1, <3>2
  <2>3. CASE t # s
    <3>1. lock'[g][t] = lock[g][t] /\ at'[t] = at[t] /\ rd'[t] = rd[t] /\ wr'[t] = wr[t]
      BY <1>1, <1>4, <2>3 DEF Apartness
    <3>2. LeftLocked(t, g) => LeftLocked(t, g)'
      BY <1>3, <3>1 DEF LeftLocked, Nearing
    <3>3. lock[g][t] = "write" => \A u \in Shells \ {t} : lock'[g][u] = "none"
      <4> SUFFICES ASSUME lock[g][t] = "write", NEW u \in Shells \ {t}
                   PROVE  lock'[g][u] = "none"
        OBVIOUS
      <4>1. lock[g][u] = "none"
        BY <2>1 DEF Locked
      <4>2. CASE u = s /\ g = f
        BY <1>4, <2>3, <4>2
      <4> QED
        BY <1>4, <4>1, <4>2
    <3> QED
      BY <2>1, <3>1, <3>2, <3>3 DEF Locked
  <2> QED
    BY <2>2, <2>3
<1>6. ASSUME NEW t \in Shells, NEW u \in Shells, t # u PROVE Apart(t, u)'
  <2>1. Apart(t, u)
    BY <1>6 DEF Orderly
  <2>2. \A g \in Files : Asks(t, g)' /\ Asks(u, g)' => g = path'
    BY <1>3, <2>1 DEF Apart
  <2>3. \A v \in Shells : /\ wr'[v] # NoFile => wr'[v] = wr[v]
                          /\ rd'[v] # NoFile => rd'[v] = rd[v]
                          /\ at'[v].site = "recreate" => at[v].site = "recreate"
    BY <1>1 DEF Apartness
  <2> QED
    BY <2>1, <2>2, <2>3 DEF Apart
<1> QED
  BY <1>2, <1>5, <1>6 DEF Orderly

LEMMA AddSome ==
  ASSUME NEW l \in Lists, NEW elm \in Elements
  PROVE  add_conf_elm(l, elm) # <<>>
<1> DEFINE found == {i \in 1..Len(l) : l[i].name = elm.name}
           i == IF found # {} THEN Min(found) ELSE 0
<1>1. add_conf_elm(l, elm) = IF i = 0 THEN Append(l, elm) ELSE [l EXCEPT ![i] = elm]
  BY DEF add_conf_elm, SelectInSeq, ReplaceAt
<1>2. l \in Seq(Elements) /\ DOMAIN l = 1..Len(l)
  BY DEF Lists
<1>3. CASE i = 0
  <2> HIDE DEF i
  <2>1. Len(Append(l, elm)) = Len(l) + 1 /\ Len(l) \in Nat /\ Len(<<>>) = 0
    BY <1>2
  <2> QED
    BY <1>1, <1>3, <2>1
<1>4. CASE i # 0
  <2>1. DOMAIN l # {}
    BY <1>2, <1>4
  <2> HIDE DEF i
  <2>2. DOMAIN [l EXCEPT ![i] = elm] = DOMAIN l /\ DOMAIN <<>> = {}
    OBVIOUS
  <2> QED
    BY <1>1, <1>4, <2>1, <2>2
<1> QED
  BY <1>3, <1>4

LEMMA LoadOrderly ==
  ASSUME Types, Opens, Orderly, NEW s \in Shells, load_config(s)
  PROVE  Orderly'
<1> USE DEF memory, disk, past
<1>1. Control(s) /\ \A f \in Files : Locked(f, s)
  BY DEF Orderly
<1>2. CASE open_r(s)
  <2>1. CASE path = NoFile
    BY <1>2, <2>1, EndOrderly DEF open_r
  <2>2. CASE path # NoFile
    <3>1. Put(s, "lock_r", at[s].site, at[s].from)
      BY <1>2, <2>2, Going DEF open_r, Pcs
    <3>2. /\ at[s].pc = "open_r" /\ rd' = [rd EXCEPT ![s] = path]
          /\ UNCHANGED <<list, wr, path, lock>>
      BY <1>2, <2>2 DEF open_r
    <3>3. rd'[s] = path /\ Apartness(s) /\ at[s].site = "load"
      BY <1>1, <3>2 DEF Types, Apartness, Control
    <3>4. Control(s)'
      BY <1>1, <2>2, <3>1, <3>2, <3>3 DEF Control, Put
    <3> QED
      BY <2>2, <3>1, <3>2, <3>3, <3>4, OpenOrderly
  <2> QED
    BY <2>1, <2>2
<1>3. CASE lock_r(s)
  <2>1. Put(s, "read", at[s].site, at[s].from) /\ rd[s] \in Files
    BY <1>3, Going DEF lock_r, Pcs, Opens
  <2>2. /\ at[s].pc = "lock_r" /\ \A t \in Shells \ {s} : lock[rd[s]][t] # "write"
        /\ SetLock(rd[s], s, "read") /\ UNCHANGED <<list, rd, wr, path>>
    BY <1>3 DEF lock_r
  <2>3. Control(s)' /\ Apartness(s)
    BY <1>1, <2>1, <2>2 DEF Control, Apartness, Put
  <2>4. \A g \in Files : g # rd[s] /\ lock[g][s] = "write" => LeftLocked(s, g)'
    BY <1>1, <2>1, <2>2 DEF Locked, LeftLocked, Nearing, Asks, Put
  <2>5. \A g \in Files : g # rd[s] => lock[g][s] # "read"
    BY <1>1, <2>2 DEF Locked
  <2> QED
    BY <1>1, <2>1, <2>2, <2>3, <2>4, <2>5, LockOrderly DEF Control
<1>4. CASE read(s)
  <2>1. Put(s, "add", at[s].site, at[s].from) /\ at[s].pc = "read"
        /\ UNCHANGED <<list, rd, wr, path, lock>>
    BY <1>4, Going DEF read, Pcs
  <2>2. Control(s)' /\ Apartness(s) /\ ~Nearing(s, path)
    BY <1>1, <2>1 DEF Control, Apartness, Nearing, Put
  <2> QED
    BY <1>1, <2>1, <2>2, QuietOrderly
<1>5. CASE add(s)
  <2>1. CASE ~Readable(Head(todo[s]))
    BY <1>5, <2>1, EndOrderly DEF add
  <2>2. CASE Readable(Head(todo[s]))
    <3>1. Put(s, "access", "save", at[s].from) /\ at[s].pc = "add"
          /\ UNCHANGED <<rd, wr, path, lock>>
      BY <1>5, <2>2, Going DEF add, Call, Pcs
    <3>2. /\ todo[s] # <<>>
          /\ list' = [list EXCEPT ![s] = add_conf_elm(@, Parsed(Head(todo[s])))]
      BY <1>5, <2>2 DEF add
    <3>3. Parsed(Head(todo[s])) \in Elements
      BY <2>2, <3>2, HeadTailProperties, ParsedFits DEF Types
    <3>4. list'[s] # <<>> /\ Apartness(s)
      BY <3>1, <3>2, <3>3, AddSome DEF Types, Apartness
    <3>5. Control(s)' /\ ~Nearing(s, path)
      BY <1>1, <3>1, <3>4 DEF Control, Nearing, Put
    <3> QED
      BY <1>1, <3>1, <3>4, <3>5, QuietOrderly
  <2> QED
    BY <2>1, <2>2
<1>6. CASE close_r(s)
  <2>1. /\ at[s].pc = "add" /\ SetLock(rd[s], s, "none")
        /\ rd' = [rd EXCEPT ![s] = NoFile] /\ UNCHANGED <<list, wr, path>>
    BY <1>6 DEF close_r
  <2>2. /\ at[s].site = "load" /\ at[s].from # "command"
        /\ rd[s] \in Files /\ rd'[s] = NoFile /\ Apartness(s)
    BY <1>1, <2>1 DEF Control, Types, Apartness
  <2>3. PICK l \in {"access", "prompt"}, from \in {"boot", "loop"} : Put(s, l, "load", from)
    BY <1>6, <2>2, Going DEF close_r, Call, Pcs
  <2>4. Control(s)'
    BY <1>1, <2>1, <2>2, <2>3 DEF Control, Put
  <2>5. \A g \in Files : g # rd[s] => lock[g][s] # "read"
    BY <1>1 DEF Locked
  <2>6. \A g \in Files : g # rd[s] /\ lock[g][s] = "write" => LeftLocked(s, g)'
    BY <1>1, <2>1, <2>3 DEF Locked, LeftLocked, Nearing, Asks, Put, Apartness
  <2> QED
    BY <2>1, <2>2, <2>3, <2>4, <2>5, <2>6, LockOrderly
<1> QED
  BY <1>2, <1>3, <1>4, <1>5, <1>6 DEF load_config

\* Two shells at most.
Pair == \A s, t, u \in Shells : s = t \/ t = u \/ s = u

\* The name is removed.
LEMMA RemoveOrderly ==
  ASSUME Pair, Types, Orderly, NEW s \in Shells, remove(s), path # NoFile
  PROVE  Orderly'
<1>1. Put(s, "access", "recreate", at[s].from)
  BY Going DEF remove, Call, Pcs
<1>2. /\ at'[s].pc = "access" /\ at'[s].site = "recreate" /\ at'[s].from = at[s].from
      /\ \A t \in Shells \ {s} : at'[t] = at[t]
  BY <1>1 DEF Put
<1>3. at[s].pc = "remove" /\ path' = NoFile /\ UNCHANGED <<list, rd, wr, lock>>
  BY DEF remove, memory
<1>4. Control(s)
  BY DEF Orderly
<1>5. at[s].site = "save" /\ wr[s] = NoFile
  BY <1>3, <1>4 DEF Control
<1>6. \A t \in Shells : Control(t)' /\ Removed(t)'
  BY <1>2, <1>3, <1>5 DEF Orderly, Control, Removed
<1>7. \A t \in Shells, f \in Files : Asks(t, f)' <=> Asks(t, f) /\ t # s
  BY <1>2, <1>3 DEF Asks
<1>8. ASSUME NEW f \in Files, NEW t \in Shells PROVE Locked(f, t)'
  <2>1. Locked(f, t) /\ f # path'
    BY <1>3, NoFileAssumption DEF Orderly
  <2>2. CASE t = s
    <3>1. LeftLocked(s, f) => LeftLocked(s, f)'
      BY <1>3, <1>5, <1>7, <2>1 DEF LeftLocked, Nearing
    <3> QED
      BY <1>2, <1>3, <2>1, <2>2, <3>1 DEF Locked
  <2>3. CASE t # s
    <3>1. \A u \in Shells \ {t} : u = s
      BY <2>3 DEF Pair
    <3>2. LeftLocked(t, f)'
      BY <1>7, <2>1, <3>1 DEF LeftLocked
    <3> QED
      BY <1>2, <1>3, <2>1, <2>3, <3>2 DEF Locked
  <2> QED
    BY <2>2, <2>3
<1>9. ASSUME NEW t \in Shells, NEW u \in Shells, t # u PROVE Apart(t, u)'
  <2>1. Apart(t, u) /\ (t = s \/ u = s)
    BY <1>9 DEF Orderly, Pair
  <2> QED
    BY <1>3, <1>5, <1>7, <2>1 DEF Apart
<1> QED
  BY <1>6, <1>8, <1>9 DEF Orderly

\* save_config comes back, and leaves a lock only on a way to give it back.
LEMMA SavedControl ==
  ASSUME Types, Orderly, NEW s \in Shells, Saved(s), UNCHANGED <<list, rd, path>>,
         at[s].site = "recreate"
  PROVE  /\ \E l \in {"access", "add"}, from \in {"boot", "loop"} :
              Put(s, l, "load", from) /\ (l = "access" <=> at[s].from = "command")
         /\ Control(s)' /\ Apartness(s) /\ wr'[s] = NoFile
<1>1. Control(s)
  BY DEF Orderly
<1>2. wr' = [wr EXCEPT ![s] = NoFile]
  BY DEF Saved
<1>3. Apartness(s) /\ wr'[s] = NoFile
  BY <1>2 DEF Types, Apartness
<1>4. CASE at[s].from = "command"
  <2>1. Put(s, "access", "load", "loop")
    BY <1>4, Going DEF Saved, Call, Pcs
  <2>2. Control(s)'
    BY <1>1, <1>3, <1>4, <2>1 DEF Control, Put
  <2> QED
    BY <1>3, <1>4, <2>1, <2>2
<1>5. CASE at[s].from # "command"
  <2>1. Put(s, "add", "load", at[s].from) /\ at[s].from \in {"boot", "loop"}
    BY <1>5, Going DEF Saved, Pcs
  <2>2. Control(s)'
    BY <1>1, <1>3, <1>5, <2>1 DEF Control, Put
  <2> QED
    BY <1>3, <1>5, <2>1, <2>2
<1> QED
  BY <1>4, <1>5

LEMMA SaveOrderly ==
  ASSUME Pair, Types, Opens, Orderly, NEW s \in Shells, save_config(s)
  PROVE  Orderly'
<1> USE DEF memory, disk, past
<1>1. Control(s) /\ \A f \in Files : Locked(f, s)
  BY DEF Orderly
<1>2. CASE remove(s)
  BY <1>2, EndOrderly, RemoveOrderly DEF remove
<1>3. CASE open_w(s)
  <2>1. CASE path = NoFile
    BY <1>3, <2>1, EndOrderly DEF open_w
  <2>2. CASE path # NoFile
    <3>1. Put(s, "lock_w", at[s].site, at[s].from)
      BY <1>3, <2>2, Going DEF open_w, Pcs
    <3>2. /\ at[s].pc = "open_w" /\ wr' = [wr EXCEPT ![s] = path]
          /\ UNCHANGED <<list, rd, path, lock>>
      BY <1>3, <2>2 DEF open_w
    <3>3. wr'[s] = path /\ Apartness(s) /\ at[s].site = "recreate"
      BY <1>1, <3>2 DEF Types, Apartness, Control
    <3>4. Control(s)'
      BY <1>1, <2>2, <3>1, <3>2, <3>3 DEF Control, Put
    <3> QED
      BY <2>2, <3>1, <3>2, <3>3, <3>4, OpenOrderly
  <2> QED
    BY <2>1, <2>2
<1>4. CASE lock_w(s)
  <2>0. PICK f \in Files : f = wr[s]
    BY <1>4 DEF lock_w, Opens
  <2>1. /\ at[s].pc = "lock_w" /\ SetLock(f, s, "write")
        /\ \A t \in Shells \ {s} : lock[f][t] = "none"
        /\ at[s].site = "recreate"
    BY <1>1, <1>4, <2>0 DEF lock_w, Control
  <2>2. \A g \in Files : lock[g][s] = "read" => rd[s] = g
    BY <1>1 DEF Locked
  <2>3. ASSUME NEW g \in Files, lock[g][s] = "write"
        PROVE  g # path /\ \A t \in Shells \ {s} : ~Asks(t, g)
    BY <1>1, <2>1, <2>3 DEF Locked, LeftLocked, Nearing
  <2>4. CASE list[s] = <<>>
    <3>1. Saved(s) /\ UNCHANGED <<list, rd, path>> /\ at[s].from = "command"
      BY <1>1, <1>4, <2>1, <2>4 DEF lock_w, Control
    <3>2. PICK from \in {"boot", "loop"} : Put(s, "access", "load", from)
      BY <2>1, <3>1, SavedControl
    <3>3. Control(s)' /\ Apartness(s) /\ wr'[s] = NoFile
      BY <2>1, <3>1, SavedControl
    <3>4. at'[s].pc = "access" /\ at'[s].site = "load"
          /\ \A t \in Shells \ {s} : at'[t] = at[t] /\ rd'[t] = rd[t] /\ wr'[t] = wr[t]
      BY <3>2, <3>3 DEF Put, Apartness
    <3>5. \A t \in Shells \ {s}, g \in Files : Asks(t, g)' <=> Asks(t, g)
      BY <3>4 DEF Asks
    <3>6. f # path => \A t \in Shells \ {s} : ~Asks(t, f)
      <4> SUFFICES ASSUME f # path, NEW t \in Shells \ {s}, Asks(t, f) PROVE FALSE
        OBVIOUS
      <4>1. Apart(s, t) /\ Asks(s, f)
        BY <2>0, <2>1 DEF Orderly, Asks
      <4> QED
        BY <4>1 DEF Apart
    <3>7. LeftLocked(s, f)'
      <4>1. Nearing(s, f)'
        BY <3>4 DEF Nearing
      <4> QED
        BY <3>1, <3>5, <3>6, <4>1 DEF LeftLocked
    <3>8. \A g \in Files : g # f /\ lock[g][s] = "write" => LeftLocked(s, g)'
      BY <2>3, <3>1, <3>5 DEF LeftLocked
    <3> QED
      BY <2>1, <2>2, <3>1, <3>2, <3>3, <3>7, <3>8, LockOrderly
  <2>5. CASE list[s] # <<>>
    <3>1. Put(s, "unlock", at[s].site, at[s].from) /\ UNCHANGED <<list, rd, wr, path>>
      BY <1>4, <2>5, Going DEF lock_w, Pcs
    <3>2. Control(s)' /\ Apartness(s)
      BY <1>1, <2>1, <3>1 DEF Control, Apartness, Put
    <3>3. \A g \in Files : g # f /\ lock[g][s] = "write" => LeftLocked(s, g)'
      BY <2>3, <3>1 DEF LeftLocked, Asks, Put
    <3> QED
      BY <2>0, <2>1, <2>2, <3>1, <3>2, <3>3, LockOrderly
  <2> QED
    BY <2>4, <2>5
<1>5. CASE unlock(s)
  <2>1. Put(s, "fclose", at[s].site, at[s].from) /\ at[s].pc = "unlock" /\ wr[s] \in Files
        /\ SetLock(wr[s], s, "none") /\ UNCHANGED <<list, rd, wr, path>>
    BY <1>5, Going DEF unlock, Pcs, Opens
  <2>2. Control(s)' /\ Apartness(s)
    BY <1>1, <2>1 DEF Control, Apartness, Put
  <2>3. \A g \in Files : lock[g][s] = "read" => rd[s] = g
    BY <1>1 DEF Locked
  <2>4. \A g \in Files : g # wr[s] /\ lock[g][s] = "write" => LeftLocked(s, g)'
    BY <1>1, <2>1 DEF Locked, LeftLocked, Nearing, Asks, Put
  <2> QED
    BY <1>1, <2>1, <2>2, <2>3, <2>4, LockOrderly
<1>6. CASE fclose(s)
  <2>1. Saved(s) /\ UNCHANGED <<list, rd, path, lock>> /\ at[s].pc = "fclose"
    BY <1>6 DEF fclose
  <2>2. at[s].site = "recreate" /\ ~Nearing(s, path)
    BY <1>1, <2>1 DEF Control, Nearing
  <2>3. PICK l \in {"access", "add"}, from \in {"boot", "loop"} : Put(s, l, "load", from)
    BY <2>1, <2>2, SavedControl
  <2>4. Control(s)' /\ Apartness(s) /\ wr'[s] = NoFile
    BY <2>1, <2>2, SavedControl
  <2> QED
    BY <2>1, <2>2, <2>3, <2>4, QuietOrderly
<1> QED
  BY <1>2, <1>3, <1>4, <1>5, <1>6 DEF save_config

LEMMA CommandOrderly ==
  ASSUME Types, Orderly, NEW s \in Shells,
         \/ other(s) \/ leave(s) \/ start(s) \/ kill(s)
         \/ \E c \in Commands : shortdir(s, c)
  PROVE  Orderly'
<1> USE DEF memory, disk, past
<1>1. Control(s)
  BY DEF Orderly
<1>2. ASSUME NEW site \in {"load", "save"}, NEW from \in {"boot", "loop", "command"},
             Put(s, "access", site, from), site = "save" <=> from = "command",
             UNCHANGED <<rd, wr, path, lock>>, Apartness(s),
             at[s].pc \in {"prompt", "off", "failed", "crashed"}
      PROVE  Orderly'
  <2>1. Control(s)' /\ ~Nearing(s, path)
    BY <1>1, <1>2 DEF Control, Nearing, Put
  <2> QED
    BY <1>2, <2>1, QuietOrderly
<1>3. CASE leave(s) \/ kill(s)
  BY <1>3, EndOrderly DEF leave, kill
<1>4. CASE other(s)
  <2>1. /\ Put(s, "access", "load", "loop") /\ at[s].pc = "prompt"
        /\ UNCHANGED <<list, rd, wr, path, lock>>
    BY <1>4, Going DEF other, Call, Pcs
  <2> QED
    BY <1>2, <2>1 DEF Apartness
<1>5. CASE start(s)
  <2>1. /\ Put(s, "access", "load", "boot") /\ at[s].pc \in {"off", "failed", "crashed"}
        /\ UNCHANGED <<list, rd, wr, path, lock>>
    BY <1>5, Going DEF start, Live, Call, Pcs
  <2> QED
    BY <1>2, <2>1 DEF Apartness
<1>6. ASSUME NEW c \in Commands, shortdir(s, c) PROVE Orderly'
  <2>1. at[s].pc = "prompt" /\ UNCHANGED <<rd, wr, path, lock>>
    BY <1>6 DEF shortdir
  <2>2. Apartness(s)
    BY <1>6 DEF shortdir, Types, Apartness
  <2>3. Put(s, "access", "load", "loop") \/ Put(s, "access", "save", "command")
    BY <1>6, Going DEF shortdir, Call, Pcs
  <2> QED
    BY <1>2, <2>1, <2>2, <2>3
<1> QED
  BY <1>3, <1>4, <1>5, <1>6

\* Orderly is what makes a lock something that is given back.
LEMMA OrderlyWaits ==
  ASSUME Pair, Types, Opens, Orderly
  PROVE  WaitsForOneThatRuns
<1> SUFFICES ASSUME NEW s \in Shells, NEW t \in Shells, WaitsFor(s, t)
             PROVE  at[t].pc # "prompt" /\ \A u \in Shells : ~WaitsFor(t, u)
  BY DEF WaitsForOneThatRuns
<1>1. s # t /\ \A u \in Shells : u = s \/ u = t
  BY DEF Pair, WaitsFor
<1>2. PICK f \in Files : Asks(s, f) /\ (at[s].pc = "lock_r" => lock[f][t] = "write")
                         /\ lock[f][t] # "none"
  BY DEF WaitsFor, Asks, Opens
<1>3. Control(s) /\ Control(t) /\ Locked(f, t)
  BY DEF Orderly
<1>4. lock[f][t] \in {"read", "write"}
  BY <1>2 DEF Types
<1>5. CASE lock[f][t] = "write"
  <2>1. (at[t].pc = "unlock" /\ wr[t] = f) \/ Nearing(t, f)
    BY <1>1, <1>2, <1>3, <1>5 DEF Locked, LeftLocked
  <2>2. lock[f][s] = "none"
    BY <1>1, <1>3, <1>5 DEF Locked
  <2>3. ASSUME WaitsFor(t, s) PROVE FALSE
    BY <2>1, <2>2, <2>3 DEF WaitsFor, Nearing
  <2> QED
    BY <1>1, <2>1, <2>3 DEF Nearing, WaitsFor
<1>6. CASE lock[f][t] = "read"
  <2>1. rd[t] = f /\ at[t].pc # "lock_r" /\ at[s].pc = "lock_w" /\ wr[s] = f
    BY <1>2, <1>3, <1>6 DEF Locked, Asks
  <2>2. at[t].pc # "prompt"
    BY <1>3, <2>1, NoFileAssumption DEF Control
  <2>3. ASSUME WaitsFor(t, s) PROVE FALSE
    <3>1. PICK g \in Files : at[t].pc = "lock_w" /\ wr[t] = g /\ lock[g][s] # "none"
      BY <2>1, <2>3 DEF WaitsFor, Opens
    <3>2. Locked(g, s) /\ Apart(s, t) /\ lock[g][s] \in {"read", "write"}
      BY <1>1, <3>1 DEF Orderly, Types
    <3>3. CASE lock[g][s] = "read"
      <4>1. rd[s] = g
        BY <3>2, <3>3 DEF Locked
      <4> QED
        BY <1>3, <2>1, <3>1, <3>2, <4>1, NoFileAssumption DEF Control, Apart
    <3>4. CASE lock[g][s] = "write"
      BY <1>1, <2>1, <3>1, <3>2, <3>4 DEF Locked, LeftLocked, Nearing, Asks
    <3> QED
      BY <3>2, <3>3, <3>4
  <2> QED
    BY <1>1, <2>2, <2>3 DEF WaitsFor
<1> QED
  BY <1>4, <1>5, <1>6

LEMMA StepOrderly ==
  ASSUME Pair, Types, Opens, Orderly, [Next]_vars
  PROVE  Orderly'
<1>1. CASE Next
  BY <1>1, FindOrderly, LoadOrderly, SaveOrderly, CommandOrderly DEF Next, Run
<1>2. CASE UNCHANGED vars
  BY <1>2 DEF vars, Orderly, Control, Removed, Locked, LeftLocked, Nearing, Asks, Apart
<1> QED
  BY <1>1, <1>2

\* Of two shells at most one waits for the other's lock, and not for ever: who
\* has it goes on to give it back (load_config, save_config, config.h:115-217).
THEOREM WaitingTheorem ==
  ASSUME Cardinality(Shells) <= 2
  PROVE  Spec => []WaitsForOneThatRuns
<1>1. Pair
  <2> SUFFICES ASSUME NEW s \in Shells, NEW t \in Shells, NEW u \in Shells,
                      s # t, t # u, s # u
               PROVE  FALSE
    BY DEF Pair
  <2>1. Cardinality({s}) = 1 /\ IsFiniteSet({s})
    BY FS_Singleton
  <2>2. Cardinality({s} \cup {t}) = 2 /\ IsFiniteSet({s} \cup {t})
    BY <2>1, FS_AddElement
  <2>3. Cardinality({s} \cup {t} \cup {u}) = 3 /\ {s} \cup {t} \cup {u} \subseteq Shells
    BY <2>2, FS_AddElement
  <2> QED
    BY <2>3, ShellsAssumption, FS_Subset, FS_CardinalityType
<1>2. Orderly /\ Types /\ Opens /\ [Next]_vars => Orderly'
  BY <1>1, StepOrderly
<1>3. Orderly /\ Types /\ Opens => WaitsForOneThatRuns
  BY <1>1, OrderlyWaits
<1> QED
  BY <1>2, <1>3, InitOrderly, TypesAlways, PTL DEF Spec
=============================================================================
