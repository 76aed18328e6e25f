---------------------------- MODULE FileLibrary ----------------------------
(***************************************************************************)
(* What the file service of project1b promises: a client that asks gets    *)
(* what it has asked for, whole, before it asks again.                     *)
(***************************************************************************)
CONSTANTS Readers,           \* those who ask
          Titles,            \* what can be asked for
          ContentOf(_),      \* what belongs to a title
          NoTitle, Empty

VARIABLES asked, given

libraryVars == <<asked, given>>

LibraryInit ==
  /\ asked = [r \in Readers |-> NoTitle]
  /\ given = [r \in Readers |-> Empty]

Ask(r, title) ==
  /\ asked[r] = NoTitle
  /\ asked' = [asked EXCEPT ![r] = title]
  /\ given' = [given EXCEPT ![r] = Empty]

Give(r) ==
  /\ asked[r] # NoTitle
  /\ asked' = [asked EXCEPT ![r] = NoTitle]
  /\ given' = [given EXCEPT ![r] = ContentOf(asked[r])]

LibraryNext == \E r \in Readers : Give(r) \/ \E title \in Titles : Ask(r, title)

LibrarySpec == LibraryInit /\ [][LibraryNext]_libraryVars
=============================================================================
