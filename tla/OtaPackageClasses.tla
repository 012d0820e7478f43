------------------------- MODULE OtaPackageClasses -------------------------
(***************************************************************************)
(* The package class hierarchy of src/tools/scripts/build_utils/ota.py and *)
(* the description tags package() derives from it.                         *)
(*                                                                         *)
(*   OtaPackage.__init__ sets chip, board and project to None (lines       *)
(*   101-103); OtaChipPackage, OtaBoardPackage and OtaProjectPackage each   *)
(*   call their parent's __init__ and then set their own attribute from a   *)
(*   keyword argument whose default is "" (lines 426-468).                 *)
(*                                                                         *)
(*   Package  the tag part of package() (lines 178-187): a board still     *)
(*            None becomes "<chip>-all-boards", a project still None       *)
(*            "<board>-all-projects", both are stored back, and the call    *)
(*            asserts chip is not None after recording them.               *)
(*                                                                         *)
(* The rest of package() is OtaPackage's; here a call is its tag part.     *)
(***************************************************************************)
EXTENDS Integers, FiniteSets, TLC

CONSTANTS
  Names,     \* the strings a caller may pass as chip, board or project
  None,      \* Python's None
  MaxCalls   \* the most package() calls on one object

ASSUME "" \in Names /\ None \notin Names
ASSUME MaxCalls \in Nat \ {0}

Classes == {"OtaPackage", "OtaChipPackage", "OtaBoardPackage", "OtaProjectPackage"}

Parent == "OtaChipPackage" :> "OtaPackage" @@ "OtaBoardPackage" :> "OtaChipPackage"
            @@ "OtaProjectPackage" :> "OtaBoardPackage"

\* The attribute each subclass's __init__ sets from its keyword argument.
OwnParam == "OtaChipPackage" :> "chip" @@ "OtaBoardPackage" :> "board"
              @@ "OtaProjectPackage" :> "project"

\* The classes whose __init__ runs for an object of class c.
RECURSIVE Chain(_)
Chain(c) == IF c = "OtaPackage" THEN {c} ELSE {c} \cup Chain(Parent[c])

\* The keyword arguments the constructor of class c accepts.
Params(c) == {OwnParam[d] : d \in Chain(c) \ {"OtaPackage"}}

\* self.<p> once the constructor chain has run: None from OtaPackage,
\* overwritten by the subclass owning p with the argument or its default.
Attr(c, kw, p) ==
  IF p \in Params(c) THEN (IF p \in DOMAIN kw THEN kw[p] ELSE "") ELSE None

\* "%s-all-boards" % x and "%s-all-projects" % x, None formatted as "None".
AllBoards(x) == [allBoardsOf |-> x]
AllProjects(x) == [allProjectsOf |-> x]

VARIABLES
  cls,          \* the class constructed
  kw,           \* the keyword arguments passed: [given params -> Names]
  chip, board, project,
  description,  \* self.description: a function from its keys
  calls,        \* package() calls made
  status        \* "ready", or "AssertionError" once a call raised

vars == <<cls, kw, chip, board, project, description, calls, status>>

Init ==
  /\ cls \in Classes
  /\ kw \in UNION {[S -> Names] : S \in SUBSET Params(cls)}
  /\ chip = Attr(cls, kw, "chip")
  /\ board = Attr(cls, kw, "board")
  /\ project = Attr(cls, kw, "project")
  /\ description = <<>>
  /\ calls = 0
  /\ status = "ready"

\* Bug variant of DeriveTags: the project derived before the board.
DeriveTagsProjectFirst(ch, b0, p0) ==
  << IF b0 = None THEN AllBoards(ch) ELSE b0,
     IF p0 = None THEN AllProjects(b0) ELSE p0 >>

\* Lines 178-182: the board, then the project, each derived when None.
DeriveTags(ch, b0, p0) ==
  LET b == IF b0 = None THEN AllBoards(ch) ELSE b0
  IN << b, IF p0 = None THEN AllProjects(b) ELSE p0 >>

\* The tags are stored and recorded before the assertion on chip, so a
\* call that raises leaves them in the object and its description.
Package ==
  /\ status = "ready"
  /\ calls < MaxCalls
  /\ LET t == DeriveTags(chip, board, project)
         tags == "project" :> t[2] @@ "board" :> t[1]
     IN /\ board' = t[1]
        /\ project' = t[2]
        /\ IF chip = None
             THEN /\ description' = tags @@ description
                  /\ status' = "AssertionError"
             ELSE /\ description' = ("chip" :> chip @@ tags) @@ description
                  /\ status' = "ready"
  /\ calls' = calls + 1
  /\ UNCHANGED <<cls, kw, chip>>

Next == Package

Spec == Init /\ [][Next]_vars

-----------------------------------------------------------------------------
(* Properties                                                              *)

\* A keyword argument as passed, "" when omitted.
Given(p) == IF p \in DOMAIN kw THEN kw[p] ELSE ""

\* The tags each constructor call leads to, read off the class hierarchy:
\* a chip package names its board and project after the chip, a board
\* package its project after the board, a project package all three as
\* given.
ExpectedTags ==
  CASE cls = "OtaChipPackage" ->
         "chip" :> Given("chip") @@ "board" :> AllBoards(Given("chip"))
           @@ "project" :> AllProjects(AllBoards(Given("chip")))
    [] cls = "OtaBoardPackage" ->
         "chip" :> Given("chip") @@ "board" :> Given("board")
           @@ "project" :> AllProjects(Given("board"))
    [] cls = "OtaProjectPackage" ->
         "chip" :> Given("chip") @@ "board" :> Given("board")
           @@ "project" :> Given("project")

\* What a plain OtaPackage's raising call leaves behind: the board and
\* project derived from chip None, in the object and in its description,
\* and no chip tag.
RaisedTags ==
  "board" :> AllBoards(None) @@ "project" :> AllProjects(AllBoards(None))

\* Every package() call that returns records the tags of the constructor
\* call, the same on a second call as on the first; only a plain
\* OtaPackage, which has no chip, stops at the assertion of line 186, and
\* the call that raises has already stored its derived board and project
\* in the object and recorded them, without a chip, in the description.
TagsOfConstructor ==
  /\ status = "ready" /\ calls > 0 => description = ExpectedTags
  /\ status = "AssertionError" <=> cls = "OtaPackage" /\ calls > 0
  /\ status = "AssertionError" =>
       /\ description = RaisedTags
       /\ board = RaisedTags["board"] /\ project = RaisedTags["project"]

=============================================================================
