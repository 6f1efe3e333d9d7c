---------------------------- MODULE TextFeatures ----------------------------
(***************************************************************************)
(* What is computed from the text of a document alone: folding ranges,     *)
(* nullability warnings, the outline and its groups in the sidebar, and    *)
(* semantic tokens.  The editor adds a line at a time, and every feature   *)
(* is computed anew from the whole text (on_folding_range,                 *)
(* publish_diagnostics, index_content, on_semantic_tokens in server.rs,    *)
(* buildOutline in treeviews.ts), so a state is a text and the features    *)
(* are functions of it.                                                    *)
(***************************************************************************)
EXTENDS Folding, Outline, Sidebar, SemanticTokens

CONSTANTS
  Alphabets,  \* sets of lines; a text is written with one of them
  MaxLines    \* bound: lines of a text

ASSUME TextAssumption == Alphabets \subseteq SUBSET Line /\ MaxLines \in Nat

VARIABLES alphabet, lines

vars == <<alphabet, lines>>

Init == alphabet \in Alphabets /\ lines = << >>

AddLine ==
  /\ Len(lines) < MaxLines
  /\ \E line \in alphabet : lines' = Append(lines, line)
  /\ UNCHANGED alphabet

Next == AddLine

Spec == Init /\ [][Next]_vars

-----------------------------------------------------------------------------

\* Folding ranges are the regions they are meant to be (folding.rs).
FoldsAreRegions == FoldsRegions(lines)

\* The nullability checker and the folding of nonnull regions agree (nullability.rs:3-7,
\* folding.rs:199-200) up to the first line that only one of them takes for a macro.
WarningsMatchFolds == WarnsOutsideFolds(lines)

\* No declaration inside a folded nonnull region has a warning (nullability.rs:3-7).
\* Not kept: TextMentionedMacro.cfg has the counterexample.
RegionIsSilent == NoWarningInsideFold(lines)

\* No member is lost or shown twice when categories are aggregated (symbols.rs).
OutlineComplete == OutlineIsComplete(lines)

\* The sections of the sidebar's outline and the sections that fold agree (treeviews.ts:122,
\* folding.rs:155-158) as far as the two take the same lines for marks, and the sidebar shows the
\* whole outline, whatever is left of the tree.
SidebarMatchesFolds == SectionsMatch(lines, PragmaFolds(lines))

\* The outline does not depend on which of the two extractors made it, forward declarations
\* of a protocol apart (symbols.rs).
ExtractorsAgreeOnText == ExtractorsAgree(lines)

\* The patterns nest a member in the block that encloses it (symbols.rs:572-573).
\* Not kept: TextForwardProtocol.cfg has the counterexample.
FallbackNests == NestsInEnclosing(lines)

\* The semantic tokens the editor decodes are those of the walk, in order (tokens.rs:150-178).
TokensArriveInOrder == TokensDecodeInOrder(lines)

=============================================================================
