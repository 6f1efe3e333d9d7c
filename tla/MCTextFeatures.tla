-------------------------- MODULE MCTextFeatures --------------------------
(* Instances of TextFeatures for TLC: texts about regions, about classes, and about sections, and
   two more about what only one of two readers takes for a macro or for a block. *)
EXTENDS TextFeatures

CONSTANTS A, B

Plain(kinds) == [kind : kinds, class : {None}]

RegionLines == Plain({"import", "begin", "finish", "beginMention", "finishMention", "method"})

FoldLines == Plain({"import", "pragma", "rule", "end", "text"})
               \cup [kind : {"protocol"}, class : {A}]

ClassLines == Plain({"end", "method", "blank"})
                \cup [kind : {"interface", "extension", "forward"}, class : {A}]
                \cup [kind : {"category"}, class : {A, B}]

SectionLines == Plain({"pragma", "rule", "wide", "end", "property"})
                  \cup [kind : {"interface", "category"}, class : {A}]

AllAlphabets == {RegionLines, FoldLines, ClassLines, SectionLines}

\* Methods in nonnull regions, with a comment about the end of a region.
CommentedLines == Plain({"begin", "finish", "finishMention", "method"})
CommentedAlphabet == {CommentedLines}

\* Protocols with methods, and one declared ahead of its definition.
ForwardLines == Plain({"end", "method"}) \cup [kind : {"protocol", "forward"}, class : {A}]
ForwardAlphabet == {ForwardLines}

TwoClasses == {A, B}

\* tree-sitter-objc gives these a field; the names of classes and properties have none.
FieldNodes == {"method_declaration", "parameter_declaration", "function_declarator", "preproc_call"}

=============================================================================
