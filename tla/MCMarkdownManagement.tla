------------------------ MODULE MCMarkdownManagement ------------------------
EXTENDS MarkdownManagement, TLC

CONSTANTS e1, e2, w1, w2

MCWindowOf == e1 :> w1 @@ e2 :> w2

\* The edits differ in nothing but their names.
Symmetric == Permutations(Edits)
=============================================================================
