---------------------------- MODULE MCFileStore ----------------------------
\* Contents at the limits: an image as large as an upload may be, the largest attachment
\* that is no image, and one that is too large.
EXTENDS FileStore, TLC
MCContents == {[size |-> 1, image |-> 1], [size |-> 1, image |-> 0], [size |-> 2, image |-> 0],
               [size |-> 3, image |-> 0]}
FileSymmetry == Permutations(Procs) \cup Permutations(Users) \cup Permutations(Ids)
                \cup Permutations(Keys) \cup Permutations(Bgs)
=============================================================================
