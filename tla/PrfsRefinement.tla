---------------------------- MODULE PrfsRefinement ----------------------------
(***************************************************************************)
(* The copy-on-write store implements the file system that copies the      *)
(* whole tree at every snapshot.                                           *)
(***************************************************************************)
EXTENDS PrfsStore, Sequences

\* The tree a reader of snapshot g sees.
Tree(d, g) ==
    [id \in Ids |->
        LET r == loadNode(d, id, g)
        IN  IF r = NoRec THEN NoRec
            ELSE [type |-> r.type, data |-> r.data, attr |-> r.attr, stamp |-> r.stamp,
                  entries |-> linkSet(d, id, g)]]

Fs == INSTANCE VersionedFs WITH live   <- Tree(db, m_cur),
                                sealed <- [g \in 1..(m_cur - 1) |-> Tree(db, g)]

\* Every step of the store is a step of the abstract file system on the tree
\* read back from its tables, and changes no sealed tree.
RefinesVersionedFs == Fs!FsSpec
=============================================================================
