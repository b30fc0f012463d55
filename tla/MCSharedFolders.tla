-------------------------- MODULE MCSharedFolders --------------------------
(* An instance of SharedFolders for TLC.                                    *)
EXTENDS SharedFolders

CONSTANTS f, g, h, p, q

\* No folder, two, all three, and one id listed with two paths.
MCWishes ==
    { <<>>, <<<<f, p>>, <<g, q>>>>, <<<<f, p>>, <<g, q>>, <<h, p>>>>,
      <<<<f, p>>, <<g, p>>, <<f, q>>>> }
=============================================================================
