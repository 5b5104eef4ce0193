--------------------------- MODULE MCSftpRequests ---------------------------
(* A small instance of SftpRequests: two names and two handles.                *)
EXTENDS SftpRequests, TLC

CONSTANTS n1, n2, h1, h2

Symmetry == Permutations({n1, n2}) \union Permutations({h1, h2})
=============================================================================
