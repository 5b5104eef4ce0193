------------------------------- MODULE MCSftp -------------------------------
(* A small instance of SftpServer: two sessions under one name.                *)
EXTENDS SftpProperties, TLC

CONSTANTS s1, s2, alice
=============================================================================
