-------------------------------- MODULE MCFtp --------------------------------
(* Small instances of FtpServer: two connections, the users of the tests.      *)
EXTENDS FtpProperties, TLC

CONSTANTS c1, c2

All  == {"read", "write"}
Read == {"read"}

\* One client logs in without a name, the other as alice.
NamelessAndNamed == (c1 :> {"anonymous"}) @@ (c2 :> {"alice"})
AnyName  == [c \in Conns |-> Users]
Nameless == [c \in Conns |-> {"anonymous"}]

WriterAndReader == [u \in Users |-> IF u = "alice" THEN {All} ELSE {Read}]
ReaderAndWriter == [u \in Users |-> IF u = "alice" THEN {Read} ELSE {All}]

Every == {"USER", "PASS", "INFO", "NOOP", "PASV", "LIST", "RETR", "STOR", "DELE", "MKD",
          "RMD", "CWD", "QUIT"}

\* A client that begins with USER and ends with a transfer, PASV or QUIT: any three
\* commands in between.
FirstAndFourOfAny == [c \in Conns |-> <<{"USER"}, Every, Every, Every, {"LIST", "RETR", "STOR", "PASV", "QUIT"}>>]

\* One client logs in or leaves, the other logs in with a password.
LoginAndPass == (c1 :> <<{"USER", "QUIT"}>>) @@ (c2 :> <<{"USER"}, {"PASS"}>>)

\* One client stores a file, or asks for a listing, and then fetches.
StoreAndFetch ==
  [c \in Conns |-> <<{"USER"}, {"PASV", "QUIT"}, {"LIST", "STOR"}, {"PASV", "DELE", "QUIT"},
                     {"RETR", "NOOP"}>>]
=============================================================================
