------------------------------- MODULE Links -------------------------------
(***************************************************************************)
(* The two links of the program: a client's connection to the server, and  *)
(* the server's to MySQL.  Both carry what is asked and what is answered   *)
(* one behind the other on one stream, and both may break off anywhere.    *)
(***************************************************************************)
EXTENDS HttpConnection, MySqlLink

\* Both ends of a connection stay in step, of the browser's to the server and of the
\* server's to MySQL: see ConnInStep and SqlInStep.
InStep == ConnInStep /\ SqlInStep
=============================================================================
