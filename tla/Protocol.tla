------------------------------- MODULE Protocol -------------------------------
(***************************************************************************)
(* What the gateway, the file servers and the replication service share:   *)
(* the number of servers, the replication amount, file names and the bytes *)
(* of a file.                                                              *)
(*                                                                         *)
(* A selected file (the Part of a browser's request) is known by the       *)
(* request that carries it, so Uploads names both.  Its bytes are cut into *)
(* FileLength chunks; a chunk is <<position, upload it comes from>>, and   *)
(* the bytes found in a file are the set of chunks written to it: {} is an *)
(* empty file, Whole(u) all of what request u carried, anything between a  *)
(* partial copy, and chunks of two requests a file overwritten in part.    *)
(***************************************************************************)
EXTENDS Integers, FiniteSets, Sequences

CONSTANTS
  NumberOfServers,  \* Protocol.NUMBER_OF_SERVERS
  Files,            \* the file names in use
  NoFile,           \* no file name
  Uploads,          \* the browsers' upload requests, each with its Part
  NoPart,           \* the gateway's Part field before any request set it
  NameOf,           \* NameOf[u] is the file name the Part of u was sent with
  FileLength        \* chunks in every selected file (bounds the model)

ASSUME ProtocolAssumption ==
  /\ NumberOfServers \in Nat \ {0}
  /\ FileLength \in Nat \ {0}
  /\ NoFile \notin Files
  /\ NoPart \notin Uploads
  /\ Files # {}
  /\ NameOf \in [Uploads -> Files]

\* Only so many requests reach the gateway.
ASSUME UploadsAssumption == IsFiniteSet(Uploads)

\* Ports START_PORT .. START_PORT + NUMBER_OF_SERVERS - 1, counted from 1.
Servers == 1..NumberOfServers

ReplicationAmount(aliveServers) == (aliveServers * 2) \div 3

\* Every caller in the code passes NUMBER_OF_SERVERS, never the live ones.
Target == ReplicationAmount(NumberOfServers)

Chunk == (1..FileLength) \X Uploads

Whole(u) == (1..FileLength) \X {u}

At(data, position) == {x \in data : x[1] = position}

\* A file after the chunks of new were written over it at their positions.
Overwrite(old, new) == {x \in old : At(new, x[1]) = {}} \cup new

================================================================================
