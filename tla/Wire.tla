--------------------------------- MODULE Wire ----------------------------------
(***************************************************************************)
(* The text of a command, its parser, and the fields that the servers put  *)
(* into the data of a command and take out of it again.                    *)
(*                                                                         *)
(* A text is a sequence of symbols: a symbol is the word of a type, a      *)
(* separator that some parser looks for, or "x", which stands for whatever *)
(* none looks for.                                                         *)
(***************************************************************************)
EXTENDS Integers, Sequences, SequencesExt

CONSTANT MaxLength  \* bound: the length of a field

ASSUME WireAssumption == MaxLength \in Nat

WithData ==
  {"CONNECT", "FOLLOW", "SEND", "REDIRECT", "ERROR", "EXIT", "NOTIFICATION", "ALIVE", "BACKUP",
   "ELECTION", "COORDINATOR", "REPLICATE_CONNECT", "REPLICATE_DISCONNECT", "REPLICATE_FOLLOW",
   "REPLICATE_SEND"}
WithoutData == {"NOOP", "TIC", "TOC", "ANSWER"}

Invalid == [type |-> "invalid_argument", data |-> <<>>]

-----------------------------------------------------------------------------
(* std::string: find gives the place of the first of its kind, or npos,     *)
(* which substr takes for the end and, one added, for the start.            *)

\* Mutant: the last of its kind.
FindLast(text, symbol) == SelectLastInSeq(text, LAMBDA s : s = symbol)

Find(text, symbol) == SelectInSeq(text, LAMBDA s : s = symbol)

Before(text, symbol) ==
  IF Find(text, symbol) = 0 THEN text ELSE SubSeq(text, 1, Find(text, symbol) - 1)
After(text, symbol) == SubSeq(text, Find(text, symbol) + 1, Len(text))

-----------------------------------------------------------------------------
(* Command.                                                                 *)

Encode(command) ==
  IF command.type \in WithoutData THEN <<command.type>>
  ELSE <<command.type>> \o <<" ">> \o command.data

\* Mutant: a type without data is one without a space, whatever it is.
ParseBare(text) ==
  LET word == Before(text, " ")
  IN  IF Len(word) = 1 /\ word[1] \in WithData \cup WithoutData
      THEN [type |-> word[1], data |-> IF Find(text, " ") = 0 THEN <<>> ELSE After(text, " ")]
      ELSE Invalid

\* Of the words without data, ANSWER is read only if a space follows it, and
\* TWEET is read as an error.
Parse(text) ==
  LET word == Before(text, " ")
  IN  IF text # <<>> /\ text[1] = "NOOP" THEN [type |-> "NOOP", data |-> <<>>]
      ELSE IF Find(text, " ") = 0
      THEN IF text \in {<<"TIC">>, <<"TOC">>} THEN [type |-> text[1], data |-> <<>>] ELSE Invalid
      ELSE IF word = <<"TWEET">> THEN [type |-> "ERROR", data |-> After(text, " ")]
      ELSE IF Len(word) = 1 /\ word[1] \in WithData \cup WithoutData
      THEN [type |-> word[1], data |-> After(text, " ")]
      ELSE Invalid

-----------------------------------------------------------------------------
(* The fields of the data.                                                  *)

\* host:port,pid of ALIVE and BACKUP, and host:port,profile of REPLICATE_CONNECT.
AddressData(host, port, last) == host \o <<":">> \o port \o <<",">> \o last
AddressFields(data) ==
  LET temp == After(data, ":") IN <<Before(data, ":"), Before(temp, ","), After(temp, ",")>>

\* profile,host:port of REPLICATE_DISCONNECT.
DisconnectData(profile, host, port) == profile \o <<",">> \o host \o <<":">> \o port
DisconnectFields(data) ==
  LET rest == After(data, ",") IN <<Before(data, ","), Before(rest, ":"), After(rest, ":")>>

\* profile,follow of REPLICATE_FOLLOW.
FollowData(profile, follow) == profile \o <<",">> \o follow
FollowFields(data) == <<Before(data, ","), After(data, ",")>>

\* profile&@message of REPLICATE_SEND.
SendData(profile, message) == profile \o <<"&@">> \o message
SendFields(data) == <<Before(data, "&@"), After(data, "&@")>>

\* The fields that go into the data, and come out of it.
Data(type, fields) ==
  CASE type = "REPLICATE_CONNECT" -> AddressData(fields[1], fields[2], fields[3])
    [] type = "REPLICATE_DISCONNECT" -> DisconnectData(fields[1], fields[2], fields[3])
    [] type = "REPLICATE_FOLLOW" -> FollowData(fields[1], fields[2])
    [] type = "REPLICATE_SEND" -> SendData(fields[1], fields[2])
    [] OTHER -> fields[1]

Fields(type, data) ==
  CASE type = "REPLICATE_CONNECT" -> AddressFields(data)
    [] type = "REPLICATE_DISCONNECT" -> DisconnectFields(data)
    [] type = "REPLICATE_FOLLOW" -> FollowFields(data)
    [] type = "REPLICATE_SEND" -> SendFields(data)
    [] OTHER -> <<data>>

-----------------------------------------------------------------------------
(* One datagram: what a program puts into it, and its text once it is sent. *)

VARIABLE datagram

Symbols == {"x", " ", ":", ",", "&@"}
Texts == BoundedSeq(Symbols, MaxLength)
Without(separators) == {text \in Texts : ToSet(text) \cap separators = {}}

\* A host and a port hold no separator, nor does a name that another field
\* follows hold the one between them.
FieldsOf(type) ==
  LET Address == Without({":", ","})
  IN  CASE type = "REPLICATE_CONNECT" -> Address \X Address \X Texts
        [] type = "REPLICATE_DISCONNECT" -> Without({","}) \X Address \X Address
        [] type = "REPLICATE_FOLLOW" -> Without({","}) \X Texts
        [] type = "REPLICATE_SEND" -> Without({"&@"}) \X Texts
        [] type \in WithoutData -> {<< <<>> >>}
        [] OTHER -> {<<data>> : data \in Texts}

InitDatagram ==
  \E type \in WithData \cup WithoutData : \E fields \in FieldsOf(type) :
    datagram = [type |-> type, fields |-> fields, text |-> <<>>]

SendDatagram ==
  /\ datagram.text = <<>>
  /\ datagram' = [datagram EXCEPT
       !.text = Encode([type |-> datagram.type, data |-> Data(datagram.type, datagram.fields)])]

DatagramSpec == InitDatagram /\ [][SendDatagram]_datagram

-----------------------------------------------------------------------------
(* Properties.                                                              *)

\* A command is received as it was sent, whatever its data hold, but for ANSWER:
\* its text has no space, and ends the process that parses it. electionLoop, to
\* which it is sent, takes it for an answer without parsing it.
CommandsRoundTrip ==
  datagram.text # <<>> =>
    Parse(datagram.text) =
      IF datagram.type = "ANSWER" THEN Invalid
      ELSE [type |-> datagram.type, data |-> Data(datagram.type, datagram.fields)]

\* And a backup takes out of a REPLICATE datagram what the primary put into it:
\* any name and any message, as long as no field holds the separator behind it.
FieldsRoundTrip ==
  datagram.text # <<>> /\ datagram.type # "ANSWER" =>
    Fields(datagram.type, Parse(datagram.text).data) = datagram.fields
=============================================================================
