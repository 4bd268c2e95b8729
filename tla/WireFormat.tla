------------------------------ MODULE WireFormat ------------------------------
(***************************************************************************)
(* Messages of PortAPI on the wire (src/app/lib/portapi.types.ts).  Fields *)
(* are joined by a separator they may contain themselves: a text is the    *)
(* sequence of its pieces between separators, and joining texts is         *)
(* concatenation.  What JSON does with data is a mark on the first piece.  *)
(***************************************************************************)
EXTENDS Naturals, Sequences

DataTypes  == {"ok", "upd", "new", "insert", "update", "create"}
KeyTypes   == {"del", "get", "delete"}
ErrorTypes == {"error", "warning"}
QueryTypes == {"query", "sub", "qsub"}
BareTypes  == {"done", "success", "cancel"}

\* The message types of BaseMessage, with the members each of them has.
Messages(Ids, Texts) ==
  [id : Ids, type : BareTypes]
    \cup [id : Ids, type : ErrorTypes, message : Texts]
    \cup [id : Ids, type : DataTypes, key : Texts, data : Texts]
    \cup [id : Ids, type : KeyTypes, key : Texts]
    \cup [id : Ids, type : QueryTypes, query : Texts]

JSON(text)  == <<[json |-> text[1]]>> \o Tail(text)
Query(text) == <<[query |-> text[1]]>> \o Tail(text)
Unmark(piece, mark) == IF mark \in DOMAIN piece THEN piece[mark] ELSE piece

serializeMessage(msg) ==
  <<[text |-> msg.id], [text |-> msg.type]>> \o
    CASE msg.type \in BareTypes  -> <<>>
      [] msg.type \in ErrorTypes -> msg.message
      [] msg.type \in DataTypes  -> msg.key \o JSON(msg.data)
      [] msg.type \in KeyTypes   -> msg.key
      [] msg.type \in QueryTypes -> Query(msg.query)

\* Wrong: the parts of a payload with separators are not put together again.
FourParts(parts) ==
  LET id == parts[1].text  type == parts[2].text
  IN  CASE type \in BareTypes  -> [id |-> id, type |-> type]
        [] type \in ErrorTypes -> [id |-> id, type |-> type, message |-> <<parts[3]>>]
        [] type \in DataTypes  -> [id |-> id, type |-> type, key |-> <<parts[3]>>,
                                   data |-> <<Unmark(parts[4], "json")>>]
        [] type \in KeyTypes   -> [id |-> id, type |-> type, key |-> <<parts[3]>>]
        [] type \in QueryTypes -> [id |-> id, type |-> type,
                                   query |-> <<Unmark(parts[3], "query")>>]

\* Everything after the third separator is one part.  Keys, messages and queries are
\* the third part, and what follows is dropped, or taken for the data.
deserializeMessage(parts) ==
  LET id == parts[1].text  type == parts[2].text
  IN  CASE type \in BareTypes  -> [id |-> id, type |-> type]
        [] type \in ErrorTypes -> [id |-> id, type |-> type, message |-> <<parts[3]>>]
        [] type \in DataTypes  -> [id |-> id, type |-> type, key |-> <<parts[3]>>,
                                   data |-> <<Unmark(parts[4], "json")>>
                                              \o SubSeq(parts, 5, Len(parts))]
        [] type \in KeyTypes   -> [id |-> id, type |-> type, key |-> <<parts[3]>>]
        [] type \in QueryTypes -> [id |-> id, type |-> type,
                                   query |-> <<Unmark(parts[3], "query")>>]
=============================================================================
