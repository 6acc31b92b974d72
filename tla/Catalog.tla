------------------------------ MODULE Catalog ------------------------------
(***************************************************************************)
(* The immutable records of persistence/repository.py that a run refers    *)
(* to: one dataset version, its retrieval configs, its query set and the   *)
(* display titles of the judged documents.  A record is absent or holds    *)
(* the payload it was first stored with; an identifier does not determine  *)
(* the payload (a title, a name or a creation time may differ), so a put   *)
(* may meet a payload that is not its own.                                 *)
(***************************************************************************)
EXTENDS RunStore

CONSTANTS
  Documents,  \* the judged documents
  Payloads    \* what a put may carry for one identifier

VARIABLE catalog

Dataset == "dataset"
QuerySet == "query set"
Records == {Dataset, QuerySet} \union Configs \union Documents

Stored(record) == catalog[record] # "absent"

CatalogInit == catalog = [record \in Records |-> "absent"]

-----------------------------------------------------------------------------
(* A put is one transaction: the records it writes, and those that must be *)
(* stored before a record of it can be added.                              *)

DatasetVersionPut(payload) ==
  [needs |-> {}, writes |-> [record \in {Dataset} |-> payload]]

RetrievalConfigPut(c, payload) ==
  [needs |-> {Dataset}, writes |-> [record \in {c} |-> payload]]

QuerySetPut(payload) ==
  [needs |-> {Dataset}, writes |-> [record \in {QuerySet} |-> payload]]

JudgedDocumentTitlesPut(titles) == [needs |-> {QuerySet}, writes |-> titles]

\* Every record of the put is absent or stored with the very same payload.
Accepts(put) ==
  /\ \A record \in DOMAIN put.writes : catalog[record] \in {"absent", put.writes[record]}
  /\ (\E record \in DOMAIN put.writes : ~Stored(record)) =>
       \A record \in put.needs : Stored(record)

\* What is stored stays: only the absent records of an accepted put are added.
PutRecords(put) ==
  catalog' = [record \in Records |->
                IF record \in DOMAIN put.writes THEN put.writes[record]
                ELSE catalog[record]]

\* create_run compares the query-set summary of the run with the stored
\* revision and asks for every config of the run.
RunIsCatalogued(payload) ==
  /\ catalog[QuerySet] = payload
  /\ \A c \in Configs : Stored(c)

=============================================================================
