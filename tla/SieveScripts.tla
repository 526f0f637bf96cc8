---------------------------- MODULE SieveScripts ----------------------------
(***************************************************************************)
(* The Sieve scripts of one account: SieveScript/set and                   *)
(* VacationResponse/set of JMAP, the ManageSieve commands, the activation  *)
(* they share, and the recompilation of the active script at delivery.     *)
(*                                                                         *)
(* A request reads in one step, writes its item in a second, picks the     *)
(* scripts to (de)activate in a third, writes them in a fourth and logs    *)
(* what it changed in a fifth; requests interleave between these.  Each    *)
(* batch is atomic and asserts the value it read of every script it        *)
(* changes.  A blob is its contents and the form its compiled half has:    *)
(* "raw" as the requests write it, "packed" as a delivery rewrites it.     *)
(***************************************************************************)
EXTENDS Integers, FiniteSets, FiniteSetsExt, TLC

CONSTANTS
  Workers,      \* the requests and deliveries in progress at one time
  Names,        \* names clients give their scripts
  Size,         \* the size of each script text, a function on the texts
  MaxId,        \* bound on document ids
  MaxScripts,   \* sieve_max_scripts
  Ops,          \* the operations of the run
  Serial,       \* TRUE: one request that names or activates at a time
  MayCrash      \* TRUE: a request may vanish between two steps

ConstantsAssumption ==
  /\ MaxId \in Nat \ {0} /\ MaxScripts \in Nat
  /\ Serial \in BOOLEAN /\ MayCrash \in BOOLEAN
  /\ Size \in [DOMAIN Size -> Nat]

VARIABLES
  scripts,   \* document id -> its value
  links,     \* pairs of a document id and a blob: the BlobOp::Link keys
  used,      \* DirectoryClass::UsedQuota, as far as scripts are charged
  unlogged,  \* scripts changed since the change log last named them
  req        \* what each worker is doing

vars == <<scripts, links, used, unlogged, req>>

Contents == DOMAIN Size
Ids      == 1..MaxId
NoBlob   == <<"none", "none">>
Blobs    == (Contents \X {"raw", "packed"}) \cup {NoBlob}
AllNames == Names \cup {"vacation", "none"}
Script   == [name : AllNames, active : BOOLEAN, blob : Blobs]

\* What a request asks sieve_activate_script for.
Nobody == 0           \* nothing
NoneOf == -1          \* deactivate the active script
Itself == -2          \* activate the script the request creates

Idle == [stage |-> "idle"]

SizeOf(b) == IF b = NoBlob THEN 0 ELSE Size[b[1]]

NamedAs(n) == {d \in DOMAIN scripts : scripts[d].name = n}
IdOf(n)    == Min(NamedAs(n))
FreeName(n) == NamedAs(n) = {}
Active     == {d \in DOMAIN scripts : scripts[d].active}

TypeOK ==
  /\ DOMAIN scripts \subseteq Ids
  /\ \A d \in DOMAIN scripts : scripts[d] \in Script
  /\ links \subseteq (Ids \X Blobs)
  /\ used \in Int /\ unlogged \subseteq Ids
  /\ \A w \in Workers : req[w].stage \in {"idle", "write", "activate", "commit", "log"}

Init ==
  /\ scripts = <<>> /\ links = {} /\ used = 0 /\ unlogged = {}
  /\ req = [w \in Workers |-> Idle]

(***************************************************************************)
(* The requests: what is read and checked before the first write.          *)
(***************************************************************************)

Free(w, op) ==
  op \in Ops /\ req[w] = Idle

\* A request that goes on to write: kind of its batch, the script and the
\* value it read of it, the new value, the activation to follow and who asks.
Writes(w, kind, doc, cur, new, act, by) ==
  /\ req' = [req EXCEPT ![w] =
       [stage |-> "write", kind |-> kind, doc |-> doc, cur |-> cur, new |-> new,
        act |-> act, by |-> by, log |-> {}]]
  /\ UNCHANGED <<scripts, links, used, unlogged>>

None == [name |-> "none", active |-> FALSE, blob |-> NoBlob]

\* onSuccessActivateScript and onSuccessDeactivateScript of the request.
Activations == {Nobody, NoneOf} \cup DOMAIN scripts

\* A create of SieveScript/set, with sieve_set_item: the number of scripts
\* and the name are checked, and the script starts out inactive.
JmapCreate(w) ==
  /\ Free(w, "create")
  /\ Cardinality(DOMAIN scripts) <= MaxScripts
  /\ \E n \in Names, c \in Contents, a \in Activations \cup {Itself} :
       /\ FreeName(n)
       /\ Writes(w, "create", 0, None,
                 [name |-> n, active |-> FALSE, blob |-> <<c, "raw">>], a, "jmap")

\* An update of SieveScript/set: a new name, a new text or both; never of
\* the vacation script.
JmapUpdate(w) ==
  /\ Free(w, "update")
  /\ \E d \in DOMAIN scripts, a \in Activations :
       LET cur == scripts[d] IN
       /\ cur.name \notin {"vacation", "none"} /\ cur.blob # NoBlob
       /\ \E n \in Names \cup {cur.name}, b \in (Contents \X {"raw"}) \cup {cur.blob} :
            /\ n # cur.name => FreeName(n)
            /\ Writes(w, "update", d, cur, [cur EXCEPT !.name = n, !.blob = b], a, "jmap")

\* sieve_script_delete up to its write: an active script is refused where the
\* caller says so, and one without a blob cannot be deleted at all.
Deletes(w, d, fail_if_active, act, by) ==
  /\ fail_if_active => ~scripts[d].active
  /\ scripts[d].blob # NoBlob
  /\ Writes(w, "delete", d, scripts[d], None, act, by)

JmapDestroy(w) ==
  /\ Free(w, "destroy")
  /\ \E d \in DOMAIN scripts : \E a \in Activations \ {d} : Deletes(w, d, TRUE, a, "jmap")

\* A SieveScript/set with nothing to create, update or destroy.
JmapActivate(w) ==
  /\ Free(w, "activate")
  /\ \E a \in Activations \ {Nobody} :
       req' = [req EXCEPT ![w] = [stage |-> "activate", act |-> a, by |-> "jmap", log |-> {}]]
  /\ UNCHANGED <<scripts, links, used, unlogged>>

\* PUTSCRIPT: a new script, or a new text for the script of that name.
PutScript(w) ==
  /\ Free(w, "put")
  /\ Cardinality(DOMAIN scripts) <= MaxScripts
  /\ \E n \in Names, c \in Contents :
       IF NamedAs(n) = {}
       THEN Writes(w, "create", 0, None,
                   [name |-> n, active |-> FALSE, blob |-> <<c, "raw">>], Nobody, "put")
       ELSE LET cur == scripts[IdOf(n)] IN
            /\ "replace" \in Ops /\ cur.blob # NoBlob
            /\ Writes(w, "update", IdOf(n), cur, [cur EXCEPT !.blob = <<c, "raw">>],
                      Nobody, "replace")

\* RENAMESCRIPT: only the new name is validated.
RenameScript(w) ==
  /\ Free(w, "rename")
  /\ \E d \in DOMAIN scripts, n \in Names :
       /\ scripts[d].name \in Names \cup {"vacation"} /\ d = IdOf(scripts[d].name)
       /\ scripts[d].name = "vacation" => "rename_any" \in Ops
       /\ FreeName(n)
       /\ Writes(w, "update", d, scripts[d], [scripts[d] EXCEPT !.name = n], Nobody, "sieve")

DeleteScript(w) ==
  /\ Free(w, "destroy")
  /\ \E d \in DOMAIN scripts :
       /\ scripts[d].name # "none" /\ d = IdOf(scripts[d].name)
       /\ Deletes(w, d, TRUE, Nobody, "sieve")

\* SETACTIVE with a name, or with an empty one.
SetActive(w) ==
  /\ Free(w, "activate")
  /\ \E a \in {NoneOf} \cup {d \in DOMAIN scripts :
                               scripts[d].name # "none" /\ d = IdOf(scripts[d].name)} :
       req' = [req EXCEPT ![w] = [stage |-> "activate", act |-> a, by |-> "sieve", log |-> {}]]
  /\ UNCHANGED <<scripts, links, used, unlogged>>

\* Whether the request has the text of the vacation script built.
Builds(create, build) == create \/ build

\* VacationResponse/set with a create or an update of the singleton.  The
\* name is given to a created object only, the text is built when it changes.
VacationSet(w) ==
  /\ Free(w, "vacation")
  /\ \E create \in BOOLEAN, enabled \in {"yes", "no", "unset"}, build \in BOOLEAN, c \in Contents :
       LET exists == NamedAs("vacation") # {}
           doc    == IF exists THEN IdOf("vacation") ELSE 0
           cur    == IF exists THEN scripts[doc] ELSE None
           text   == IF Builds(create, build) THEN <<c, "raw">> ELSE cur.blob
           on     == \/ enabled = "yes"
                     \/ enabled = "unset" /\ ~create /\ cur.active
           new    == [name |-> IF create THEN "vacation" ELSE cur.name,
                      active |-> on, blob |-> text]
       IN /\ ~exists /\ ~create => "update_first" \in Ops
          /\ text = cur.blob /\ Builds(create, build) => "rebuild" \in Ops
          /\ exists /\ Builds(create, build) => cur.blob # NoBlob
          /\ Writes(w, IF ~exists THEN "create" ELSE IF Builds(create, build) THEN "relink" ELSE "update",
                    doc, cur, new,
                    IF ~cur.active /\ enabled = "yes"
                    THEN IF exists THEN doc ELSE Itself
                    ELSE Nobody, "vacation")

VacationDestroy(w) ==
  /\ Free(w, "vacation") /\ NamedAs("vacation") # {}
  /\ Deletes(w, IdOf("vacation"), FALSE, Nobody, "vacation")

\* sieve_script_get_active and sieve_script_compile at delivery: the compiled
\* half the requests write is never the packed form the reader expects, so the
\* first delivery rewrites the blob.
Recompile(w) ==
  /\ Free(w, "run") /\ Active # {}
  /\ LET d == Min(Active) IN
     /\ scripts[d].blob \notin {NoBlob} \cup (Contents \X {"packed"})
     /\ Writes(w, "update", d, scripts[d],
               [scripts[d] EXCEPT !.blob = <<scripts[d].blob[1], "packed">>], Nobody, "run")

(***************************************************************************)
(* The writes.                                                             *)
(***************************************************************************)

\* The next stage of a request whose item is written.
After(w, doc, log) ==
  LET r   == req[w]
      act == IF r.act = Itself THEN doc ELSE r.act
  IN req' = [req EXCEPT ![w] =
       IF act # Nobody
       THEN [stage |-> "activate", act |-> act, by |-> r.by, log |-> log]
       ELSE IF log # {} THEN [stage |-> "log", log |-> log] ELSE Idle]

\* Changes logged in the batch that makes them, later, or never.
InBatch(by) == by \in {"vacation", "put"}
Later(by) == by \in {"jmap", "sieve"}

Logging(w, doc) ==
  /\ unlogged' = IF InBatch(req[w].by) THEN unlogged \ {doc} ELSE unlogged \cup {doc}
  /\ After(w, doc, IF Later(req[w].by) THEN {doc} ELSE {})

WriteCreate(w) ==
  /\ req[w].stage = "write" /\ req[w].kind = "create"
  /\ \E d \in Ids \ DOMAIN scripts :
       LET new == req[w].new IN
       /\ scripts' = (d :> new) @@ scripts
       /\ links' = IF new.blob = NoBlob THEN links ELSE links \cup {<<d, new.blob>>}
       /\ used' = used + SizeOf(new.blob)
       /\ Logging(w, d)

\* The batch's assertion on the value read.
Asserted(w) == req[w].doc \in DOMAIN scripts /\ scripts[req[w].doc] = req[w].cur

\* The links of a changed text: SieveScript/set, PUTSCRIPT and the delivery
\* clear the previous one and set the new one.
Relinked(d, old, new) == (links \ {<<d, old>>}) \cup {<<d, new>>}

WriteUpdate(w) ==
  /\ req[w].stage = "write" /\ req[w].kind = "update" /\ Asserted(w)
  /\ LET d == req[w].doc old == req[w].cur.blob new == req[w].new.blob IN
     /\ scripts' = [scripts EXCEPT ![d] = req[w].new]
     /\ links' = IF new = old THEN links ELSE Relinked(d, old, new)
     /\ used' = used + SizeOf(new) - SizeOf(old)
     /\ Logging(w, d)

\* The vacation script's batch sets the new link and then clears the old one.
RebuiltLinks(d, old, new) == (links \cup {<<d, new>>}) \ {<<d, old>>}

WriteVacation(w) ==
  /\ req[w].stage = "write" /\ req[w].kind = "relink" /\ Asserted(w)
  /\ LET d == req[w].doc old == req[w].cur.blob new == req[w].new.blob IN
     /\ scripts' = [scripts EXCEPT ![d] = req[w].new]
     /\ links' = RebuiltLinks(d, old, new)
     /\ used' = used + SizeOf(new) - SizeOf(old)
     /\ Logging(w, d)

WriteDelete(w) ==
  /\ req[w].stage = "write" /\ req[w].kind = "delete" /\ Asserted(w)
  /\ LET d == req[w].doc IN
     /\ scripts' = [e \in DOMAIN scripts \ {d} |-> scripts[e]]
     /\ links' = links \ {<<d, req[w].cur.blob>>}
     /\ used' = used - SizeOf(req[w].cur.blob)
     /\ Logging(w, d)

\* An assertion that fails: an error to the client, and no activation.
WriteFails(w) ==
  /\ req[w].stage = "write" /\ req[w].kind # "create" /\ ~Asserted(w)
  /\ req' = [req EXCEPT ![w] = Idle]
  /\ UNCHANGED <<scripts, links, used, unlogged>>

(***************************************************************************)
(* sieve_activate_script.                                                  *)
(***************************************************************************)

\* The scripts to change and what to make of each: the active ones go off
\* and the wanted one comes on, unless it is on already.
Switch(act) ==
  LET on == IF act \in DOMAIN scripts \ Active THEN {act} ELSE {}
  IN [d \in (Active \ {act}) \cup on |-> d \in on]

Ends(log) == IF log # {} THEN [stage |-> "log", log |-> log] ELSE Idle

ReadActive(w) ==
  /\ req[w].stage = "activate"
  /\ LET r == req[w] s == Switch(r.act) IN
     req' = [req EXCEPT ![w] =
       IF DOMAIN s = {} THEN Ends(r.log)
       ELSE [stage |-> "commit", act |-> r.act, by |-> r.by, log |-> r.log,
             cur |-> [d \in DOMAIN s |-> scripts[d]], switch |-> s]]
  /\ UNCHANGED <<scripts, links, used, unlogged>>

Unchanged(w) ==
  \A d \in DOMAIN req[w].cur : d \in DOMAIN scripts /\ scripts[d] = req[w].cur[d]

\* The batch of the activation; when an assertion fails nothing is changed
\* and the caller, told of no changes, goes on as if there had been none.
CommitActive(w) ==
  /\ req[w].stage = "commit"
  /\ LET r == req[w] ok == Unchanged(w) IN
     /\ scripts' = IF ok THEN [d \in DOMAIN scripts |->
                                IF d \in DOMAIN r.switch
                                THEN [scripts[d] EXCEPT !.active = r.switch[d]]
                                ELSE scripts[d]]
                   ELSE scripts
     /\ unlogged' = IF ok THEN unlogged \cup DOMAIN r.switch ELSE unlogged
     /\ req' = [req EXCEPT ![w] =
          Ends(r.log \cup (IF ok /\ Later(r.by) THEN DOMAIN r.switch ELSE {}))]
  /\ UNCHANGED <<links, used>>

\* commit_changes.
Log(w) ==
  /\ req[w].stage = "log"
  /\ unlogged' = unlogged \ req[w].log
  /\ req' = [req EXCEPT ![w] = Idle]
  /\ UNCHANGED <<scripts, links, used>>

Crash(w) ==
  /\ MayCrash /\ req[w] # Idle
  /\ req' = [req EXCEPT ![w] = Idle]
  /\ UNCHANGED <<scripts, links, used, unlogged>>

Step(w) ==
  \/ JmapCreate(w) \/ JmapUpdate(w) \/ JmapDestroy(w) \/ JmapActivate(w)
  \/ PutScript(w) \/ RenameScript(w) \/ DeleteScript(w) \/ SetActive(w)
  \/ VacationSet(w) \/ VacationDestroy(w) \/ Recompile(w)
  \/ WriteCreate(w) \/ WriteUpdate(w) \/ WriteVacation(w) \/ WriteDelete(w)
  \/ WriteFails(w) \/ ReadActive(w) \/ CommitActive(w) \/ Log(w) \/ Crash(w)

\* The request gives a script a name, or changes which one is active.
Exclusive(r) ==
  \/ r.stage \in {"activate", "commit"}
  \/ /\ r.stage = "write"
     /\ \/ r.kind = "create" \/ r.act # Nobody
        \/ r.kind # "delete" /\ (r.new.name # r.cur.name \/ r.new.active # r.cur.active)

Next ==
  /\ \E w \in Workers : Step(w)
  /\ Serial => \A v, w \in Workers : Exclusive(req'[v]) /\ Exclusive(req'[w]) => v = w

Spec == Init /\ [][Next]_vars

(***************************************************************************)
(* Properties.                                                             *)
(***************************************************************************)

Quiet == \A w \in Workers : req[w] = Idle

\* Between requests at most one script is active: sieve_script_get_active runs
\* the one with the smallest id, and a second one would silently do nothing.
OneActive == Quiet => Cardinality(Active) <= 1

\* No two scripts have one name: ManageSieve finds scripts by name and would
\* never reach the second.
UniqueNames == \A d, e \in DOMAIN scripts :
  (scripts[d].name = scripts[e].name /\ scripts[d].name # "none") => d = e

\* The quota charged for scripts is the size of the scripts there are, however
\* requests that replace and delete one script interleave or break off.
QuotaExact == used = MapThenSumSet(LAMBDA d : SizeOf(scripts[d].blob), DOMAIN scripts)

\* A script's blob is linked, and nothing else is: the purge deletes a blob
\* that nobody links, and keeps one that somebody does.
LinksExact == links = {<<d, scripts[d].blob>> : d \in {e \in DOMAIN scripts :
                                                     scripts[e].blob # NoBlob}}

\* A script that is active has a text to run: without one
\* sieve_script_get_active fails, and with it the delivery of every message.
ActiveRuns == \A d \in Active : scripts[d].blob # NoBlob

\* No request but VacationResponse/set takes an active script away, whatever
\* is activated between its check and its write.
DeletedInactive ==
  \A w \in Workers : WriteDelete(w) /\ req[w].by # "vacation" => ~scripts[req[w].doc].active

\* Between requests the change log has named every script that was changed:
\* SieveScript/changes tells clients of all of them.
Logged == Quiet => unlogged = {}

=============================================================================
