---------------------------- MODULE Provisioning ----------------------------
(***************************************************************************)
(* The settings of a node (Provisioning/): values staged in a draft, the   *)
(* commit that promotes them and calls the setters, one file for each      *)
(* namespace, and the start that reads the files back.                     *)
(*                                                                         *)
(* One thread runs every operation, but power may fail in the middle of a  *)
(* commit: its file operations are steps of their own.  A setter may       *)
(* return false or throw.  A new firmware may declare another type for a   *)
(* field than the one the file was written with.                           *)
(***************************************************************************)
EXTENDS ProvisioningSchema

CONSTANTS
    Apps,       \* the registration calls of the application, for each firmware
    Field,      \* the fields whose values change, as pairs of namespace and id
    MaxVersion, \* bound on firmware versions
    Inputs,     \* the values that are staged
    Messages,   \* the requests of the provisioning client
    MaxEdits,   \* bound on stagings and direct changes
    MaxFaults,  \* bound on failing setters and file operations
    Torn,       \* what a file holds whose write was cut short
    None

\* The registry of every firmware.
Registry == [v \in 1..MaxVersion |-> Registered(Apps[v])]

\* What begin() builds of the application's calls is well-formed.
ASSUME RegistryIsSound == \A v \in 1..MaxVersion : Sound(Registry[v])

\* The namespace ns of a registry, the declaration of a field of it, and the
\* place of the field in it.
NamespaceOf(v, ns) == CHOOSE n \in ToSet(Registry[v].nss) : n.id = ns
Schema ==
    [v \in 1..MaxVersion |-> [f \in Field |->
        CHOOSE x \in ToSet(NamespaceOf(v, f[1]).fields) : x.id = f[2]]]
Place ==
    [v \in 1..MaxVersion |-> [f \in Field |->
        SelectInSeq(NamespaceOf(v, f[1]).fields, LAMBDA x : x.id = f[2])]]

Namespace == {f[1] : f \in Field}

\* A field id is a fid_t.
ASSUME FieldAssumption ==
    /\ IsFiniteSet(Field)
    /\ \A f \in Field : f[2] \in 0..(UINT16 - 1)
    /\ \A f, g \in Field : f[1] = g[1] /\ f[2] = g[2] => f = g
ASSUME BoundAssumption ==
    /\ MaxVersion \in Nat \ {0} /\ MaxEdits \in Nat /\ MaxFaults \in Nat
    /\ Inputs \subseteq Value
    /\ \A m \in Messages : m.op = "SetState" => Len(m.state) \in Nat
    /\ None \notin Value \union {<<ns>> : ns \in Namespace}

\* What the calls of NamespaceBuilder give a field: values and a default of its
\* type, a default that is valid and that its static starts with; and a place of
\* its own in its namespace.  It is not meant
\* for the Transport Identity, whose getter is empty at begin() and gives the
\* key once Transport::start() ran: nothing here changes a static from outside.
ASSUME SchemaAssumption ==
    \A v \in 1..MaxVersion, f \in Field : LET x == Schema[v][f] IN
        /\ x.default \in Value /\ x.default.type = x.type
        /\ x.initial = x.default
        /\ x.fits \subseteq Numbers
        /\ x.width \in Nat \ {0} /\ x.default.v < x.width
        /\ x.getter \in BOOLEAN
        /\ x.flags \intersect {"READ_ONLY", "WRITE_ONLY"} = {} => x.default.v \in x.fits
        /\ Place[v][f] \in Nat
        /\ \A g \in Field : f[1] = g[1] /\ Place[v][f] = Place[v][g] => f = g

\* A field that takes effect at the next start (FF_REBOOT_REQUIRED) is neither
\* applied at once nor a metric nor a command: the flags of Field.h contradict
\* each other there.  Nothing refuses such a field; no registration declares one.
ASSUME FlagsAssumption ==
    \A v \in 1..MaxVersion, f \in Field :
        "REBOOT_REQUIRED" \in Schema[v][f].flags =>
            Schema[v][f].flags \intersect {"LIVE_APPLY", "READ_ONLY", "WRITE_ONLY"} = {}

VARIABLES
    version,      \* the firmware that runs
    up,           \* begin() has run
    working,      \* _working of every field
    draft,        \* _draft of every field, or None
    runtime,      \* the static behind the field
    dirty,        \* namespaces with _dirty_for_persist
    needs_reboot,
    file,         \* contents of every ns<id>.msgpack, or None
    tmp,          \* contents of every ns<id>.msgpack.tmp, or None
    commit,       \* the commit under way, or NoCommit
    faults,
    edits,
    unapplied,    \* history: fields whose setter failed at start or reset
    escaped,      \* history: an exception has left a commit since the start
    adrift        \* history: namespaces whose file could not be read or removed

ram == <<version, up, working, draft, runtime, dirty, needs_reboot, commit>>
vars == <<ram, file, tmp, faults, edits, unapplied, escaped, adrift>>

F(f) == Schema[version][f]
FieldsOf(ns) == {f \in Field : f[1] = ns}

\* has_flag().
Has(f, flag) == flag \in F(f).flags
Stateful(f) == ~Has(f, "READ_ONLY") /\ ~Has(f, "WRITE_ONLY")
Reboots(f) == Has(f, "REBOOT_REQUIRED")
Live(f) == Stateful(f) /\ Has(f, "LIVE_APPLY")

\* Namespaces in the order of the registry.
InOrder(nss) ==
    SetToSortSeq(nss, LAMBDA m, n : find(Registry[version], m) < find(Registry[version], n))

-----------------------------------------------------------------------------
(* Values and fields.                                                       *)

\* Field::validate(), of the field that is declared as d.
Fits(d, x) == x.type = d.type /\ x.v \in d.fits
validate(f, x) == Fits(F(f), x)

\* A setter keeps the bits its static has room for.
Cast(f, x) == Val(x.type, x.v % F(f).width)

\* Namespace::effective() of a field that can be read.
effective(f) == IF F(f).getter THEN runtime[f] ELSE working[f]

\* A plausible slip: a reboot field is compared with the running value.
LiveValue(f) == effective(f)

\* The value a field counts as having: what a new draft is compared with
\* (set_draft), what GET_STATE reports (base_state_value) and what is saved
\* (persist_value).
state_value(f) == IF Reboots(f) THEN working[f] ELSE effective(f)

\* Namespace::set_draft() for a field that may be set: its draft.
set_draft(f, x) == IF Stateful(f) /\ x = state_value(f) THEN None ELSE x

Settable(f, x) == ~Has(f, "READ_ONLY") /\ validate(f, x)

\* pack_namespace_working(): the saved fields in their order.
Kept(ns) == {f \in FieldsOf(ns) : Stateful(f)}
Rank(f) == Cardinality({g \in Kept(f[1]) : Place[version][g] <= Place[version][f]})
Saved(ns) == [i \in 1..Cardinality(Kept(ns)) |-> CHOOSE f \in Kept(ns) : Rank(f) = i]

\* A plausible slip: the running value is saved in place of the committed one.
PackedRunning(ns) ==
    [i \in 1..Len(Saved(ns)) |-> [id |-> Saved(ns)[i][2], x |-> effective(Saved(ns)[i])]]

Packed(ns) ==
    [i \in 1..Len(Saved(ns)) |-> [id |-> Saved(ns)[i][2], x |-> state_value(Saved(ns)[i])]]

-----------------------------------------------------------------------------
(* Reading a MsgPack map of n entries: a cursor over keys and values.       *)

\* pack_value(): what a value is in MsgPack.
WireType(x) ==
    CASE x.type = "Bool" -> "bool" [] x.type \in {"Int", "Enum"} -> "int"
      [] x.type = "Float" -> "float" [] x.type = "String" -> "str"
      [] x.type = "Bytes" -> "bin" [] x.type = "BytesList" -> "array"
      [] x.type = "Void" -> "nil"

\* unpack_value(): the wire types that are read as a type.
Reads(type) ==
    CASE type = "Bool" -> {"bool"} [] type \in {"Int", "Enum"} -> {"int"}
      [] type = "Float" -> {"float", "int"} [] type = "String" -> {"str"}
      [] type = "Bytes" -> {"bin"} [] type = "BytesList" -> {"array"}
      [] type = "Void" -> {"nil"}

\* The keys and values of a map, one after the other.
Stream(c) ==
    [i \in 1..(2 * Len(c)) |->
        IF i % 2 = 1 THEN Val("Int", c[(i + 1) \div 2].id) ELSE c[i \div 2].x]

\* A key can be read at position i; it is cut to 16 bits.
IsInt(s, i) == i <= Len(s) /\ WireType(s[i]) = "int"
Key(s, i) == s[i].v % UINT16

\* A value of another type than the declared one is left where it is.
Unpacks(d, s, i) == i <= Len(s) /\ WireType(s[i]) \in Reads(d.type)

\* find_field() with the key at position i: at most one field.
Named(s, i, ns) == {f \in FieldsOf(ns) : IsInt(s, i) /\ f[2] = Key(s, i)}

\* The value after the key at position i, for the field the key names; sch has
\* the declarations of the fields.
ValueAt(sch, s, i, ns) ==
    {[f |-> f, x |-> Val(sch[f].type, s[i + 1].v)] :
        f \in {g \in Named(s, i, ns) : Unpacks(sch[g], s, i + 1)}}

\* Where the next entry is read.  After a value that cannot be read the cursor
\* is not moved, so that the next entry's key is read from it.
Advance(sch, s, i, ns) ==
    IF Named(s, i, ns) # {} /\ ValueAt(sch, s, i, ns) = {} THEN 1 ELSE 2

Cursor(sch, s, n, ns) ==
    LET at[i \in 0..n] == IF i = 0 THEN 1 ELSE at[i - 1] + Advance(sch, s, at[i - 1], ns)
    IN at

\* The field and the value read at every entry of the map c, if any.
ReadMap(sch, c, ns) ==
    [i \in 1..Len(c) |->
        ValueAt(sch, Stream(c), Cursor(sch, Stream(c), Len(c), ns)[i - 1], ns)]

\* The entries with a valid value for f: the last one counts.
Fitting(sch, c, f) ==
    {i \in 1..Len(c) : \E e \in ReadMap(sch, c, f[1])[i] : e.f = f /\ Fits(sch[f], e.x)}
LastFitting(sch, c, f) ==
    (CHOOSE e \in ReadMap(sch, c, f[1])[Max(Fitting(sch, c, f))] : e.f = f).x

\* add_field(): the working map starts with the running value or the default.
Seed(f) == IF F(f).getter THEN F(f).initial ELSE F(f).default

\* unpack_namespace_working(), for one field: only valid values reach the working
\* map.
Unpacked(c, f) ==
    IF Fitting(Schema[version], c, f) = {} THEN Seed(f)
    ELSE LastFitting(Schema[version], c, f)

\* Storage::load_namespace(), for one field.
load_namespace(f) ==
    IF file[f[1]] = None THEN Seed(f) ELSE Unpacked(file[f[1]], f)

-----------------------------------------------------------------------------
(* What the client is told.  A reply is packed raw or compressed, whichever *)
(* is shorter: the payload is the same.                                     *)

pack_response(op, payload) == [op |-> op, payload |-> payload]

\* A filter that is not there selects every namespace; ids that are unknown
\* are passed over.
Chosen(filter) ==
    IF filter = None THEN Namespace ELSE ToSet(filter) \intersect Namespace

\* The same for a commit, which goes by the order.
Selected(filter) ==
    IF filter = None THEN InOrder(Namespace)
    ELSE SelectSeq(filter, LAMBDA ns : ns \in Namespace)

\* The entries of a field in the schema: limits only where there are any.
pack_field_schema(f) ==
    [type |-> F(f).type, flags |-> F(f).flags, default |-> F(f).default, fits |-> F(f).fits]

pack_namespace_schema(ns) == [f \in FieldsOf(ns) |-> pack_field_schema(f)]

op_get_schema(filter) ==
    pack_response("GetSchema", [ns \in Chosen(filter) |-> pack_namespace_schema(ns)])

op_get_info == pack_response("GetInfo", [NeedsReboot |-> needs_reboot])

\* base_state_value() of every field but those that are not to be read.
pack_ns_values(ns) ==
    [f \in {g \in FieldsOf(ns) : ~Has(g, "SECRET") /\ ~Has(g, "WRITE_ONLY")} |-> state_value(f)]

has_any_draft(ns) == \E f \in FieldsOf(ns) : draft[f] # None

pack_ns_drafts(ns) == [f \in {g \in FieldsOf(ns) : draft[g] # None} |-> draft[f]]

\* GET_STATE; with drafts for the namespaces that have one.
op_get_state(filter, include_drafts) ==
    LET nss == Chosen(filter) IN
    pack_response("GetState",
        [Values |-> [ns \in nss |-> pack_ns_values(ns)],
         Drafts |-> [ns \in {n \in nss : include_drafts /\ has_any_draft(n)} |->
                        pack_ns_drafts(ns)]])

draft_has_reboot == \E f \in Field : draft[f] # None /\ Reboots(f)

-----------------------------------------------------------------------------
(* Staging.                                                                 *)

NoCommit == [todo |-> <<>>, step |-> "idle", wire |-> FALSE, reboot |-> FALSE]

Idle == up /\ commit = NoCommit

\* Provisioner::field(ns, f, x).
Stage(f, x) ==
    /\ Idle
    /\ edits < MaxEdits /\ edits' = edits + 1
    /\ Settable(f, x)
    /\ draft' = [draft EXCEPT ![f] = set_draft(f, x)]
    /\ UNCHANGED <<version, up, working, runtime, dirty, needs_reboot, commit>>
    /\ UNCHANGED <<file, tmp, faults, unapplied, escaped, adrift>>

\* op_set_state() with a map for one namespace.
Staged(ns, c) ==
    {f \in FieldsOf(ns) : ~Has(f, "READ_ONLY") /\ Fitting(Schema[version], c, f) # {}}

op_set_state(ns, c) ==
    /\ Idle
    /\ edits < MaxEdits /\ edits' = edits + 1
    /\ draft' = [f \in Field |-> IF f \in Staged(ns, c)
                                 THEN set_draft(f, LastFitting(Schema[version], c, f))
                                 ELSE draft[f]]
    /\ UNCHANGED <<version, up, working, runtime, dirty, needs_reboot, commit>>
    /\ UNCHANGED <<file, tmp, faults, unapplied, escaped, adrift>>

\* discard() and op_discard().
discard(nss) ==
    /\ Idle
    /\ draft' = [f \in Field |-> IF f[1] \in nss THEN None ELSE draft[f]]
    /\ UNCHANGED <<version, up, working, runtime, dirty, needs_reboot, commit>>
    /\ UNCHANGED <<file, tmp, faults, edits, unapplied, escaped, adrift>>

\* The application changes a static behind the back of its field.
DirectSet(f, x) ==
    /\ Idle
    /\ edits < MaxEdits /\ edits' = edits + 1
    /\ Live(f) /\ F(f).getter
    /\ validate(f, x)
    /\ runtime' = [runtime EXCEPT ![f] = Cast(f, x)]
    /\ UNCHANGED <<version, up, working, draft, dirty, needs_reboot, commit>>
    /\ UNCHANGED <<file, tmp, faults, unapplied, escaped, adrift>>

-----------------------------------------------------------------------------
(* The commit.                                                              *)

Count(b) == IF b THEN 1 ELSE 0

\* The lambda do_one of commit() and op_commit() begins with the first of the
\* namespaces; op_commit() sets the reboot flag at its end.
BeginCommit(todo, wire) ==
    /\ Idle /\ todo # <<>>
    /\ commit' = [todo |-> todo, step |-> "fields", wire |-> wire, reboot |-> FALSE]
    /\ UNCHANGED <<version, up, working, draft, runtime, dirty, needs_reboot>>
    /\ UNCHANGED <<file, tmp, faults, edits, unapplied, escaped, adrift>>

Ns == Head(commit.todo)

\* A plausible slip: the flag of an earlier namespace is forgotten.
NextNamespaceAlone(c) ==
    LET rest == Tail(c.todo) IN
    /\ needs_reboot' = (needs_reboot \/ (c.reboot /\ (~c.wire \/ rest = <<>>)))
    /\ commit' = IF rest = <<>> THEN NoCommit
                 ELSE [todo |-> rest, step |-> "fields", wire |-> c.wire, reboot |-> FALSE]

\* The namespace is done with: set_reboot_flag() now or after the last one.
NextNamespace(c) ==
    LET rest == Tail(c.todo) IN
    /\ needs_reboot' = (needs_reboot \/ (c.reboot /\ (~c.wire \/ rest = <<>>)))
    /\ commit' = IF rest = <<>> THEN NoCommit
                 ELSE [todo |-> rest, step |-> "fields", wire |-> c.wire,
                       reboot |-> c.wire /\ c.reboot]

\* The on_commit hook of the namespace may take back or amend a draft.
Hooked(ns) ==
    LET mine == {f \in FieldsOf(ns) : draft[f] # None} IN
    {draft} \union {[draft EXCEPT ![f] = None] : f \in mine}

\* Storage::factory_reset(): removes every file, but those of `stuck`.
RemoveFiles(stuck) ==
    /\ file' = [ns \in Namespace |-> IF ns \in stuck THEN file[ns] ELSE None]
    /\ tmp' = [ns \in Namespace |-> IF ns \in stuck THEN tmp[ns] ELSE None]
    /\ adrift' = (adrift \ {ns \in Namespace : file'[ns] = None}) \union stuck

\* The fields of a namespace that a commit gets to: all with a draft, or the
\* ones up to the field whose setter throws.
Reached(d, ns, thrower) ==
    {f \in FieldsOf(ns) :
        d[f] # None /\ (thrower = None \/ Place[version][f] <= Place[version][thrower])}

\* commit_one() for the drafts d of the namespace: the setters of `refused` return
\* false, the one of `thrower` throws; `new` reach the working map and `live` their
\* statics.  The command is "Clear Provisioning".
CommitOne(d, thrower, refused, done, new, live) ==
    /\ refused \subseteq done \ {thrower}
    /\ faults + Cardinality(refused) + Count(thrower # None) <= MaxFaults
    /\ faults' = faults + Cardinality(refused) + Count(thrower # None)
    /\ draft' = [f \in Field |-> IF f \in done THEN None ELSE d[f]]
    /\ working' = [f \in Field |-> IF f \in new THEN d[f] ELSE working[f]]
    /\ runtime' = [f \in Field |-> IF f \in live THEN Cast(f, d[f]) ELSE runtime[f]]
    /\ dirty' = IF new = {} THEN dirty ELSE dirty \union {Ns}
    /\ IF \E f \in done : Has(f, "WRITE_ONLY") /\ f # thrower
       THEN RemoveFiles({})
       ELSE UNCHANGED <<file, tmp, adrift>>
    /\ IF thrower # None
       THEN /\ commit' = NoCommit
            /\ escaped' = TRUE
            /\ UNCHANGED needs_reboot
       ELSE /\ UNCHANGED escaped
            /\ \E c \in {[commit EXCEPT !.reboot = @ \/ \E f \in new : Reboots(f),
                                      !.step = "write"]} :
                  IF Ns \in dirty'
                  THEN commit' = c /\ UNCHANGED needs_reboot
                  ELSE NextNamespace(c)

CommitFields ==
    /\ commit.step = "fields"
    /\ \E d \in Hooked(Ns) :
       \E thrower \in {f \in FieldsOf(Ns) : d[f] # None /\ ~Reboots(f)} \union {None},
          refused \in SUBSET {f \in FieldsOf(Ns) : d[f] # None /\ Live(f)} :
       \E done \in {Reached(d, Ns, thrower)} :
       \E new \in {{f \in done : Stateful(f)}},
          live \in {{f \in done : Live(f)} \ (refused \union {thrower})} :
          CommitOne(d, thrower, refused, done, new, live)
    /\ UNCHANGED <<version, up, edits, unapplied>>

\* save_namespace_force(): the new contents go to the .tmp file first.
SaveWrite ==
    /\ commit.step = "write"
    /\ \/ /\ tmp' = [tmp EXCEPT ![Ns] = Packed(Ns)]
          /\ commit' = [commit EXCEPT !.step = "rename"]
          /\ UNCHANGED <<needs_reboot, faults>>
       \/ /\ faults < MaxFaults       \* short write
          /\ faults' = faults + 1
          /\ tmp' = [tmp EXCEPT ![Ns] = None]
          /\ NextNamespace(commit)
    /\ UNCHANGED <<version, up, working, draft, runtime, dirty>>
    /\ UNCHANGED <<file, edits, unapplied, escaped, adrift>>

\* rename(tmp, final) succeeds: mark_clean().
Renamed ==
    /\ file' = [file EXCEPT ![Ns] = tmp[Ns]]
    /\ tmp' = [tmp EXCEPT ![Ns] = None]
    /\ dirty' = dirty \ {Ns}
    /\ adrift' = adrift \ {Ns}
    /\ NextNamespace(commit)

\* A file system that does not overwrite refuses the first attempt; the file
\* is removed and the second attempt follows.
SaveRename ==
    /\ commit.step \in {"rename", "again"}
    /\ \/ Renamed /\ UNCHANGED faults
       \/ /\ commit.step = "rename" /\ file[Ns] # None
          /\ commit' = [commit EXCEPT !.step = "again"]
          /\ file' = [file EXCEPT ![Ns] = None]
          /\ UNCHANGED <<tmp, dirty, needs_reboot, faults, adrift>>
       \/ /\ commit.step = "again" /\ faults < MaxFaults
          /\ faults' = faults + 1
          /\ tmp' = [tmp EXCEPT ![Ns] = None]
          /\ NextNamespace(commit)
          /\ UNCHANGED <<file, dirty, adrift>>
    /\ UNCHANGED <<version, up, working, draft, runtime, edits, unapplied, escaped>>

-----------------------------------------------------------------------------
(* Reset, power loss and start.                                             *)

\* Provisioner::factory_reset(); `refused` are the fields whose setter fails.
factory_reset(refused, stuck) ==
    /\ Idle
    /\ faults + Cardinality(refused) + Cardinality(stuck) <= MaxFaults
    /\ faults' = faults + Cardinality(refused) + Cardinality(stuck)
    /\ draft' = [f \in Field |-> None]
    /\ working' = [f \in Field |-> F(f).default]
    /\ runtime' = [f \in Field |-> IF Stateful(f) /\ f \notin refused
                                   THEN Cast(f, F(f).default) ELSE runtime[f]]
    /\ dirty' = {}
    /\ needs_reboot' = FALSE
    /\ unapplied' = refused
    /\ RemoveFiles(stuck)
    /\ UNCHANGED <<version, up, commit, edits, escaped>>

\* Power fails, or the node restarts, with the same or a newer firmware.
PowerLoss ==
    /\ up
    /\ up' = FALSE
    /\ version' \in {version} \union {v \in {version + 1} : v <= MaxVersion}
    /\ tmp' \in {tmp} \union {[tmp EXCEPT ![ns] = Torn] :
                    ns \in {n \in Namespace : commit.step = "write" /\ n = Ns}}
    /\ working' = [f \in Field |-> None]
    /\ draft' = [f \in Field |-> None]
    /\ runtime' = [f \in Field |-> None]
    /\ dirty' = {} /\ needs_reboot' = FALSE /\ commit' = NoCommit
    /\ unapplied' = {} /\ escaped' = FALSE /\ adrift' = {}
    /\ UNCHANGED <<file, faults, edits>>

\* factory_reset() with any of the setters and the removals failing.
Reset ==
    \E refused \in SUBSET {f \in Field : Stateful(f)}, stuck \in SUBSET Namespace :
        factory_reset(refused, stuck)

\* The application restarts the node when it is asked to.
op_reboot == Idle /\ PowerLoss

\* Provisioner::handle_message(): the operations that change anything.  The
\* others and those before begin() are only answered.
handle_message(m) ==
    \/ m.op = "SetState" /\ op_set_state(m.ns, m.state)
    \/ m.op = "Commit" /\ BeginCommit(Selected(m.filter), TRUE)
    \/ m.op = "Discard" /\ discard(Chosen(m.filter))
    \/ m.op = "FactoryReset" /\ Reset
    \/ m.op = "Reboot" /\ op_reboot

\* load_all(): every namespace whose file can be read.
Loaded(unread) ==
    [f \in Field |-> IF f[1] \in unread THEN Seed(f) ELSE load_namespace(f)]

\* begin(): registration, load_all() and apply_loaded_to_runtime().
begin(unread, refused) ==
    /\ ~up
    /\ faults + Cardinality(unread) + Cardinality(refused) <= MaxFaults
    /\ faults' = faults + Cardinality(unread) + Cardinality(refused)
    /\ \E w \in {Loaded(unread)} :
       \E set \in {{f \in Field : Stateful(f) /\ w[f] # Seed(f)}} :
        /\ refused \subseteq set
        /\ working' = w
        /\ runtime' = [f \in Field |->
                          IF f \in set \ refused THEN Cast(f, w[f]) ELSE F(f).initial]
    /\ up' = TRUE
    /\ draft' = [f \in Field |-> None]
    /\ dirty' = {}
    /\ needs_reboot' = FALSE
    /\ tmp' = [ns \in Namespace |-> None]
    /\ unapplied' = refused
    /\ escaped' = FALSE
    /\ adrift' = unread
    /\ UNCHANGED <<version, commit, file, edits>>

-----------------------------------------------------------------------------
Init ==
    /\ version = 1
    /\ up = FALSE
    /\ working = [f \in Field |-> None]
    /\ draft = [f \in Field |-> None]
    /\ runtime = [f \in Field |-> None]
    /\ dirty = {}
    /\ needs_reboot = FALSE
    /\ file = [ns \in Namespace |-> None]
    /\ tmp = [ns \in Namespace |-> None]
    /\ commit = NoCommit
    /\ faults = 0
    /\ edits = 0
    /\ unapplied = {}
    /\ escaped = FALSE
    /\ adrift = {}

Next ==
    \/ \E f \in Field, x \in Inputs : Stage(f, x) \/ DirectSet(f, x)
    \/ \E nss \in {{n} : n \in Namespace} \union {Namespace} :
            discard(nss) \/ BeginCommit(InOrder(nss), FALSE)
    \/ \E m \in Messages : handle_message(m)
    \/ CommitFields
    \/ SaveWrite
    \/ SaveRename
    \/ Reset
    \/ PowerLoss
    \/ \E refused \in SUBSET {f \in Field : Stateful(f)}, unread \in SUBSET Namespace :
            begin(unread, refused)

Spec == Init /\ [][Next]_vars

-----------------------------------------------------------------------------
\* Type invariant.
TypeOK ==
    /\ version \in 1..MaxVersion
    /\ up \in BOOLEAN /\ needs_reboot \in BOOLEAN /\ escaped \in BOOLEAN
    /\ working \in [Field -> Value \union {None}]
    /\ draft \in [Field -> Value \union {None}]
    /\ runtime \in [Field -> Value \union {None}]
    /\ dirty \subseteq Namespace /\ adrift \subseteq Namespace
    /\ unapplied \subseteq Field
    /\ faults \in 0..MaxFaults /\ edits \in 0..MaxEdits

\* The replies to GET_STATE, with drafts, and to GET_SCHEMA.
State(ns) == op_get_state(<<ns>>, TRUE).payload
Limits(ns) == op_get_schema(<<ns>>).payload[ns]

\* A field whose committed value is the one in the working map.
Committed(f) == Stateful(f) /\ (Reboots(f) \/ ~F(f).getter)

\* What a start would bring back is what the node says its settings are: for
\* every namespace whose working map was saved, the file gives back the
\* committed value of each field that is kept in the working map, and that is
\* what GET_STATE reports, whatever failed before, and whichever firmware
\* wrote the file.  The only exceptions are a file that could not be read at
\* the start and one that factory_reset() could not remove.
Durable ==
    Idle => \A ns \in Namespace \ (dirty \union adrift) :
        LET reported == State(ns).Values[ns] IN
        file[ns] # None =>
            \A f \in FieldsOf(ns) :
                Committed(f) =>
                    /\ Loaded({})[f] = working[f]
                    /\ f \in DOMAIN reported => reported[f] = working[f]

\* GET_INFO is never silently wrong about a pending restart: between
\* operations, a field that takes effect at the next start differs from the
\* running value only when the flag is up, when its setter failed, or when an
\* exception of another setter left the commit before the flag was set.
RebootIsFlagged ==
    Idle /\ ~op_get_info.payload.NeedsReboot /\ ~escaped =>
        \A f \in Field \ unapplied :
            Reboots(f) => runtime[f] = Cast(f, working[f])

\* A client that shows the drafts can trust them: each fits the schema it was
\* given, a draft of a readable field that takes effect at the next start is
\* a change to the reported value, and draft_has_reboot() is true only when
\* some draft changes a committed value.
DraftIsPending ==
    /\ TypeOK
    /\ up => /\ \A ns \in Namespace : LET s == State(ns) IN
                    ns \in DOMAIN s.Drafts => \A f \in DOMAIN s.Drafts[ns] :
                        /\ s.Drafts[ns][f].type = Limits(ns)[f].type
                        /\ s.Drafts[ns][f].v \in Limits(ns)[f].fits
                        /\ "READ_ONLY" \notin Limits(ns)[f].flags
                        /\ Reboots(f) /\ f \in DOMAIN s.Values[ns] =>
                               s.Drafts[ns][f] # s.Values[ns][f]
             /\ draft_has_reboot => \E f \in Field : draft[f] \notin {None, working[f]}

\* A start gives each field a value that was stored for it, or its default
\* ("Type mismatch - skip but don't fail the whole file", Codec.cpp:235).
LoadedAsStored ==
    [][~up /\ up' => \A f \in Field :
            \/ working'[f] = Seed(f)
            \/ \E i \in 1..Len(file[f[1]]) :
                  file[f[1]][i] = [id |-> f[2], x |-> working'[f]]]_vars

\* A power loss in the middle of a save leaves the previous file
\* (Storage.h:24-25).
PowerLossKeepsFile ==
    [][up /\ ~up' /\ commit.step \in {"rename", "again"} =>
            file'[Ns] # None \/ tmp[Ns] = None]_vars

-----------------------------------------------------------------------------
(* The inductive invariant behind these.                                    *)

\* The file contents c give back every such field of ns.
GivesBack(c, ns) == \A f \in FieldsOf(ns) : Committed(f) => Unpacked(c, f) = working[f]

Saving == commit.step \in {"write", "rename", "again"}

\* What a commit is, under way or not.
Form(c) ==
    c \in [todo : {c.todo}, step : {"idle", "fields", "write", "rename", "again"},
          wire : BOOLEAN, reboot : BOOLEAN]

\* The shape of the commit and of the files.
Shape ==
    /\ Form(commit)
    /\ commit.step # "idle" => up
    /\ Saving => Ns \in Namespace
    /\ DOMAIN file = Namespace /\ DOMAIN tmp = Namespace
    /\ \A ns \in Namespace : file[ns] # None => Len(file[ns]) \in Nat

\* Every field has a value of its type, and a committed one that is valid.
Valued ==
    up => \A f \in Field :
        /\ working[f] \in Value /\ working[f].type = F(f).type
        /\ runtime[f] \in Value /\ runtime[f].type = F(f).type
        /\ Stateful(f) => validate(f, working[f])

\* A draft is valid, and a change where it is compared with the working map.
Pending ==
    up => \A f \in Field : draft[f] # None =>
        /\ validate(f, draft[f])
        /\ ~Has(f, "READ_ONLY")
        /\ Reboots(f) => draft[f] # working[f]

\* A clean namespace has a file that gives it back, and so has the .tmp file
\* that is about to be renamed.
Stored ==
    up => /\ \A ns \in Namespace \ (dirty \union adrift) :
                file[ns] # None => GivesBack(file[ns], ns)
          /\ commit.step \in {"rename", "again"} =>
                Len(tmp[Ns]) \in Nat /\ GivesBack(tmp[Ns], Ns)

\* A change that waits for a restart is in the flag, or on its way to it.
Flagged ==
    up /\ ~needs_reboot /\ ~escaped /\ ~commit.reboot =>
        \A f \in Field \ unapplied :
            Reboots(f) => runtime[f] = Cast(f, working[f])

SettingsInv == TypeOK /\ Shape /\ Valued /\ Pending /\ Stored /\ Flagged
=============================================================================
