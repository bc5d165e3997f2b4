------------------------- MODULE ProvisioningSchema -------------------------
(***************************************************************************)
(* What a node declares about its settings: the registration calls of the  *)
(* application and of the library (BuiltinNamespaces.cpp) and the registry *)
(* they build (NamespaceBuilder.cpp, Registry.cpp).                        *)
(*                                                                         *)
(* A value is its type and a number: the number itself, the length of a    *)
(* string or of bytes, the number of elements of a list (elements are of   *)
(* the declared size), 0 or 1 for a Boolean.                               *)
(***************************************************************************)
EXTENDS Integers, FiniteSets, Sequences, SequencesExt, FiniteSetsExt

MaxNumber == 99999
Numbers == 0..MaxNumber

\* The range of a uint16_t, which fid_t is.
UINT16 == 65536

Value == [type : {"Bool", "Int", "Float", "String", "Bytes", "Enum", "BytesList", "Void"},
          v : Numbers]

Val(type, v) == [type |-> type, v |-> v]

-----------------------------------------------------------------------------
(* The calls of NamespaceBuilder.  A field has the values it accepts        *)
(* (`fits`), and what its setter and the static behind it do: the static    *)
(* starts with `initial` and keeps a value modulo `width`.                  *)

register_namespace(name, id) == [call |-> "namespace", name |-> name, id |-> id]
end == [call |-> "end"]

Declaration(name, id, flags, type, default, fits, getter) ==
    [call |-> "field",
     field |-> [id |-> id, name |-> name, type |-> type, flags |-> flags,
                default |-> Val(type, default), initial |-> Val(type, default),
                fits |-> fits, width |-> 100000, getter |-> getter]]

\* A setter that passes the value on as a uint16_t.
Narrow(c) == [c EXCEPT !.field.width = UINT16]

\* A limit of 0 is no limit.
UpTo(n) == IF n = 0 THEN Numbers ELSE 0..n

field_bool(name, id, flags, default, getter) ==
    Declaration(name, id, flags, "Bool", default, 0..1, getter)

field_int(name, id, flags, default, imin, imax, getter) ==
    Declaration(name, id, flags, "Int", default, imin..imax, getter)

\* The overload without a range.
field_int_any(name, id, flags, default, getter) ==
    Declaration(name, id, flags, "Int", default, Numbers, getter)

field_float(name, id, flags, default, fmin, fmax, getter) ==
    Declaration(name, id, flags, "Float", default, fmin..fmax, getter)

field_string(name, id, flags, default, max_len, getter) ==
    Declaration(name, id, flags, "String", default, UpTo(max_len), getter)

field_bytes(name, id, flags, default, max_len, getter) ==
    Declaration(name, id, flags, "Bytes", default, UpTo(max_len), getter)

field_bytes_list(name, id, flags, default, max_count, getter) ==
    Declaration(name, id, flags, "BytesList", default, UpTo(max_count), getter)

field_enum(name, id, flags, default, values, getter) ==
    Declaration(name, id, flags, "Enum", default, IF values = {} THEN Numbers ELSE values, getter)

metric_int(name, id) == field_int_any(name, id, {"READ_ONLY"}, 0, TRUE)
metric_bytes(name, id) == field_bytes(name, id, {"READ_ONLY"}, 0, 0, TRUE)
command_int(name, id, imin, imax) == field_int(name, id, {"WRITE_ONLY"}, 0, imin, imax, FALSE)
command_void(name, id) == Declaration(name, id, {"WRITE_ONLY"}, "Void", 0, Numbers, FALSE)

-----------------------------------------------------------------------------
(* The registry: namespaces in the order of their registration, and the     *)
(* stack of the ones that are open.  0 is the id of no namespace.           *)

Empty == [nss |-> <<>>, scope |-> <<>>]

Ids(b) == {b.nss[i].id : i \in DOMAIN b.nss}

\* Registry::find(), by id and by name; only roots are found by name.
find(b, id) == CHOOSE i \in DOMAIN b.nss : b.nss[i].id = id
Roots(b, name) == {i \in DOMAIN b.nss : b.nss[i].name = name /\ b.nss[i].parent = 0}

\* The namespace `id` and the ones above it.
Above(b, id) ==
    LET up[n \in 0..Len(b.nss)] ==
            IF n = 0 THEN {id}
            ELSE up[n - 1] \union {b.nss[find(b, x)].parent : x \in up[n - 1] \intersect Ids(b)}
    IN up[Len(b.nss)] \ {0}

\* Registry::add_namespace() refuses.
Refused(b, name, id, parent) ==
    \/ id \in Ids(b)
    \/ parent = 0 /\ Roots(b, name) # {}
    \/ parent # 0 /\ (id \in Above(b, parent) \/ ~(Above(b, parent) \subseteq Ids(b)))

\* Provisioner::register_namespace(): one that is refused is another name for
\* the one that is there.
Opened(b, name, id) ==
    LET parent == IF b.scope = <<>> THEN 0 ELSE Last(b.scope) IN
    IF ~Refused(b, name, id, parent)
    THEN [nss |-> Append(b.nss, [id |-> id, name |-> name, parent |-> parent, fields |-> <<>>]),
          scope |-> Append(b.scope, id)]
    ELSE IF id \in Ids(b) THEN [b EXCEPT !.scope = Append(@, id)]
    ELSE IF Roots(b, name) # {}
    THEN [b EXCEPT !.scope = Append(@, b.nss[CHOOSE i \in Roots(b, name) : TRUE].id)]
    ELSE b

\* Namespace::add_field(): an id or a name that is taken is refused.
add_field(fields, f) ==
    IF \E i \in DOMAIN fields : fields[i].id = f.id \/ fields[i].name = f.name
    THEN fields ELSE Append(fields, f)

\* scope(): a field outside every namespace is dropped with a warning.
Declared(b, f) ==
    IF b.scope = <<>> THEN b
    ELSE [b EXCEPT !.nss[find(b, Last(b.scope))].fields = add_field(@, f)]

Call(b, c) ==
    CASE c.call = "namespace" -> Opened(b, c.name, c.id)
      [] c.call = "field" -> Declared(b, c.field)
      [] c.call = "end" -> [b EXCEPT !.scope = IF @ = <<>> THEN @ ELSE Front(@)]

Calls(b, cs) == FoldLeft(Call, b, cs)

-----------------------------------------------------------------------------
(* The namespaces of the library and their ids (Ids.h).                     *)

NsGeneralConfig ==
    [Id |-> 1, TransportEnabled |-> 1, LinkMtuDiscovery |-> 2, RemoteManagementEnabled |-> 3,
     ProbeDestinationEnabled |-> 4, PersistInterval |-> 6, CleanInterval |-> 7,
     RemoteManagementAllowed |-> 8, TransportIdentity |-> 9, ClearStorage |-> 100]

NsTransportConfig ==
    [Id |-> 2, PathTableMaxsize |-> 1, AnnounceTableMaxsize |-> 2, HashlistMaxsize |-> 3,
     MaxPrTags |-> 4, KnownDestinationsMaxsize |-> 6, ClearStorage |-> 100]

NsStorage ==
    [Id |-> 59, Paths |-> 1, Destinations |-> 2, Announces |-> 3, HeldAnnounces |-> 4,
     PathRequests |-> 5, DiscoveryPathRequests |-> 6, PendingLocalPathRequests |-> 7,
     DiscoveryPrTags |-> 8, ControlDestinations |-> 9, ControlHashes |-> 10,
     PacketHashes |-> 11, ReverseHashes |-> 12, Receipts |-> 13, Links |-> 14,
     PendingLinks |-> 15, ActiveLinks |-> 16, Tunnels |-> 17, KnownDestinations |-> 18,
     DestinationPathResponses |-> 19, QueuedAnnounces |-> 20]

NsInfo ==
    [Id |-> 60,
     Addresses |-> [Id |-> 61, TransportIdentity |-> 1, ProbeDestination |-> 2,
                    MgmtDestination |-> 3],
     Metrics |-> [Id |-> 62, PacketsSent |-> 1, PacketsReceived |-> 2, AnnouncesReceived |-> 4,
                  PathRequestsReceived |-> 6, PathsAdded |-> 7, PathsUpdated |-> 8,
                  PathsFailed |-> 9, PathsUnresponsive |-> 10, PathsResponsive |-> 11,
                  PathsUnknown |-> 12, ProbesReceived |-> 13, ProbesSent |-> 14,
                  ProbesSkipped |-> 15, ProbesFailed |-> 16]]

NsMemory ==
    [Id |-> 50,
     Heap |-> [Id |-> 51, Size |-> 1, Free |-> 2, FreePct |-> 3],
     Flash |-> [Id |-> 53, Size |-> 1, Free |-> 2, FreePct |-> 3]]

NsAllocator ==
    [Id |-> 54,
     HeapPool |-> [Id |-> 55, Size |-> 1, Free |-> 2, FreePct |-> 3, Fragmented |-> 4],
     DefaultAllocator |-> [Id |-> 57, Active |-> 1],
     ContainerAllocator |-> [Id |-> 58, Active |-> 1]]

\* The metrics of a namespace, in the order of their ids.
Metrics(ns, type) ==
    LET names == DOMAIN ns \ {"Id"}
        before(n) == Cardinality({m \in names : ns[m] < ns[n]})
    IN [i \in 1..Cardinality(names) |->
            LET n == CHOOSE x \in names : before(x) = i - 1 IN
            IF type = "Int" THEN metric_int(n, ns[n]) ELSE metric_bytes(n, ns[n])]

GeneralConfig ==
    LET id == NsGeneralConfig
        toggle(name, default) ==
            field_bool(name, id[name], {"REBOOT_REQUIRED"}, default, TRUE)
    IN  <<register_namespace("General Config", id.Id),
          toggle("TransportEnabled", 0), toggle("LinkMtuDiscovery", 1),
          toggle("RemoteManagementEnabled", 0), toggle("ProbeDestinationEnabled", 0),
          Narrow(field_int("PersistInterval", id.PersistInterval, {"LIVE_APPLY"},
                           60 * 60, 30, 86400, TRUE)),
          Narrow(field_int("CleanInterval", id.CleanInterval, {"LIVE_APPLY"},
                           60 * 15, 60, 86400, TRUE)),
          field_bytes("TransportIdentity", id.TransportIdentity,
                      {"REBOOT_REQUIRED", "SECRET"}, 0, 64, TRUE),
          field_bytes_list("RemoteManagementAllowed", id.RemoteManagementAllowed,
                           {"REBOOT_REQUIRED"}, 0, 32, TRUE),
          command_void("ClearStorage", id.ClearStorage),
          end>>

TransportConfig ==
    LET id == NsTransportConfig
        size(name, default) ==
            Narrow(field_int(name, id[name], {"LIVE_APPLY"}, default, 1, 65535, TRUE))
    IN  <<register_namespace("Transport Config", id.Id),
          size("PathTableMaxsize", 100), size("AnnounceTableMaxsize", 100),
          size("HashlistMaxsize", 100), size("MaxPrTags", 32),
          size("KnownDestinationsMaxsize", 100),
          command_void("ClearStorage", id.ClearStorage),
          end>>

StorageMetrics ==
    <<register_namespace("Storage", NsStorage.Id)>> \o Metrics(NsStorage, "Int") \o <<end>>

Info ==
    <<register_namespace("Info", NsInfo.Id),
      register_namespace("Addresses", NsInfo.Addresses.Id)>>
    \o Metrics(NsInfo.Addresses, "Bytes")
    \o <<end, register_namespace("Metrics", NsInfo.Metrics.Id)>>
    \o Metrics(NsInfo.Metrics, "Int") \o <<end, end>>

\* The build without the parts of one board or another.
Memory ==
    <<register_namespace("Memory", NsMemory.Id), register_namespace("Heap", NsMemory.Heap.Id)>>
    \o Metrics(NsMemory.Heap, "Int")
    \o <<end, register_namespace("Flash", NsMemory.Flash.Id)>>
    \o Metrics(NsMemory.Flash, "Int") \o <<end, end>>

Allocator ==
    LET child(name) == <<register_namespace(name, NsAllocator[name].Id)>>
                       \o Metrics(NsAllocator[name], "Int") \o <<end>>
    IN <<register_namespace("Allocator", NsAllocator.Id)>> \o child("HeapPool")
       \o child("DefaultAllocator") \o child("ContainerAllocator") \o <<end>>

\* A namespace whose id is there already is left as it is.
register_builtin_namespaces(b) ==
    FoldLeft(LAMBDA r, cs : IF cs[1].id \in Ids(r) THEN r ELSE Calls(r, cs), b,
             <<GeneralConfig, TransportConfig, StorageMetrics, Info, Memory, Allocator>>)

\* The registry after the calls of the application and begin(), which closes
\* what was left open.
Registered(app) ==
    [register_builtin_namespaces(Calls(Empty, app)) EXCEPT !.scope = <<>>]

\* The registry is a forest with one namespace for each id and one field for
\* each id in it, every default that is ever applied is a value the field
\* accepts, and a second registration of the library's namespaces changes
\* nothing.
Sound(b) ==
    /\ \A i, j \in DOMAIN b.nss : b.nss[i].id = b.nss[j].id => i = j
    /\ \A i \in DOMAIN b.nss :
          /\ b.nss[i].parent \in {0} \union {b.nss[j].id : j \in 1..(i - 1)}
          /\ \A m, n \in DOMAIN b.nss[i].fields :
                b.nss[i].fields[m].id = b.nss[i].fields[n].id => m = n
          /\ \A m \in DOMAIN b.nss[i].fields : LET f == b.nss[i].fields[m] IN
                "WRITE_ONLY" \notin f.flags => f.default.v \in f.fits
    /\ register_builtin_namespaces(b) = b
=============================================================================
