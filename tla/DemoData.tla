------------------------------ MODULE DemoData ------------------------------
(***************************************************************************)
(* src/tools/generate_demo_data.py: builds instances with distinct random *)
(* addresses, one disk per instance, a deployment per web or database      *)
(* instance, and prints them as Go literals.                               *)
(*                                                                         *)
(* random.randint is a nondeterministic choice from an address pool.  A    *)
(* draw of an address already used is retried by the while loop and       *)
(* leaves the state as it was, so it is a stuttering step; the loop ends   *)
(* with a draw of an unused address.  Addresses are model values; loads, *)
(* names and the Go text around the values are left out.  An object id is *)
(* the argument of a utils.ObjectIdHex call: a literal id, or a literal   *)
(* prefix and the hex digits of an index.                                  *)
(***************************************************************************)
EXTENDS Naturals, Sequences, FiniteSets

CONSTANTS
    Count,          \* generate_instances(count)
    InstanceTypes,  \* the instance_types list, before [:count]
    NodeIds,        \* NODE_IDS (NODE_NAMES has the same length)
    ImageIds,       \* IMAGE_IDS
    PrivPool,       \* what generate_ip() can return
    PubPool,        \* what generate_pub_ip() can return
    HostPool        \* what generate_pub_ip("198.18.84") can return

(* get_instance_spec: the table of instance types.                         *)
Specs ==
    [t \in {"web", "database", "search", "vpn"} |->
        CASE t = "web"      -> [shape |-> "small", memory |-> 2048, disk |-> 20]
          [] t = "database" -> [shape |-> "large", memory |-> 8192, disk |-> 100]
          [] t = "search"   -> [shape |-> "large", memory |-> 8192, disk |-> 200]
          [] t = "vpn"      -> [shape |-> "small", memory |-> 2048, disk |-> 20]]

(* UNIT_IDS and SPEC_IDS are keyed by these types only.                    *)
UnitTypes == {"web", "database"}
UnitIds == [t \in UnitTypes |->
              IF t = "web" THEN "688c716d9da165ffad4b3682"
                           ELSE "68b67d1aee12c08a1f39f88b"]
SpecIds == [t \in UnitTypes |->
              IF t = "web" THEN "688c7cde9da165ffad4b52e4"
                           ELSE "688c7cde9da165ffad4b34f2"]
PodId == "688bf358d978631566998ffc"
OrganizationId == "5a3245a50accad1a8a53bc82"
DatacenterId == "689733b7a7a35eae0dbaea1b"
ZoneId == "689733b7a7a35eae0dbaea1e"
VpcId == "689733b7a7a35eae0dbaea23"
ShapeIds == [small |-> "65e6e303ceeebbb3dabaec96",
             medium |-> "65e6e2ecceeebbb3dabaec79",
             large |-> "66f63282aac06d53e8c9c435"]

(* The hex digits of n, most significant first, as format(n, "x").        *)
RECURSIVE HexDigits(_)
HexDigits(n) == IF n < 16 THEN <<n>> ELSE HexDigits(n \div 16) \o <<n % 16>>

(* Mutant of Hex02: "{i:x}", no zero padding.                              *)
Hex02NoPad(i) == HexDigits(i)

(* "{i:02x}": the hex digits of i, padded with zeros to at least two.      *)
Hex02(i) == LET h == HexDigits(i) IN
            IF Len(h) < 2 THEN [k \in 1..2 - Len(h) |-> 0] \o h ELSE h

(* The id prefixes of instances, disks and deployments, and an id of each *)
(* kind: the prefix followed by "{i:02x}".                                 *)
InstancePrefix == "651d8e7c4cf9e2e3e4d56a"
DiskPrefix == "651d8e7c4cf9e2e3e4d34f"
DeploymentPrefix == "651d8e7c4cf91e3b53d62d"
ObjectId(prefix, i) == [prefix |-> prefix, digits |-> Hex02(i)]
Literal(id) == [prefix |-> id, digits |-> <<>>]

VARIABLES
    phase,          \* where main() is
    draw,           \* the addresses drawn so far for instance i
    used,           \* used_priv_ips, used_pub_ips, used_host_ips
    instances,      \* the instances list
    disks,
    deployments,
    out             \* the Go literals printed so far, by list

vars == <<phase, draw, used, instances, disks, deployments, out>>

Init ==
    /\ phase = "priv"
    /\ draw = <<>>
    /\ used = [priv |-> {}, pub |-> {}, host |-> {}]
    /\ instances = <<>>
    /\ disks = <<>>
    /\ deployments = <<>>
    /\ out = [instances |-> <<>>, disks |-> <<>>, deployments |-> <<>>]

(* generate_ip(), generate_pub_ip() and generate_pub_ip("198.18.84"): the *)
(* addresses each draw can return, by the field it fills.                  *)
Pool == [priv |-> PrivPool, pub |-> PubPool, host |-> HostPool]

(* The order of the three draws of an iteration.                          *)
AfterDraw == [priv |-> "pub", pub |-> "host", host |-> "build"]

(* Mutant of DrawAddress: the used_*_ips.add(...) after the loop is       *)
(* missing.                                                                *)
DrawAddressNoAdd ==
    /\ phase \in {"priv", "pub", "host"}
    /\ \E ip \in Pool[phase] \ used[phase] : draw' = Append(draw, ip)
    /\ phase' = AfterDraw[phase]
    /\ UNCHANGED <<used, instances, disks, deployments, out>>

(* priv_ip = generate_ip(); while priv_ip in used_priv_ips: priv_ip =     *)
(* generate_ip(); used_priv_ips.add(priv_ip).  The same for pub_ip and    *)
(* host_ip.  A draw of a used address is retried and leaves the state as  *)
(* it was, so the step is the draw the loop ends with.                     *)
DrawAddress ==
    /\ phase \in {"priv", "pub", "host"}
    /\ \E ip \in Pool[phase] \ used[phase] :
           /\ draw' = Append(draw, ip)
           /\ used' = [used EXCEPT ![phase] = @ \cup {ip}]
    /\ phase' = AfterDraw[phase]
    /\ UNCHANGED <<instances, disks, deployments, out>>

(* The rest of an iteration: instance_types[i] (an IndexError past the    *)
(* end of the list), the spec, the node and image by i modulo their       *)
(* lengths, and instances.append; then the next i or the end of the loop. *)
BuildInstance ==
    /\ phase = "build"
    /\ LET i == Len(instances) IN
       IF i >= Len(InstanceTypes)
       THEN /\ phase' = "index_error"
            /\ UNCHANGED <<draw, instances>>
       ELSE LET t == InstanceTypes[i + 1] IN
            /\ instances' = Append(instances,
                   [id |-> ObjectId(InstancePrefix, i),
                    type |-> t, priv |-> draw[1], pub |-> draw[2],
                    host |-> draw[3],
                    node |-> NodeIds[(i % Len(NodeIds)) + 1],
                    image |-> ImageIds[(i % Len(ImageIds)) + 1],
                    shape |-> Specs[t].shape,
                    disk |-> Specs[t].disk, memory |-> Specs[t].memory])
            /\ draw' = <<>>
            /\ phase' = IF i + 1 < Count THEN "priv" ELSE "disks"
    /\ UNCHANGED <<used, disks, deployments, out>>

(* generate_disks: one attached disk per instance, copied from it.         *)
GenerateDisks ==
    /\ phase = "disks"
    /\ disks' = [j \in DOMAIN instances |->
                    [id |-> ObjectId(DiskPrefix, j - 1),
                     instance |-> instances[j].id, node |-> instances[j].node,
                     image |-> instances[j].image,
                     size |-> instances[j].disk]]
    /\ phase' = "deployments"
    /\ UNCHANGED <<draw, used, instances, deployments, out>>

(* Mutant of IsDeployed: the filter forgets the search type.               *)
IsDeployedNotVpn(inst) == inst.type # "vpn"

IsDeployed(inst) == inst.type = "web" \/ inst.type = "database"

(* generate_deployments: skip what is neither web nor database.            *)
GenerateDeployments ==
    /\ phase = "deployments"
    /\ LET js == {j \in DOMAIN instances : IsDeployed(instances[j])}
           order == [k \in 1..Cardinality(js) |->
                        CHOOSE j \in js :
                            Cardinality({m \in js : m <= j}) = k]
       IN deployments' = [k \in DOMAIN order |->
                            [id |-> ObjectId(DeploymentPrefix, order[k] - 1),
                             instance |-> instances[order[k]].id,
                             type |-> instances[order[k]].type,
                             node |-> instances[order[k]].node]]
    /\ phase' = "print_instances"
    /\ UNCHANGED <<draw, used, instances, disks, out>>

(* The ObjectIdHex arguments of format_go_instance, format_go_disk and   *)
(* format_go_deployment; the last looks the type up in UNIT_IDS and       *)
(* SPEC_IDS.                                                               *)
GoInstance(inst) ==
    [Id |-> inst.id, Organization |-> Literal(OrganizationId),
     Datacenter |-> Literal(DatacenterId), Zone |-> Literal(ZoneId),
     Vpc |-> Literal(VpcId), Image |-> Literal(inst.image),
     Node |-> Literal(inst.node), Shape |-> Literal(ShapeIds[inst.shape])]
GoDisk(d) ==
    [Id |-> d.id, Datacenter |-> Literal(DatacenterId),
     Zone |-> Literal(ZoneId), Node |-> Literal(d.node),
     Organization |-> Literal(OrganizationId), Instance |-> d.instance,
     Image |-> Literal(d.image)]
GoDeployment(dep) ==
    [Id |-> dep.id, Pod |-> Literal(PodId), Unit |-> Literal(UnitIds[dep.type]),
     Spec |-> Literal(SpecIds[dep.type]), Node |-> Literal(dep.node),
     Instance |-> dep.instance]

(* main(): for each instance, print(format_go_instance(instance)).         *)
PrintInstance ==
    /\ phase = "print_instances"
    /\ LET k == Len(out.instances) + 1 IN
       IF k <= Len(instances)
       THEN out' = [out EXCEPT !.instances = Append(@, GoInstance(instances[k]))]
            /\ UNCHANGED phase
       ELSE phase' = "print_disks" /\ UNCHANGED out
    /\ UNCHANGED <<draw, used, instances, disks, deployments>>

(* The same for the disks.                                                 *)
PrintDisk ==
    /\ phase = "print_disks"
    /\ LET k == Len(out.disks) + 1 IN
       IF k <= Len(disks)
       THEN out' = [out EXCEPT !.disks = Append(@, GoDisk(disks[k]))]
            /\ UNCHANGED phase
       ELSE phase' = "print_deployments" /\ UNCHANGED out
    /\ UNCHANGED <<draw, used, instances, disks, deployments>>

(* The same for the deployments: a type UNIT_IDS does not know raises     *)
(* KeyError, after the lists before it were printed.                       *)
PrintDeployment ==
    /\ phase = "print_deployments"
    /\ LET k == Len(out.deployments) + 1 IN
       IF k > Len(deployments)
       THEN phase' = "done" /\ UNCHANGED out
       ELSE IF deployments[k].type \notin UnitTypes
       THEN phase' = "key_error" /\ UNCHANGED out
       ELSE out' = [out EXCEPT !.deployments = Append(@, GoDeployment(deployments[k]))]
            /\ UNCHANGED phase
    /\ UNCHANGED <<draw, used, instances, disks, deployments>>

Done == phase \in {"done", "index_error", "key_error"} /\ UNCHANGED vars

Next ==
    DrawAddress \/ BuildInstance \/ GenerateDisks \/ GenerateDeployments
    \/ PrintInstance \/ PrintDisk \/ PrintDeployment \/ Done

Spec == Init /\ [][Next]_vars

-----------------------------------------------------------------------------

TypeOK ==
    /\ phase \in {"priv", "pub", "host", "build", "disks", "deployments",
                  "print_instances", "print_disks", "print_deployments", "done", "index_error", "key_error"}
    /\ Len(draw) <= 3
    /\ Len(instances) <= Count
    /\ Len(disks) <= Count /\ Len(deployments) <= Count

(* No two instances share a private, public or host address: each draw   *)
(* is retried against the used_*_ips set, which must have been given every *)
(* address an earlier iteration kept.                                      *)
UniqueAddresses ==
    \A j, k \in DOMAIN instances : j # k =>
        /\ instances[j].priv # instances[k].priv
        /\ instances[j].pub # instances[k].pub
        /\ instances[j].host # instances[k].host

(* main() runs to the end: instance_types covers every index below count, *)
(* and generate_deployments keeps only the types UNIT_IDS and SPEC_IDS    *)
(* know, so format_go_deployment raises no KeyError.                      *)
NoCrash == phase \notin {"index_error", "key_error"}

(* An id ObjectIdHex accepts: 24 hex digits.                              *)
ValidId(x) ==
    /\ Len(x.prefix) + Len(x.digits) = 24
    /\ \A k \in DOMAIN x.digits : x.digits[k] < 16

(* Every utils.ObjectIdHex the printed Go code calls gets a 24-digit hex *)
(* id, so the Go package loads: the "{i:02x}" suffix of a generated id    *)
(* has exactly two digits (it would have three from i = 256 on, one       *)
(* without the padding); no two printed instances, disks or deployments   *)
(* share an id; and every disk and deployment names the id of an instance *)
(* printed before it, on the node that instance is on.                     *)
ObjectIdsValid ==
    LET lists == {out.instances, out.disks, out.deployments}
        byId == {out.instances[k].Id : k \in DOMAIN out.instances}
    IN  /\ \A l \in lists : \A k \in DOMAIN l :
               \A f \in DOMAIN l[k] : ValidId(l[k][f])
        /\ \A l \in lists : \A j, k \in DOMAIN l : j # k => l[j].Id # l[k].Id
        /\ \A l \in {out.disks, out.deployments} : \A k \in DOMAIN l :
               \E j \in DOMAIN out.instances :
                   out.instances[j].Id = l[k].Instance /\ out.instances[j].Node = l[k].Node

=============================================================================
