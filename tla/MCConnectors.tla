----------------------------- MODULE MCConnectors -----------------------------
(* Small instances of Connectors for TLC: a Spark connector, a package     *)
(* of two Flink connectors, and another version of one of them whose        *)
(* runtime is not supported.                                                *)
EXTENDS Connectors, TLC

CONSTANTS jdbc, kafka, s3, v1, v2

Package(n, v, rt, cs) == [name |-> n, version |-> v, runtime |-> rt, connectors |-> cs]

ThreePackages == {Package("jdbc", v1, "spark", <<jdbc>>),
                 Package("streams", v1, "flink", <<s3, kafka>>),
                 Package("kafka", v2, "other", <<kafka>>)}

\* Datasets are interchangeable, and so are instance ids.
ConnectorSymmetry == Permutations(Datasets) \cup Permutations(InstanceIds)

\* No failure, and every failure alone.
EachFault == {{f} : f \in AllFaults} \cup {{}}

=============================================================================
