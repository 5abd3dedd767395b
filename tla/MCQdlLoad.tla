----------------------------- MODULE MCQdlLoad -----------------------------
(***************************************************************************)
(* Every command line of one or two of the files below, with and without   *)
(* --finalize-provisioning.                                                *)
(***************************************************************************)
EXTENDS QdlLoad

E(kind, lacks) == [kind |-> kind, lacks |-> lacks, lock |-> FALSE]
Good(kind) == E(kind, "nothing")
Locked == [Good("common") EXCEPT !.lock = TRUE]
Data(elements) == [root |-> "data", elements |-> elements]

Flashes ==
    {Data(<<Good("program"), Good("other"), Good("program")>>),
     Data(<<E("program", "flag"), Good("program")>>),
     Data(<<Good("program"), E("program", "string")>>),
     Data(<<Good("program"), Good("unit")>>),
     [root |-> "patches",
      elements |-> <<Good("patch"), Good("program"), Good("patch")>>],
     [root |-> "patches", elements |-> <<Good("patch"), E("patch", "number")>>]}

Provisions ==
    {Data(<<Good("common"), Good("unit"), Good("unit"), Good("commit")>>),
     Data(<<Good("other"), Good("commit"), Good("unit"), Locked>>),
     Data(<<Good("common"), Good("unit")>>),
     Data(<<Good("commit")>>),
     Data(<<Good("common"), Good("unit"), Good("common"), Good("commit")>>),
     Data(<<Good("common"), Good("unit"), Good("commit"), Good("commit")>>),
     Data(<<E("common", "number"), Good("unit"), Good("commit")>>),
     Data(<<Good("common"), E("unit", "number"), Good("commit")>>),
     Data(<<Good("common"), E("unit", "string"), Good("commit")>>),
     Data(<<Good("common"), Good("unit"), E("commit", "number")>>),
     Data(<<Good("common"), Good("unit"), Good("ufs"), Good("commit")>>),
     Data(<<Good("common"), Good("unit"), Good("program"), Good("commit")>>)}

Others ==
    {Data(<<>>), [root |-> "contents", elements |-> <<>>],
     [root |-> "other", elements |-> <<Good("program")>>]}

MCFiles == Flashes \cup Provisions \cup Others

MCCommandLines ==
    [finalize : BOOLEAN,
     files : {<<f>> : f \in MCFiles} \cup (MCFiles \X MCFiles)]
=============================================================================
