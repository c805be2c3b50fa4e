------------------------------ MODULE MCServer ------------------------------
(* Instances of Server for TLC: users, deliveries and health checks are     *)
(* interchangeable.  The confidences are those at which a provider changes  *)
(* its mind, and the deployments one with a provider missing and two others.*)
(* The texts are valid, in two orders, short, of an unknown type, with a name *)
(* twice, without a name, and no schema at all.                             *)
EXTENDS Server, TLC

AllDeployments == {{}, {"onfido", "trulioo"}, Providers}

Field(type, name) == [type |-> type, name |-> name]
Text(fields) == [fields |-> fields, named |-> TRUE]
SomeTexts ==
    {Text(<<Field("bool", "a"), Field("string", "b")>>),
     Text(<<Field("string", "b"), Field("bool", "a")>>),
     Text(<<Field("bool", "a")>>),
     Text(<<Field("bool", "a"), Field("uint8", "b")>>),
     Text(<<Field("bool", "a"), Field("string", "a")>>),
     [fields |-> <<Field("bool", "a")>>, named |-> FALSE],
     Text(<<Malformed>>)}

Result(status, confidence) == [status |-> status, confidence |-> confidence]
SomeInputs ==
    {<<>>, <<Result("expired", 59)>>,
     <<Result("completed", 90), Result("failed", 60), Result("completed", 80)>>,
     <<Result("processing", 79), Result("completed", 89), Result("failed", 59),
       Result("completed", 90), Result("completed", 60)>>}
=============================================================================
