-------------------------- MODULE MCConformanceCache --------------------------
EXTENDS ConformanceCache, TLC

\* box is an instance of a generic type, sub a class with the superclass base,
\* and objc a class without a descriptor.
MCType == {"box", "sub", "base", "objc"}
MCChain ==
  [box |-> <<"box">>, sub |-> <<"sub", "base">>, base |-> <<"base">>, objc |-> <<"objc">>]
MCDescriptor == [box |-> "Box", sub |-> "Sub", base |-> "Base", objc |-> Null]

\* Two sections, with records of descriptors and of metadata, some of which
\* give no table.
Section1 ==
  <<ClassRecord("base", "baseTable"), NominalRecord("Box", "Future", "boxTable"), ClassRecord("objc", Null)>>
Section2 ==
  <<NominalRecord("Box", "WitnessTableAccessor", "boxTable"), NominalRecord("Base", "WitnessTable", "baseTable")>>
MCSection == {Section1, Section2}
symmetry == Permutations(Thread)
==============================================================================
