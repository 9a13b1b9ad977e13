------------------------------ MODULE DataProofs ------------------------------
(***************************************************************************)
(* Theorems about the data around the gates: the content of an argument,   *)
(* for lists of every length and any formats, the provenance of values,    *)
(* for any tools and chains of transformations of every length, and the    *)
(* descriptions of the action pool, for any pool.                          *)
(***************************************************************************)
EXTENDS ListArguments, Provenance, Descriptors, TLAPS

-----------------------------------------------------------------------------
(***************************************************************************)
(* The content of an argument                                              *)
(***************************************************************************)


\* What the stages already passed have established of the three inputs.
ArgInv ==
  /\ format \in DeclaredFormats /\ profile \in PythonValues /\ argument \in PythonValues
  /\ stage \in {"generate", "static", "data", "done"}
  /\ stage = "generate" => verdict = "open"
  /\ stage = "static" => verdict = "open" /\ kept = MatchesFormat(profile, format)
  /\ stage = "data" =>
       /\ verdict = "open" /\ kept = MatchesFormat(profile, format)
       /\ MatchesFormat(argument, format)
  /\ DataGateNeverRaises
  /\ SetAbstractionExact

\* A value that passes a declared format is None or made of atoms only.
LEMMA PassingIsPlain ==
  ASSUME NEW f \in DeclaredFormats, NEW v \in PythonValues, MatchesFormat(v, f)
  PROVE  v.kind = "none" \/ (EntriesOf(v) \subseteq FormatValidators[f] /\ EntriesOf(v) \subseteq Atoms)
<1>1. f \in DOMAIN FormatValidators
  BY KnownFormats
<1>2. FormatValidators[f] \subseteq Atoms
  BY <1>1, FormatAssumption
<1> QED  BY <1>1, <1>2 DEF MatchesFormat, EntriesOf

\* The shape of a value by its kind.
LEMMA ValueShape ==
  ASSUME NEW v \in PythonValues
  PROVE  /\ v.kind \in {"none", "scalar", "list"}
         /\ v.kind = "none" => v.entries = <<NoneEntry>> /\ EntriesOf(v) = {NoneEntry}
         /\ v.kind = "scalar" =>
              \E e \in Atoms \cup Unhashables : v.entries = <<e>> /\ EntriesOf(v) = {e}
         /\ v.kind = "list" => v.entries \in Seq(Entries)
         /\ v = [kind |-> v.kind, entries |-> v.entries]
BY DEF PythonValues, EntriesOf

\* The format check sees the same of a value as of its abstraction.
LEMMA FormatAbstraction ==
  ASSUME NEW f \in DeclaredFormats, NEW v \in PythonValues
  PROVE  MatchesFormat(v, f) <=> Plain(v) /\ MatchesDataFormat(Abstraction(v), f)
<1>0. f \in DOMAIN FormatValidators /\ FormatValidators[f] \subseteq Atoms
  BY KnownFormats, FormatAssumption
<1>1. CASE v.kind = "none"
  BY <1>1 DEF MatchesFormat, Plain, MatchesDataFormat, Abstraction, NoValue
<1>2. CASE v.kind = "scalar"
  <2>1. PICK e \in Atoms \cup Unhashables : v.entries = <<e>> /\ EntriesOf(v) = {e}
    BY <1>2, ValueShape
  <2>2. MatchesFormat(v, f) <=> e \in FormatValidators[f]
    BY <1>0, <1>2, <2>1 DEF MatchesFormat
  <2>3. MatchesDataFormat(Abstraction(v), f) <=> e \in FormatValidators[f]
    BY <1>0, <1>2, <2>1 DEF MatchesDataFormat, Abstraction, Scalar
  <2> QED  BY <1>0, <1>2, <2>1, <2>2, <2>3 DEF Plain
<1>3. CASE v.kind = "list"
  <2>1. v.entries \in Seq(Entries)
    BY <1>3, ValueShape
  <2>2. v.entries # <<>> <=> EntriesOf(v) # {}
    <3>1. DOMAIN v.entries = 1 .. Len(v.entries) /\ Len(v.entries) \in Nat
      BY <2>1
    <3>2. CASE v.entries = <<>>
      BY <3>2 DEF EntriesOf
    <3>3. CASE v.entries # <<>>
      <4>1. Len(v.entries) # 0
        BY <2>1, <3>3
      <4>2. 1 \in DOMAIN v.entries
        BY <3>1, <4>1
      <4> QED  BY <3>3, <4>2 DEF EntriesOf
    <3> QED  BY <3>2, <3>3
  <2>3. MatchesFormat(v, f) <=> EntriesOf(v) # {} /\ EntriesOf(v) \subseteq FormatValidators[f]
    BY <1>0, <1>3, <2>2 DEF MatchesFormat, EntriesOf
  <2>4. MatchesDataFormat(Abstraction(v), f)
          <=> EntriesOf(v) # {} /\ EntriesOf(v) \subseteq FormatValidators[f]
    BY <1>0, <1>3 DEF MatchesDataFormat, Abstraction, List
  <2> QED  BY <1>0, <1>3, <2>3, <2>4 DEF Plain
<1> QED  BY <1>1, <1>2, <1>3, ValueShape

\* On values that passed their format the comparison cannot raise, and its
\* answer is the one of the abstractions.
LEMMA CompareAbstraction ==
  ASSUME NEW f \in DeclaredFormats, NEW a \in PythonValues, NEW p \in PythonValues,
         MatchesFormat(a, f), MatchesFormat(p, f)
  PROVE  /\ Compare(a, p) # "raises"
         /\ Compare(a, p) = "match" <=> ValuesMatch(Abstraction(a), Abstraction(p))
<1>0. NoneEntry \notin Atoms \cup Unhashables /\ Unhashables \cap Atoms = {}
  BY EntriesAssumption
<1>1. EntriesOf(a) \cap Unhashables = {} /\ EntriesOf(p) \cap Unhashables = {}
  BY <1>0, PassingIsPlain, ValueShape
<1>2. CASE a.kind = "list"
  <2>1. Compare(a, p) = IF EntriesOf(a) = EntriesOf(p) THEN "match" ELSE "mismatch"
    BY <1>1, <1>2 DEF Compare
  <2>2. EntriesOf(a) \subseteq Atoms
    BY <1>2, PassingIsPlain
  <2>3. Abstraction(a) = List(EntriesOf(a))
    BY <1>2 DEF Abstraction
  <2>4. CASE p.kind = "none"
    BY <1>0, <2>1, <2>2, <2>3, <2>4, ValueShape DEF ValuesMatch, Abstraction, List, NoValue
  <2>5. CASE p.kind = "scalar"
    <3>1. PICK e \in Atoms \cup Unhashables : p.entries = <<e>> /\ EntriesOf(p) = {e}
      BY <2>5, ValueShape
    <3>2. Abstraction(p) = Scalar(e)
      BY <2>5, <3>1 DEF Abstraction
    <3> QED  BY <2>1, <2>3, <3>1, <3>2 DEF ValuesMatch, Scalar, List
  <2>6. CASE p.kind = "list"
    BY <2>1, <2>3, <2>6 DEF ValuesMatch, Abstraction, List
  <2> QED  BY <2>1, <2>4, <2>5, <2>6, ValueShape
<1>3. CASE a.kind # "list"
  <2>1. Compare(a, p) = IF a = p THEN "match" ELSE "mismatch"
    BY <1>3 DEF Compare
  <2>2. Abstraction(a).kind = a.kind /\ Abstraction(p).kind = p.kind
    BY ValueShape DEF Abstraction, NoValue, Scalar, List
  <2>3. Abstraction(a) = Abstraction(p) <=> a = p
    <3>1. CASE a.kind = "none" /\ p.kind = "none"
      BY <3>1, ValueShape DEF Abstraction
    <3>2. CASE a.kind = "scalar" /\ p.kind = "scalar"
      <4>1. PICK e \in Atoms \cup Unhashables : a.entries = <<e>>
        BY <3>2, ValueShape
      <4>2. PICK d \in Atoms \cup Unhashables : p.entries = <<d>>
        BY <3>2, ValueShape
      <4>3. Abstraction(a) = Scalar(e) /\ Abstraction(p) = Scalar(d)
        BY <3>2, <4>1, <4>2 DEF Abstraction
      <4>4. Scalar(e) = Scalar(d) <=> e = d
        BY DEF Scalar
      <4> QED  BY <3>2, <4>1, <4>2, <4>3, <4>4, ValueShape
    <3>3. CASE a.kind # p.kind
      BY <2>2, <3>3
    <3> QED  BY <1>3, <3>1, <3>2, <3>3, ValueShape
  <2>4. Abstraction(a).kind # "list"
    BY <1>3, <2>2
  <2> QED  BY <2>1, <2>3, <2>4 DEF ValuesMatch
<1> QED  BY <1>2, <1>3

LEMMA ArgInitInv == ArgInit => ArgInv
BY ValuesAssumption DEF ArgInit, ArgInv, DataGateNeverRaises, SetAbstractionExact

LEMMA ArgStepInv == ArgInv /\ [ArgNext]_argVars => ArgInv'
<1> SUFFICES ASSUME ArgInv, [ArgNext]_argVars
             PROVE  ArgInv'
  OBVIOUS
<1> USE DEF ArgInv, DataGateNeverRaises, SetAbstractionExact
<1>1. CASE Filter
  BY <1>1 DEF Filter
<1>2. CASE CheckFormat
  BY <1>2, FormatAbstraction DEF CheckFormat
<1>3. CASE CompareContent
  <2>1. MatchesFormat(argument, format) /\ Plain(argument)
          /\ MatchesDataFormat(Abstraction(argument), format)
    BY <1>3, FormatAbstraction DEF CompareContent
  <2>2. kept <=> Plain(profile) /\ MatchesDataFormat(Abstraction(profile), format)
    BY <1>3, FormatAbstraction DEF CompareContent
  <2>3. kept => /\ Compare(argument, profile) # "raises"
                /\ Compare(argument, profile) = "match"
                     <=> ValuesMatch(Abstraction(argument), Abstraction(profile))
    BY <1>3, <2>1, CompareAbstraction DEF CompareContent
  <2>4. verdict' # "raises"
        /\ (verdict' = "allowed"
              <=> (kept => ValuesMatch(Abstraction(argument), Abstraction(profile))))
    <3>1. CASE ~ kept
      BY <1>3, <3>1 DEF CompareContent
    <3>2. CASE kept
      <4>1. Compare(argument, profile) \in {"match", "mismatch"}
        BY <2>3, <3>2 DEF Compare
      <4> QED  BY <1>3, <2>3, <3>2, <4>1 DEF CompareContent
    <3> QED  BY <3>1, <3>2
  <2>5. stage' = "done" /\ UNCHANGED <<format, profile, argument, kept>>
    BY <1>3 DEF CompareContent
  <2> QED  BY <2>1, <2>2, <2>4, <2>5
<1>4. CASE UNCHANGED argVars
  BY <1>4 DEF argVars
<1> QED  BY <1>1, <1>2, <1>3, <1>4 DEF ArgNext

\* For every value an LLM may write, nested and null entries included, the
\* data gate gives an answer: the format checks before it keep what set()
\* cannot take away from it.
THEOREM GateNeverRaises == ArgSpec => []DataGateNeverRaises
<1>1. ArgSpec => []ArgInv
  BY ArgInitInv, ArgStepInv, PTL DEF ArgSpec
<1>2. ArgInv => DataGateNeverRaises
  BY DEF ArgInv
<1> QED  BY <1>1, <1>2, PTL

\* The verdict on an argument depends only on what ArgMatching keeps of it, for
\* lists of every length: order and duplicates are rightly left out.
THEOREM AbstractionIsExact == ArgSpec => []SetAbstractionExact
<1>1. ArgSpec => []ArgInv
  BY ArgInitInv, ArgStepInv, PTL DEF ArgSpec
<1>2. ArgInv => SetAbstractionExact
  BY DEF ArgInv
<1> QED  BY <1>1, <1>2, PTL

-----------------------------------------------------------------------------
(***************************************************************************)
(* Provenance                                                              *)
(***************************************************************************)

\* How the provenance of a value relates to where its content comes from.
Honest(v) ==
  /\ v.origin \in Origins
  /\ v.tool_name = v.origin.tool /\ v.inner_source = v.origin.inner
  /\ v.source = "user" => v.origin = UserOrigin
  /\ v.source = "tool" => v.origin # UserOrigin

ProvInv == ~ adapted => \A k \in DOMAIN args : Honest(args[k])

LEMMA ToolOrigin ==
  ASSUME NEW origin \in Origins \ {UserOrigin}
  PROVE  origin.tool \in Tools /\ origin.tool # None
BY NoneAssumption DEF Origins, UserOrigin

\* The three ways to make a value keep it honest.
LEMMA MadeHonest ==
  /\ Honest(user_literal)
  /\ \A origin \in Origins \ {UserOrigin} : Honest(tool_result(origin))
  /\ \A k \in DOMAIN args : Honest(args[k]) => Honest(transformed(args[k]))
BY DEF Honest, user_literal, tool_result, transformed, Value, UserOrigin, Origins

LEMMA PutInv ==
  ASSUME ProvInv, ~ adapted, NEW key \in ArgKeys, NEW v, Honest(v), Put(key, v)
  PROVE  ProvInv'
<1>1. \A k \in DOMAIN args' : args'[k] = v \/ (k \in DOMAIN args /\ args'[k] = args[k])
  BY DEF Put
<1>2. ASSUME NEW k \in DOMAIN args'
      PROVE  Honest(args[k])'
  <2>1. CASE args'[k] = v
    BY <2>1 DEF Honest
  <2>2. CASE k \in DOMAIN args /\ args'[k] = args[k]
    BY <2>2 DEF ProvInv, Honest
  <2> QED  BY <1>1, <2>1, <2>2
<1> QED  BY <1>2 DEF ProvInv

LEMMA ProvInitInv == ProvInit => ProvInv
BY DEF ProvInit, ProvInv

LEMMA ProvStepInv == ProvInv /\ [ProvNext]_provVars => ProvInv'
<1> SUFFICES ASSUME ProvInv, [ProvNext]_provVars
             PROVE  ProvInv'
  OBVIOUS
<1>1. CASE ~ adapted /\ PutFresh
  <2>1. PICK key \in ArgKeys :
          \/ Put(key, user_literal)
          \/ \E origin \in Origins \ {UserOrigin} : Put(key, tool_result(origin))
    BY <1>1 DEF PutFresh
  <2>2. CASE Put(key, user_literal)
    BY <1>1, <2>2, PutInv, MadeHonest
  <2>3. ASSUME NEW origin \in Origins \ {UserOrigin}, Put(key, tool_result(origin))
        PROVE  ProvInv'
    BY <1>1, <2>3, PutInv, MadeHonest
  <2> QED  BY <2>1, <2>2, <2>3
<1>2. CASE ~ adapted /\ PutTransformed
  <2>1. PICK key \in ArgKeys, from \in DOMAIN args : Put(key, transformed(args[from]))
    BY <1>2 DEF PutTransformed
  <2>2. Honest(transformed(args[from]))
    BY <1>2, MadeHonest DEF ProvInv
  <2>3. PICK v : v = transformed(args[from])
    OBVIOUS
  <2> QED  BY <1>2, <2>1, <2>2, <2>3, PutInv
<1>3. CASE Adapt
  BY <1>3 DEF Adapt, ProvInv
<1>4. CASE UNCHANGED provVars
  BY <1>4 DEF provVars, ProvInv, Honest
<1> QED  BY <1>1, <1>2, <1>3, <1>4 DEF ProvNext

THEOREM ProvenanceIsHonest == ProvSpec => []ProvInv
BY ProvInitInv, ProvStepInv, PTL DEF ProvSpec

\* Nothing that goes back to a tool is ever trusted, through any chain of
\* transformations, and only an empty request is both all user and all tool.
THEOREM OnlyUsersAreTrusted == ProvSpec => []TrustedIsUsers
<1>1. ProvInv => TrustedIsUsers
  <2> SUFFICES ASSUME ProvInv, ~ adapted
               PROVE  /\ \A k \in trusted_args : args[k].origin = UserOrigin
                      /\ all_args_user_sourced /\ is_all_tool_sourced => DOMAIN args = {}
    BY DEF TrustedIsUsers
  <2> QED  BY DEF ProvInv, Honest, trusted_args, untrusted_args, is_trusted, is_tool_sourced,
              all_args_user_sourced, is_all_tool_sourced
<1> QED  BY <1>1, ProvenanceIsHonest, PTL

\* The provenance of a value names the tool and the inner source it goes back to,
\* through any chain of transformations.
THEOREM OriginsSurvive == ProvSpec => []OriginSurvives
<1>1. ProvInv => OriginSurvives
  <2> SUFFICES ASSUME ProvInv, ~ adapted
               PROVE  OriginSurvives
    BY DEF OriginSurvives
  <2>1. \A k \in DOMAIN args : Honest(args[k])
    BY DEF ProvInv
  <2>2. \A k \in DOMAIN args :
          [tool |-> args[k].tool_name, inner |-> args[k].inner_source] = args[k].origin
    BY <2>1 DEF Honest, Origins, UserOrigin
  <2>3. \A k \in untrusted_args : args[k].tool_name = args[k].origin.tool
                                  /\ args[k].origin.tool # None /\ k \in DOMAIN args
    BY <2>1, ToolOrigin DEF Honest, untrusted_args, is_tool_sourced
  <2> QED  BY <2>2, <2>3 DEF OriginSurvives, tool_sources
<1> QED  BY <1>1, ProvenanceIsHonest, PTL

-----------------------------------------------------------------------------
(***************************************************************************)
(* Descriptions of the pool                                                *)
(***************************************************************************)

\* What generation was given: a context for every enabled item of the pool.
PoolInv ==
  /\ pool \in UNION {[1 .. n -> PoolItems] : n \in 0 .. MaxPool}
  /\ phase = "done" =>
       \A i \in DOMAIN pool : IsEnabled(pool[i]) => ActionContext(pool[i]) \in contexts

LEMMA PoolInitInv == PoolInit => PoolInv
BY DEF PoolInit, PoolInv

LEMMA PoolStepInv == PoolInv /\ [PoolNext]_poolVars => PoolInv'
BY DEF PoolInv, PoolNext, ScopePool, BuildContexts, poolVars, IsEnabled, ActionContext

LEMMA PoolInvariant == PoolSpec => []PoolInv
BY PoolInitInv, PoolStepInv, PTL DEF PoolSpec

LEMMA OnlyName ==
  ASSUME NEW n, n \notin {Missing, Empty}
  PROVE  /\ FirstTruthy(<<Missing, n>>) = n
         /\ FirstTruthy(<<n, Missing, Missing>>) = n
<1>1. ASSUME NEW names, NEW k \in Nat, {i \in DOMAIN names : names[i] \notin {Missing, Empty}} = {k}
      PROVE  FirstTruthy(names) = names[k]
  <2>1. Min({k}) = k
    BY DEF Min
  <2> QED  BY <1>1, <2>1 DEF FirstTruthy
<1>2. {i \in DOMAIN <<Missing, n>> : <<Missing, n>>[i] \notin {Missing, Empty}} = {2}
  OBVIOUS
<1>3. {i \in DOMAIN <<n, Missing, Missing>> : <<n, Missing, Missing>>[i] \notin {Missing, Empty}} = {1}
  OBVIOUS
<1> QED  BY <1>1, <1>2, <1>3

\* A function and the mapping made of it are described alike: every key of the
\* mapping is nested, every key of the function is lifted, and no other is there.
LEMMA FunctionIsMapping ==
  ASSUME NEW f \in PoolItems, IsFunction(f)
  PROVE  SerializeActionDescriptor(HarnessMapping(f)) = SerializeActionDescriptor(f)
<1> DEFINE keys == TopLevelKeys \ {"docstring", "schema"}
           described == [k \in keys |-> f.fields[k]]
<1>1. /\ DOMAIN f.fields = TopLevelKeys
      /\ \A k \in TopLevelKeys : f.fields[k] # Missing <=> k \in keys
  BY ItemsAssumption DEF IsFunction, TopLevelKeys
<1>2. Lifted(f.fields) = described /\ f.metadata = <<>>
  BY <1>1 DEF Lifted, IsFunction
<1>3. Merged(described, <<>>) = described
  BY DEF Merged
<1>4. Merged(Lifted(NoFields), described) = described
  <2>1. DOMAIN Lifted(NoFields) = {}
    BY DEF Lifted, NoFields
  <2> QED  BY <2>1 DEF Merged
<1>5. FirstTruthy(HarnessMapping(f).names) = FirstTruthy(f.names)
  <2>1. f.names[2] \notin {Missing, Empty}
    BY DEF IsFunction
  <2>2. FirstTruthy(HarnessMapping(f).names) = f.names[2]
    BY <2>1, OnlyName DEF HarnessMapping
  <2>3. {i \in DOMAIN f.names : f.names[i] \notin {Missing, Empty}} = {2}
    BY DEF IsFunction
  <2>4. Min({2}) = 2
    BY DEF Min
  <2> QED  BY <2>2, <2>3, <2>4 DEF FirstTruthy
<1> QED  BY <1>2, <1>3, <1>4, <1>5 DEF SerializeActionDescriptor, HarnessMapping

\* The LLMs are told the same of every AgentDojo function, whichever way the
\* harness or its user puts it into the pool.
THEOREM FunctionsDescribedAlike == PoolSpec => []DescribedAlike
<1>1. PoolInv => DescribedAlike
  <2> SUFFICES ASSUME PoolInv, NEW i \in DOMAIN pool, IsFunction(pool[i])
               PROVE  /\ SerializeActionDescriptor(HarnessMapping(pool[i])) = Descriptions[i]
                      /\ phase = "done" /\ Descriptions[i].action_name \in enabled
                           => ActionContext(HarnessMapping(pool[i])) \in contexts
    BY DEF DescribedAlike
  <2>1. pool[i] \in PoolItems
    BY DEF PoolInv
  <2>2. SerializeActionDescriptor(HarnessMapping(pool[i])) = SerializeActionDescriptor(pool[i])
    BY <2>1, FunctionIsMapping
  <2>3. ActionContext(HarnessMapping(pool[i])) = ActionContext(pool[i])
    BY <2>2 DEF ActionContext
  <2>4. /\ Descriptions[i] = SerializeActionDescriptor(pool[i])
        /\ Descriptions[i].action_name = FirstTruthy(pool[i].names)
    BY DEF Descriptions, SerializeActionDescriptor
  <2>5. phase = "done" /\ Descriptions[i].action_name \in enabled
          => ActionContext(pool[i]) \in contexts
    BY <2>4 DEF PoolInv, IsEnabled
  <2> QED  BY <2>2, <2>3, <2>4, <2>5
<1> QED  BY <1>1, PoolInvariant, PTL
==============================================================================
