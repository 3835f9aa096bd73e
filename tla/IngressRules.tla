---------------------------- MODULE IngressRules ----------------------------
(* ingress/ingress.go, rule.go and config.go: how the rules of a file, of the
   flags or of the edge become an Ingress, which rule a request meets, and what
   the edge is told of the rules (orchestration/config.go).  The options of
   originRequest are independent of each other, and of three kinds: a behaviour
   is about one option, of one of them.                                      *)
EXTENDS Naturals, Sequences, SequencesExt

CONSTANTS
    Hosts,         \* hosts of requests
    Suffixed,      \* those that end in ".d"
    Encoded,       \* the one that is the punycode of the pattern "idn"
    Paths,         \* paths of requests; a regexp here matches one of them
    OptionValues,  \* of the option
    DefaultValue,  \* the default the program has for a setting
    BadOptions,    \* values not everybody reads: a duration with a fraction of a
                   \* second, a policy of Access with an audTag and no teamName, an
                   \* IP rule without a prefix
    MaxRules,      \* bound: the rules of a configuration
    Nil

Zero == "zero"      \* the zero value of the option: for a policy, that there is none
Kinds == {"setting", "access", "ipRules"}
Patterns == Hosts \cup {"", "*.d", "idn", "host:port", "a*"}
Expressions == Paths \cup {"", "malformed"}
\* config.UnvalidatedIngressRule; option is nil, or the value it points to
RawRules == [host : Patterns, path : Expressions, option : OptionValues \cup {Zero, Nil},
             service : {"valid", "invalid"}]

\* An option that is nil has no value.
ASSUME RulesAssumption ==
    /\ Nil \notin OptionValues \cup {DefaultValue, Zero}
    /\ BadOptions \subseteq OptionValues /\ DefaultValue \notin BadOptions /\ Zero \notin OptionValues

VARIABLES
    kind,          \* what the option is: a setting of the requests to the origin, the
                   \* policy of Access, or the IP rules of a SOCKS proxy
    raw, global,   \* the configuration that is written, and its originRequest
    source,        \* "writing" until it is read, then where it came from
    rules,         \* Rules of the Ingress, empty if it was refused
    asked, found,  \* the last request, and the index of the rule it met
    told           \* the rules that GetConfigJSON gives

rulesVars == <<kind, raw, global, source, rules, asked, found, told>>

RulesInit ==
    /\ kind \in Kinds
    /\ raw = <<>> /\ global = Nil /\ source = "writing" /\ rules = <<>>
    /\ asked = Nil /\ found = 0 /\ told = <<>>

CatchAll(r) == r.host = "" /\ r.path = ""

\* validateHostname; the host "*" is the same as ""
ValidateHostname(rs, i) ==
    rs[i].host \notin {"host:port", "a*"} /\ (i = Len(rs) <=> CatchAll(rs[i]))

\* A duration is written to JSON as a number of seconds, and read as an integer.
ReadByJSON(rs, g) ==
    kind = "setting" => g \notin BadOptions /\ \A i \in 1..Len(rs) : rs[i].option \notin BadOptions

\* originRequestFromConfig, which drops an IP rule that is bad, and setConfig with
\* an override: a list of IP rules overrides if it is not empty
DefaultOption == IF kind = "setting" THEN DefaultValue ELSE Zero
OriginRequest(g) == IF g = Nil \/ (kind = "ipRules" /\ g \in BadOptions) THEN DefaultOption ELSE g
SetConfig(default, o) == IF o = Nil \/ (kind = "ipRules" /\ o = Zero) THEN default ELSE o

\* The JWT handler and the policy of the SOCKS proxy come from the rule alone.
InForce(c, o) == IF kind = "setting" THEN c ELSE IF o = Nil THEN Zero ELSE o

\* validateIngress: one rule that is wrong refuses them all
Valid(rs) == \A i \in 1..Len(rs) :
                /\ rs[i].service = "valid" /\ rs[i].path # "malformed" /\ ValidateHostname(rs, i)
                /\ kind = "setting" \/ rs[i].option \notin BadOptions
Built(rs, g) == [i \in 1..Len(rs) |->
                   [host |-> rs[i].host, path |-> rs[i].path,
                    punycode |-> IF rs[i].host = "idn" THEN Encoded ELSE "",
                    config |-> SetConfig(OriginRequest(g), rs[i].option),
                    force |-> InForce(SetConfig(OriginRequest(g), rs[i].option), rs[i].option)]]

\* GetDefaultIngressRules and parseCLIIngress: the only rule.  No flag is about a
\* policy.
Single(v) == <<[host |-> "", path |-> "", punycode |-> "", config |-> v, force |-> v]>>
FlagValues == IF kind = "setting" THEN OptionValues \cup {DefaultValue} ELSE {Zero}

\* matchHost and Rule.Matches
MatchHost(pattern, host) == pattern = host \/ (pattern = "*.d" /\ host \in Suffixed)
Matches(rule, q) ==
    /\ rule.host = "" \/ MatchHost(rule.host, q.host)
          \/ (rule.punycode # "" /\ MatchHost(rule.punycode, q.host))
    /\ rule.path \in {"", q.path}

\* FindMatchingRule
FindMatchingRule(q) ==
    LET i == SelectInSeq(rules, LAMBDA r : Matches(r, q))
    IN  IF i = 0 THEN Len(rules) ELSE i

\* ConvertToRawOriginConfig and convertToUnvalidatedIngressRules
ConvertToRawNoZero == [i \in 1..Len(rules) |->
                   [host |-> rules[i].host, path |-> rules[i].path, service |-> "valid",
                    option |-> IF rules[i].config \in {DefaultOption, Zero} THEN Nil ELSE rules[i].config]]
ConvertToRaw == [i \in 1..Len(rules) |->
                   [host |-> rules[i].host, path |-> rules[i].path, service |-> "valid",
                    option |-> IF rules[i].config = DefaultOption THEN Nil ELSE rules[i].config]]

-----------------------------------------------------------------------------
\* somebody writes the configuration
AddRule ==
    /\ source = "writing" /\ Len(raw) < MaxRules
    /\ \E r \in RawRules : raw' = Append(raw, r)
    /\ UNCHANGED <<kind, global, source, rules, asked, found, told>>

SetGlobal ==
    /\ source = "writing" /\ global = Nil
    /\ global' \in OptionValues \cup {Zero}
    /\ UNCHANGED <<kind, raw, source, rules, asked, found, told>>

Read(from, rs) ==
    /\ source = "writing" /\ source' = from /\ rules' = rs
    /\ UNCHANGED <<kind, raw, global, asked, found, told>>

\* ParseIngressFromConfigAndCLI of a file without rules: the flags are the only
\* rule, a url may be bad, and without flags requests are answered 503
FromFlags ==
    /\ raw = <<>>
    /\ \E rs \in {<<>>, Single(Zero)} \cup {Single(v) : v \in FlagValues} : Read("flags", rs)

\* ParseIngress
FromFile == raw # <<>> /\ Read("file", IF Valid(raw) THEN Built(raw, global) ELSE <<>>)

\* RemoteConfig.UnmarshalJSON and updateIngress
FromEdge ==
    Read("edge", IF ~ReadByJSON(raw, global) THEN <<>>
                 ELSE IF raw = <<>> THEN Single(Zero)
                 ELSE IF Valid(raw) THEN Built(raw, global) ELSE <<>>)

Ask ==
    /\ rules # <<>>
    /\ \E h \in Hosts, p \in Paths : asked' = [host |-> h, path |-> p]
    /\ found' = FindMatchingRule(asked')
    /\ UNCHANGED <<kind, raw, global, source, rules, told>>

\* GetConfigJSON, sent when a connection registers; it has no originRequest
Tell ==
    /\ rules # <<>> /\ told' = ConvertToRaw
    /\ UNCHANGED <<kind, raw, global, source, rules, asked, found>>

RulesNext == AddRule \/ SetGlobal \/ FromFlags \/ FromFile \/ FromEdge \/ Ask \/ Tell
RulesSpec == RulesInit /\ [][RulesNext]_rulesVars

-----------------------------------------------------------------------------
\* A request meets the first rule that matches it, and one always does: the
\* answer of FindMatchingRule when none matches is never used.
RequestsMeetTheirRule ==
    found # 0 => /\ Matches(rules[found], asked)
                 /\ \A i \in 1..(found - 1) : ~Matches(rules[i], asked)

\* The edge gets the rules without the originRequest they inherited from and with
\* no option that is at its default.  Who reads what it was told reads it as a whole
\* or, if a rule has a bad value, a fraction of a second or a policy of Access that was
\* inherited unseen, not at all; and reads the configuration of every rule as it is
\* here.
EdgeReadsTheSame ==
    told # <<>> =>
       /\ ReadByJSON(told, Nil) /\ Valid(told)
             <=> \A i \in 1..Len(rules) : rules[i].config \notin BadOptions
       /\ Built(told, Nil) = [i \in 1..Len(rules) |->
                                [rules[i] EXCEPT !.force = rules[i].config]]

\* What is in force here is that configuration, except that a policy is not which a
\* rule without one has inherited from the originRequest above.
InheritedPoliciesAreNotInForce ==
    \A i \in 1..Len(rules) :
       rules[i].force = rules[i].config
       \/ /\ kind # "setting" /\ rules[i].force = Zero /\ raw[i].option \in {Nil, Zero}
          /\ rules[i].config = global

\* Wherever the rules came from, a request meets the rule that was written for it,
\* and the edge that reads them back reads the configuration that is in force here,
\* but for inherited policies (FindMatchingRule, GetConfigJSON, validateIngress).
RulesKeepTheirMeaning ==
    RequestsMeetTheirRule /\ EdgeReadsTheSame /\ InheritedPoliciesAreNotInForce
=============================================================================
