SPECIFICATION Spec
CONSTANTS
    Keys <- MCKeys
    FileOf <- MCFileOf
    Groups = {"base32", "base64", "divmul32", "divmul64", "atomic32", "atomic64", "packet", "callx"}
    UsableHelpers = {1, 16}
    UnsupportedHelpers = {16}
INVARIANTS
    CallsLinked
    ExecutionKept
    AcceptsIsa
    RoundTrip
