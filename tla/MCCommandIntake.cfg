SPECIFICATION Spec
CONSTANTS
  ask = ask
  yes = yes
  other = other
  cmd = cmd
  again = again
  plain = plain
  ka = ka
  ky = ky
  ko = ko
  kc = kc
  h1 = h1
  h2 = h2
  None = None
  Envelopes = {ask, yes, other, cmd, again, plain}
  Scenarios <- MCScenarios
  Keys = {ka, ky, ko, kc}
  KeyOf <- MCKeyOf
  ProofOf <- MCProofOf
  Nonced = {ask, yes, other, cmd, again}
  Sensitive = {ask, yes, other}
  Local = {yes, again}
  Handlers = {h1, h2}
SYMMETRY Symmetry
INVARIANTS
  TypeOK
  OnceUnderItsKey
  ApprovalCarriesOne
PROPERTY ImplementsExecutor
