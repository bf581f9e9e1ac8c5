SPECIFICATION Spec
CONSTANTS
  Sessions = {s1, s2}
  Accounts = {a, b}
  Passwords = {p, q}
  Certs = {c, d}
  MaxCerts = 1
  None = None
SYMMETRY Symmetry
INVARIANTS TypeOK CertIndex CertsDurable
PROPERTY BindingProven
