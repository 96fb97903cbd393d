\* Two users, two requests at a time, uploads, edits, deletions and one request
\* of the administrator.  It may stop: with its ledger gone wrong, its user
\* cannot upload, and there is nothing left to edit or delete.
SPECIFICATION Spec
CONSTANTS
  Users = {u1, u2}
  Archives = {a1, a2}
  Tags = {t1, t2}
  Sizes = {1, 2}
  Quotas = {0, 2}
  Slots = {s1, s2}
  MaxRequests = 4
  None = None
SYMMETRY Symmetry
INVARIANTS
    LedgerIsExact
    TagsAreUnique
PROPERTIES
    UploadKeepsQuota
CHECK_DEADLOCK FALSE
