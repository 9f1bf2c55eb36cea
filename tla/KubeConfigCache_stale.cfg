SPECIFICATION MapsSpec
CONSTANTS
    Clusters = {c1, c2}
    Columns = {kube_config, bearer_token}
    Readers = {r1, r2}
    Writers = {w1, w2}
    MaxVer = 2
    Absent = Absent
SYMMETRY Symmetry
INVARIANT StaleEntryHasCause
PROPERTY LostEntryWasTouched
