SPECIFICATION MapsSpec
CONSTANTS
    Clusters = {c1, c2}
    Columns = {kube_config}
    Readers = {r1, r2}
    Writers = {w1}
    MaxVer = 2
    Absent = Absent
PROPERTY ExistingClusterIsFound
