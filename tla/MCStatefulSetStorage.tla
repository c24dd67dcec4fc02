------------------------ MODULE MCStatefulSetStorage ------------------------
\* Small instances of StatefulSetStorage.
EXTENDS StatefulSetStorage

MCFirstTemplate == [size |-> 1, class |-> "fast"]
=============================================================================
