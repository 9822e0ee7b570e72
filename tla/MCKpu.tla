------------------------------- MODULE MCKpu -------------------------------
EXTENDS Kpu

Network(p, k, l) == [api |-> p, kinds |-> k, load |-> l]

MCJobs == {Network("run", <<"out">>, "dma"),
           Network("run", <<"conv", "conv", "out">>, "dma"),
           Network("start", <<"conv", "out">>, "none"),
           Network("start", <<"conv", "conv", "out">>, "dma"),
           Network("kmodel", <<"conv", "conv", "out">>, "dma"),
           Network("kmodel", <<"out", "cpu", "conv", "conv", "cpu">>, "cpu"),
           Network("kmodel", <<"cpu">>, "cpu")}
=============================================================================
